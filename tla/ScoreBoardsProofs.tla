-------------------------- MODULE ScoreBoardsProofs --------------------------
(***************************************************************************)
(* Theorems about ScoreBoards, for every number of devices, rows, scores,  *)
(* settings and threads at work at once, and every order of their steps    *)
(* and of restarts.                                                        *)
(***************************************************************************)
EXTENDS ScoreBoards, SequenceTheorems, FiniteSetTheorems, TLAPS

-----------------------------------------------------------------------------
(* Tables: sequences of entries, cut and put together. *)

\* A stretch of a table.
LEMMA Stretch ==
  ASSUME NEW q \in Seq(Entry), NEW m \in Nat, NEW n \in Nat,
         1 <= m, n <= Len(q), m <= n + 1
  PROVE  /\ SubSeq(q, m, n) \in Seq(Entry)
         /\ Len(SubSeq(q, m, n)) = n - m + 1
         /\ \A i \in 1 .. n - m + 1 : SubSeq(q, m, n)[i] = q[m + i - 1]
<1>1. Len(q) \in Nat /\ \A i \in 1 .. Len(q) : q[i] \in Entry
  OBVIOUS
<1>2. \A i \in m .. n : q[i] \in Entry
  BY <1>1
<1>3. PICK s : s = SubSeq(q, m, n)
  OBVIOUS
<1>4. /\ s \in Seq(Entry)
      /\ Len(s) = IF m <= n THEN n - m + 1 ELSE 0
      /\ \A i \in 1 .. n - m + 1 : s[i] = q[m + i - 1]
  BY <1>2, <1>3, SubSeqProperties
<1>5. Len(s) = n - m + 1
  BY <1>4
<1> QED BY <1>3, <1>4, <1>5

\* Two tables, one after the other.
LEMMA Joined ==
  ASSUME NEW a \in Seq(Entry), NEW b \in Seq(Entry)
  PROVE  /\ a \o b \in Seq(Entry)
         /\ Len(a \o b) = Len(a) + Len(b)
         /\ \A i \in 1 .. Len(a) + Len(b) :
              (a \o b)[i] = IF i <= Len(a) THEN a[i] ELSE b[i - Len(a)]
BY ConcatProperties

\* Where the i-th of the entries that are left was before the m-th went.
Shift(m, i) == IF i < m THEN i ELSE i + 1

\* The table that RemoveAt leaves.
LEMMA RemoveAtEntries ==
  ASSUME NEW q \in Seq(Entry), NEW m \in 1 .. Len(q)
  PROVE  /\ RemoveAt(q, m) \in Seq(Entry)
         /\ Len(RemoveAt(q, m)) = Len(q) - 1
         /\ \A i \in 1 .. Len(q) - 1 : RemoveAt(q, m)[i] = q[Shift(m, i)]
<1>1. Len(q) \in Nat /\ m \in Nat /\ 1 <= m /\ m <= Len(q)
  OBVIOUS
<1>2. PICK a : a = SubSeq(q, 1, m - 1)
  OBVIOUS
<1>3. PICK b : b = SubSeq(q, m + 1, Len(q))
  OBVIOUS
<1>4. a \in Seq(Entry) /\ Len(a) = m - 1 /\ \A i \in 1 .. m - 1 : a[i] = q[i]
  <2>1. /\ a \in Seq(Entry) /\ Len(a) = (m - 1) - 1 + 1
        /\ \A i \in 1 .. (m - 1) - 1 + 1 : a[i] = q[1 + i - 1]
    BY <1>1, <1>2, Stretch
  <2> QED BY <1>1, <2>1
<1>5. /\ b \in Seq(Entry) /\ Len(b) = Len(q) - m
      /\ \A i \in 1 .. Len(q) - m : b[i] = q[m + i]
  <2>1. /\ b \in Seq(Entry) /\ Len(b) = Len(q) - (m + 1) + 1
        /\ \A i \in 1 .. Len(q) - (m + 1) + 1 : b[i] = q[(m + 1) + i - 1]
    BY <1>1, <1>3, Stretch
  <2> QED BY <1>1, <2>1
<1>6. PICK s : s = a \o b
  OBVIOUS
<1>7. RemoveAt(q, m) = s
  BY <1>2, <1>3, <1>6 DEF RemoveAt
<1>8. /\ s \in Seq(Entry) /\ Len(s) = Len(a) + Len(b)
      /\ \A i \in 1 .. Len(a) + Len(b) :
           s[i] = IF i <= Len(a) THEN a[i] ELSE b[i - Len(a)]
  BY <1>4, <1>5, <1>6, Joined
<1>9. Len(s) = Len(q) - 1
  BY <1>1, <1>4, <1>5, <1>8
<1>10. ASSUME NEW i \in 1 .. Len(q) - 1
       PROVE  s[i] = q[Shift(m, i)]
  <2>1. s[i] = IF i <= m - 1 THEN a[i] ELSE b[i - (m - 1)]
    BY <1>1, <1>4, <1>5, <1>8
  <2>2. CASE i < m
    BY <1>1, <1>4, <2>1, <2>2 DEF Shift
  <2>3. CASE ~(i < m)
    <3>1. i - (m - 1) \in 1 .. Len(q) - m /\ m + (i - (m - 1)) = i + 1
      BY <1>1, <2>3
    <3>2. b[i - (m - 1)] = q[m + (i - (m - 1))]
      BY <1>5, <3>1
    <3>3. s[i] = b[i - (m - 1)]
      BY <1>1, <2>1, <2>3
    <3> QED BY <2>3, <3>1, <3>2, <3>3 DEF Shift
  <2> QED BY <2>2, <2>3
<1> QED BY <1>7, <1>8, <1>9, <1>10

\* The table that InsertAt gives.
LEMMA InsertAtEntries ==
  ASSUME NEW q \in Seq(Entry), NEW p \in 1 .. Len(q) + 1, NEW e \in Entry
  PROVE  /\ InsertAt(q, p, e) \in Seq(Entry)
         /\ Len(InsertAt(q, p, e)) = Len(q) + 1
         /\ \A i \in 1 .. Len(q) + 1 :
              InsertAt(q, p, e)[i] =
                IF i < p THEN q[i] ELSE IF i = p THEN e ELSE q[i - 1]
<1>1. Len(q) \in Nat /\ p \in Nat /\ 1 <= p /\ p <= Len(q) + 1
  OBVIOUS
<1>2. PICK a : a = SubSeq(q, 1, p - 1)
  OBVIOUS
<1>3. PICK b : b = SubSeq(q, p, Len(q))
  OBVIOUS
<1>4. a \in Seq(Entry) /\ Len(a) = p - 1 /\ \A i \in 1 .. p - 1 : a[i] = q[i]
  <2>1. /\ a \in Seq(Entry) /\ Len(a) = (p - 1) - 1 + 1
        /\ \A i \in 1 .. (p - 1) - 1 + 1 : a[i] = q[1 + i - 1]
    BY <1>1, <1>2, Stretch
  <2> QED BY <1>1, <2>1
<1>5. /\ b \in Seq(Entry) /\ Len(b) = Len(q) - p + 1
      /\ \A i \in 1 .. Len(q) - p + 1 : b[i] = q[p + i - 1]
  BY <1>1, <1>3, Stretch
<1>6. PICK one : one = <<e>>
  OBVIOUS
<1>7. one \in Seq(Entry) /\ Len(one) = 1 /\ one[1] = e
  BY <1>6
<1>8. PICK c : c = a \o one
  OBVIOUS
<1>9. /\ c \in Seq(Entry) /\ Len(c) = Len(a) + Len(one)
      /\ \A i \in 1 .. Len(a) + Len(one) :
           c[i] = IF i <= Len(a) THEN a[i] ELSE one[i - Len(a)]
  BY <1>4, <1>7, <1>8, Joined
<1>10. /\ Len(c) = p
       /\ \A i \in 1 .. p - 1 : c[i] = q[i]
       /\ c[p] = e
  <2>1. Len(c) = p
    BY <1>1, <1>4, <1>7, <1>9
  <2>2. \A i \in 1 .. p - 1 : c[i] = q[i]
    BY <1>1, <1>4, <1>7, <1>9
  <2>3. c[p] = one[1]
    <3>1. p \in 1 .. Len(a) + Len(one) /\ p - Len(a) = 1 /\ ~(p <= Len(a))
      BY <1>1, <1>4, <1>7
    <3> QED BY <1>9, <3>1
  <2> QED BY <1>7, <2>1, <2>2, <2>3
<1>11. PICK s : s = c \o b
  OBVIOUS
<1>12. InsertAt(q, p, e) = s
  BY <1>2, <1>3, <1>6, <1>8, <1>11 DEF InsertAt
<1>13. /\ s \in Seq(Entry) /\ Len(s) = Len(c) + Len(b)
       /\ \A i \in 1 .. Len(c) + Len(b) :
            s[i] = IF i <= Len(c) THEN c[i] ELSE b[i - Len(c)]
  BY <1>5, <1>9, <1>11, Joined
<1>14. Len(s) = Len(q) + 1
  BY <1>1, <1>5, <1>10, <1>13
<1>15. ASSUME NEW i \in 1 .. Len(q) + 1
       PROVE  s[i] = IF i < p THEN q[i] ELSE IF i = p THEN e ELSE q[i - 1]
  <2>1. s[i] = IF i <= p THEN c[i] ELSE b[i - p]
    BY <1>1, <1>5, <1>10, <1>13
  <2>2. CASE i <= p
    <3>1. s[i] = c[i]
      BY <2>1, <2>2
    <3>2. CASE i < p
      BY <1>1, <1>10, <3>1, <3>2
    <3>3. CASE i = p
      BY <1>1, <1>10, <3>1, <3>3
    <3> QED BY <1>1, <2>2, <3>2, <3>3
  <2>3. CASE ~(i <= p)
    <3>1. i - p \in 1 .. Len(q) - p + 1 /\ p + (i - p) - 1 = i - 1
      BY <1>1, <2>3
    <3>2. b[i - p] = q[p + (i - p) - 1]
      BY <1>5, <3>1
    <3>3. s[i] = q[i - 1]
      BY <2>1, <2>3, <3>1, <3>2
    <3> QED BY <1>1, <2>3, <3>3
  <2> QED BY <2>2, <2>3
<1> QED BY <1>12, <1>13, <1>14, <1>15

\* The table without its last entry.
LEMMA FrontEntries ==
  ASSUME NEW q \in Seq(Entry), Len(q) > 0
  PROVE  /\ Front(q) \in Seq(Entry)
         /\ Len(Front(q)) = Len(q) - 1
         /\ \A i \in 1 .. Len(q) - 1 : Front(q)[i] = q[i]
         /\ Last(q) = q[Len(q)]
<1>1. Len(q) \in Nat
  OBVIOUS
<1>2. PICK a : a = SubSeq(q, 1, Len(q) - 1)
  OBVIOUS
<1>3. /\ a \in Seq(Entry) /\ Len(a) = (Len(q) - 1) - 1 + 1
      /\ \A i \in 1 .. (Len(q) - 1) - 1 + 1 : a[i] = q[1 + i - 1]
  <2>1. /\ Len(q) - 1 \in Nat /\ 1 <= (Len(q) - 1) + 1 /\ Len(q) - 1 <= Len(q)
        /\ 1 \in Nat /\ 1 <= 1
    BY <1>1
  <2> QED BY <1>2, <2>1, Stretch
<1>4. /\ a \in Seq(Entry) /\ Len(a) = Len(q) - 1
      /\ \A i \in 1 .. Len(q) - 1 : a[i] = q[i]
  BY <1>1, <1>3
<1> QED BY <1>2, <1>4 DEF Front, Last

-----------------------------------------------------------------------------
(* The index of a table. *)

\* No key has two entries.
OneEach(s) == \A i, j \in DOMAIN s : s[i].key = s[j].key => i = j

\* The index has the position of every entry, and no other position.
Exact(s, index) ==
  /\ \A i \in DOMAIN s : index[s[i].key] = i
  /\ \A k \in Keys : index[k] # 0 => index[k] \in DOMAIN s /\ s[index[k]].key = k

\* What the entries and positions of a table are.
LEMMA TableTypes ==
  ASSUME NEW s \in Seq(Entry)
  PROVE  /\ Len(s) \in Nat /\ DOMAIN s = 1 .. Len(s)
         /\ \A i \in 1 .. Len(s) : s[i] \in Entry /\ s[i].key \in Keys
<1>1. Len(s) \in Nat /\ DOMAIN s = 1 .. Len(s) /\ \A i \in 1 .. Len(s) : s[i] \in Entry
  OBVIOUS
<1> QED BY <1>1 DEF Entry

\* A table with an exact index has each key at most once.
LEMMA ExactHasOneEach ==
  ASSUME NEW s, NEW index, Exact(s, index)
  PROVE  OneEach(s)
BY DEF Exact, OneEach

\* What Reindex writes to the index and what it leaves.
LEMMA ReindexValues ==
  ASSUME NEW s \in Seq(Entry), OneEach(s), NEW index \in [Keys -> Nat],
         NEW from \in Nat \ {0}
  PROVE  /\ Reindex(s, index, from) \in [Keys -> Nat]
         /\ \A i \in from .. Len(s) : Reindex(s, index, from)[s[i].key] = i
         /\ \A k \in Keys : (\A i \in from .. Len(s) : s[i].key # k)
              => Reindex(s, index, from)[k] = index[k]
<1> DEFINE r == Reindex(s, index, from)
           At1(k) == \E i \in from .. Len(s) : s[i].key = k
           P(k) == CHOOSE i \in from .. Len(s) : s[i].key = k
<1>1. r = [k \in Keys |-> IF At1(k) THEN P(k) ELSE index[k]]
  BY DEF Reindex
<1>2. Len(s) \in Nat /\ DOMAIN s = 1 .. Len(s) /\ from .. Len(s) \subseteq Nat
  BY TableTypes
<1>3. ASSUME NEW k \in Keys, At1(k)
      PROVE  P(k) \in from .. Len(s) /\ s[P(k)].key = k
  BY <1>3
<1>4. r \in [Keys -> Nat]
  <2>1. ASSUME NEW k \in Keys
        PROVE  (IF At1(k) THEN P(k) ELSE index[k]) \in Nat
    <3>1. CASE At1(k)
      BY <1>2, <1>3, <3>1
    <3>2. CASE ~At1(k)
      BY <3>2
    <3> QED BY <3>1, <3>2
  <2> HIDE DEF At1, P, r
  <2> QED BY <1>1, <2>1
<1>5. ASSUME NEW i \in from .. Len(s)
      PROVE  r[s[i].key] = i
  <2>1. i \in DOMAIN s /\ s[i].key \in Keys
    BY <1>2, TableTypes
  <2>2. At1(s[i].key)
    OBVIOUS
  <2>3. P(s[i].key) \in from .. Len(s) /\ s[P(s[i].key)].key = s[i].key
    BY <1>3, <2>1, <2>2
  <2> HIDE DEF At1, P, r
  <2>4. P(s[i].key) \in DOMAIN s
    BY <1>2, <2>3
  <2>5. P(s[i].key) = i
    BY <2>1, <2>3, <2>4 DEF OneEach
  <2> QED BY <1>1, <2>1, <2>2, <2>5
<1>6. ASSUME NEW k \in Keys, \A i \in from .. Len(s) : s[i].key # k
      PROVE  r[k] = index[k]
  <2>1. ~At1(k)
    BY <1>6
  <2> HIDE DEF At1, P, r
  <2> QED BY <1>1, <2>1
<1> HIDE DEF r
<1>7. r = Reindex(s, index, from)
  BY DEF r
<1> QED BY <1>4, <1>5, <1>6, <1>7

\* An index written from some position on is exact if it was exact below.
LEMMA ReindexedExact ==
  ASSUME NEW s \in Seq(Entry), OneEach(s), NEW index \in [Keys -> Nat],
         NEW from \in Nat \ {0},
         \A i \in DOMAIN s : i < from => index[s[i].key] = i,
         \A k \in Keys : (\A i \in DOMAIN s : s[i].key # k) => index[k] = 0
  PROVE  /\ Reindex(s, index, from) \in [Keys -> Nat]
         /\ Exact(s, Reindex(s, index, from))
<1>1. PICK r : r = Reindex(s, index, from)
  OBVIOUS
<1>2. /\ r \in [Keys -> Nat]
      /\ \A i \in from .. Len(s) : r[s[i].key] = i
      /\ \A k \in Keys : (\A i \in from .. Len(s) : s[i].key # k) => r[k] = index[k]
  <2>1. /\ Reindex(s, index, from) \in [Keys -> Nat]
        /\ \A i \in from .. Len(s) : Reindex(s, index, from)[s[i].key] = i
        /\ \A k \in Keys : (\A i \in from .. Len(s) : s[i].key # k)
             => Reindex(s, index, from)[k] = index[k]
    BY ReindexValues
  <2> QED BY <1>1, <2>1
<1>3. /\ Len(s) \in Nat /\ DOMAIN s = 1 .. Len(s)
      /\ \A i \in 1 .. Len(s) : s[i].key \in Keys
  BY TableTypes
<1>4. ASSUME NEW i \in DOMAIN s
      PROVE  r[s[i].key] = i
  <2>1. CASE i < from
    <3>1. \A j \in from .. Len(s) : s[j].key # s[i].key
      <4>1. \A j \in from .. Len(s) : j \in DOMAIN s /\ j # i
        BY <1>3, <2>1
      <4> QED BY <4>1 DEF OneEach
    <3>2. s[i].key \in Keys
      BY <1>3
    <3> QED BY <1>2, <2>1, <3>1, <3>2
  <2>2. CASE ~(i < from)
    <3>1. i \in from .. Len(s)
      BY <1>3, <2>2
    <3> QED BY <1>2, <3>1
  <2> QED BY <2>1, <2>2
<1>5. ASSUME NEW k \in Keys, r[k] # 0
      PROVE  r[k] \in DOMAIN s /\ s[r[k]].key = k
  <2>1. CASE \E i \in DOMAIN s : s[i].key = k
    BY <1>4, <2>1
  <2>2. CASE \A i \in DOMAIN s : s[i].key # k
    <3>1. \A i \in from .. Len(s) : i \in DOMAIN s
      BY <1>3
    <3>2. r[k] = index[k] /\ index[k] = 0
      BY <1>2, <2>2, <3>1
    <3> QED BY <1>5, <3>2
  <2> QED BY <2>1, <2>2
<1>6. Exact(s, r)
  BY <1>4, <1>5 DEF Exact
<1> QED BY <1>1, <1>2, <1>6

\* The index rebuilt for a table is exact.
LEMMA IndexOfExact ==
  ASSUME NEW s \in Seq(Entry), OneEach(s)
  PROVE  IndexOf(s) \in [Keys -> Nat] /\ Exact(s, IndexOf(s))
<1>1. PICK none : none = [k \in Keys |-> 0]
  OBVIOUS
<1>2. none \in [Keys -> Nat] /\ \A k \in Keys : none[k] = 0
  BY <1>1
<1>3. \A i \in DOMAIN s : ~(i < 1)
  BY TableTypes
<1>4. /\ Reindex(s, none, 1) \in [Keys -> Nat]
      /\ Exact(s, Reindex(s, none, 1))
  BY <1>2, <1>3, ReindexedExact
<1> QED BY <1>1, <1>4 DEF IndexOf

-----------------------------------------------------------------------------
(* Putting a score in its place: Without, then With. *)

\* The cache is a table and an index that fit.
CacheOK ==
  /\ sorted \in Seq(Entry)
  /\ lookup \in [Keys -> Nat]
  /\ Exact(sorted, lookup)

\* Where the i-th entry was before k's went.
Came(k, i) == IF lookup[k] = 0 THEN i ELSE Shift(lookup[k], i)

\* The table without k's entry has the other entries, in their order.
LEMMA WithoutTable ==
  ASSUME CacheOK, NEW k \in Keys
  PROVE  /\ Without(k).sorted \in Seq(Entry)
         /\ Without(k).lookup \in [Keys -> Nat]
         /\ Exact(Without(k).sorted, Without(k).lookup)
         /\ Without(k).lookup[k] = 0
         /\ Len(Without(k).sorted) =
              IF lookup[k] = 0 THEN Len(sorted) ELSE Len(sorted) - 1
         /\ \A i \in DOMAIN Without(k).sorted :
              /\ Came(k, i) \in DOMAIN sorted \ {lookup[k]}
              /\ Without(k).sorted[i] = sorted[Came(k, i)]
         /\ \A i \in DOMAIN sorted \ {lookup[k]} :
              \E m \in DOMAIN Without(k).sorted : Without(k).sorted[m] = sorted[i]
<1>1. PICK t : t = Without(k)
  OBVIOUS
<1> SUFFICES /\ t.sorted \in Seq(Entry)
             /\ t.lookup \in [Keys -> Nat]
             /\ Exact(t.sorted, t.lookup)
             /\ t.lookup[k] = 0
             /\ Len(t.sorted) = IF lookup[k] = 0 THEN Len(sorted) ELSE Len(sorted) - 1
             /\ \A i \in DOMAIN t.sorted :
                  /\ Came(k, i) \in DOMAIN sorted \ {lookup[k]}
                  /\ t.sorted[i] = sorted[Came(k, i)]
             /\ \A i \in DOMAIN sorted \ {lookup[k]} :
                  \E m \in DOMAIN t.sorted : t.sorted[m] = sorted[i]
  BY <1>1
<1>2. /\ sorted \in Seq(Entry) /\ lookup \in [Keys -> Nat] /\ Exact(sorted, lookup)
      /\ Len(sorted) \in Nat /\ DOMAIN sorted = 1 .. Len(sorted)
      /\ OneEach(sorted)
  BY TableTypes, ExactHasOneEach DEF CacheOK
<1>3. CASE lookup[k] = 0
  <2>1. t.sorted = sorted /\ t.lookup = lookup
    BY <1>1, <1>3 DEF Without
  <2>2. \A i \in DOMAIN sorted : Came(k, i) = i /\ i # lookup[k]
    BY <1>2, <1>3 DEF Came
  <2> QED BY <1>2, <1>3, <2>1, <2>2
<1>4. CASE lookup[k] # 0
  <2>1. PICK at : at = lookup[k]
    OBVIOUS
  <2>2. at \in 1 .. Len(sorted) /\ sorted[at].key = k
    BY <1>2, <1>4, <2>1 DEF Exact
  <2>3. PICK s : s = RemoveAt(sorted, at)
    OBVIOUS
  <2>4. PICK index : index = [lookup EXCEPT ![k] = 0]
    OBVIOUS
  <2>5. /\ index \in [Keys -> Nat] /\ index[k] = 0
        /\ \A j \in Keys \ {k} : index[j] = lookup[j]
    BY <1>2, <2>4
  <2>6. t.sorted = s /\ t.lookup = Reindex(s, index, at)
    BY <1>1, <1>4, <2>1, <2>3, <2>4 DEF Without
  <2>7. /\ s \in Seq(Entry) /\ Len(s) = Len(sorted) - 1
        /\ \A i \in 1 .. Len(sorted) - 1 : s[i] = sorted[Shift(at, i)]
    BY <1>2, <2>2, <2>3, RemoveAtEntries
  <2>8. DOMAIN s = 1 .. Len(sorted) - 1
    BY <2>7, TableTypes
  <2>9. ASSUME NEW i \in DOMAIN s
        PROVE  /\ Shift(at, i) \in DOMAIN sorted \ {at}
               /\ s[i] = sorted[Shift(at, i)]
               /\ s[i].key \in Keys \ {k}
    <3>1. Shift(at, i) \in DOMAIN sorted \ {at}
      BY <1>2, <2>2, <2>8 DEF Shift
    <3>2. s[i] = sorted[Shift(at, i)]
      BY <2>7, <2>8
    <3>3. sorted[Shift(at, i)].key \in Keys /\ sorted[Shift(at, i)].key # k
      BY <1>2, <2>2, <3>1, TableTypes DEF OneEach
    <3> QED BY <3>1, <3>2, <3>3
  <2>10. ASSUME NEW i \in DOMAIN sorted \ {at}
         PROVE  \E m \in DOMAIN s : s[m] = sorted[i]
    <3>1. PICK m : m = IF i < at THEN i ELSE i - 1
      OBVIOUS
    <3>2. m \in DOMAIN s /\ Shift(at, m) = i
      BY <1>2, <2>2, <2>8, <3>1 DEF Shift
    <3> QED BY <2>9, <3>2
  <2>11. OneEach(s)
    <3>1. ASSUME NEW i \in DOMAIN s, NEW j \in DOMAIN s, s[i].key = s[j].key
          PROVE  i = j
      <4>1. Shift(at, i) = Shift(at, j)
        BY <1>2, <2>9, <3>1 DEF OneEach
      <4> QED BY <2>2, <2>8, <4>1 DEF Shift
    <3> QED BY <3>1 DEF OneEach
  <2>12. ASSUME NEW i \in DOMAIN s, i < at
         PROVE  index[s[i].key] = i
    <3>1. Shift(at, i) = i
      BY <2>12 DEF Shift
    <3>2. s[i].key \in Keys \ {k} /\ lookup[s[i].key] = i
      BY <1>2, <2>9, <3>1 DEF Exact
    <3> QED BY <2>5, <3>2
  <2>13. ASSUME NEW j \in Keys, \A i \in DOMAIN s : s[i].key # j
         PROVE  index[j] = 0
    <3>1. CASE j = k
      BY <2>5, <3>1
    <3>2. CASE j # k
      <4>1. ASSUME lookup[j] # 0
            PROVE  FALSE
        <5>1. lookup[j] \in DOMAIN sorted /\ sorted[lookup[j]].key = j
          BY <1>2, <4>1 DEF Exact
        <5>2. lookup[j] # at
          BY <2>2, <3>2, <5>1
        <5> QED BY <2>10, <2>13, <5>1, <5>2
      <4> QED BY <2>5, <3>2, <4>1
    <3> QED BY <3>1, <3>2
  <2>14. at \in Nat \ {0}
    BY <1>2, <2>2
  <2>15. /\ Reindex(s, index, at) \in [Keys -> Nat]
         /\ Exact(s, Reindex(s, index, at))
    BY <2>5, <2>7, <2>11, <2>12, <2>13, <2>14, ReindexedExact
  <2>16. t.lookup \in [Keys -> Nat] /\ Exact(s, t.lookup)
    BY <2>6, <2>15
  <2>17. t.lookup[k] = 0
    BY <2>9, <2>16 DEF Exact
  <2>18. \A i \in DOMAIN s : Came(k, i) = Shift(at, i)
    BY <1>4, <2>1 DEF Came
  <2> QED BY <1>4, <2>1, <2>6, <2>7, <2>9, <2>10, <2>16, <2>17, <2>18
<1> QED BY <1>3, <1>4

\* Without the last entry and its position, a table and its index still fit.
LEMMA FrontExact ==
  ASSUME NEW s \in Seq(Entry), Len(s) > 0, NEW r \in [Keys -> Nat], Exact(s, r)
  PROVE  /\ [r EXCEPT ![Last(s).key] = 0] \in [Keys -> Nat]
         /\ Exact(Front(s), [r EXCEPT ![Last(s).key] = 0])
<1>1. PICK n : n = Len(s)
  OBVIOUS
<1>2. PICK q : q = Front(s)
  OBVIOUS
<1>3. /\ q \in Seq(Entry) /\ Len(q) = n - 1 /\ \A i \in 1 .. n - 1 : q[i] = s[i]
      /\ Last(s) = s[n]
  BY <1>1, <1>2, FrontEntries
<1>4. n \in Nat \ {0} /\ DOMAIN s = 1 .. n /\ s[n].key \in Keys
  BY <1>1, TableTypes
<1>5. DOMAIN q = 1 .. n - 1
  BY <1>3, <1>4, TableTypes
<1>6. PICK index : index = [r EXCEPT ![s[n].key] = 0]
  OBVIOUS
<1>7. /\ index \in [Keys -> Nat] /\ index[s[n].key] = 0
      /\ \A k \in Keys \ {s[n].key} : index[k] = r[k]
  BY <1>4, <1>6
<1>8. OneEach(s)
  BY ExactHasOneEach
<1>9. ASSUME NEW i \in DOMAIN q
      PROVE  index[q[i].key] = i
  <2>1. i \in DOMAIN s /\ i # n /\ q[i] = s[i] /\ n \in DOMAIN s
    BY <1>3, <1>4, <1>5
  <2>2. s[i].key \in Keys \ {s[n].key} /\ r[s[i].key] = i
    BY <1>4, <1>8, <2>1, TableTypes DEF OneEach, Exact
  <2> QED BY <1>7, <2>1, <2>2
<1>10. ASSUME NEW k \in Keys, index[k] # 0
       PROVE  index[k] \in DOMAIN q /\ q[index[k]].key = k
  <2>1. k # s[n].key /\ index[k] = r[k]
    BY <1>7, <1>10
  <2>2. r[k] \in DOMAIN s /\ s[r[k]].key = k
    BY <1>10, <2>1 DEF Exact
  <2>3. r[k] \in 1 .. n - 1
    BY <1>4, <2>1, <2>2
  <2> QED BY <1>3, <1>5, <2>1, <2>2, <2>3
<1>11. Exact(q, index)
  BY <1>9, <1>10 DEF Exact
<1> QED BY <1>2, <1>3, <1>6, <1>7, <1>11

\* The table with e at position p has the other entries in their order, all
\* of them or, beyond the limit, all but the last.
LEMMA WithTable ==
  ASSUME CacheOK, NEW e \in Entry, NEW limit \in Nat,
         NEW p \in 1 .. Len(Without(e.key).sorted) + 1
  PROVE  LET t == Without(e.key)
             w == With(t, e, p, limit)
         IN  /\ w.sorted \in Seq(Entry)
             /\ w.lookup \in [Keys -> Nat]
             /\ Exact(w.sorted, w.lookup)
             /\ Len(w.sorted) = IF Len(t.sorted) + 1 > limit THEN Len(t.sorted)
                                ELSE Len(t.sorted) + 1
             /\ \A i \in DOMAIN w.sorted :
                  w.sorted[i] = IF i < p THEN t.sorted[i]
                                ELSE IF i = p THEN e ELSE t.sorted[i - 1]
<1>1. PICK t : t = Without(e.key)
  OBVIOUS
<1>2. PICK w : w = With(t, e, p, limit)
  OBVIOUS
<1> SUFFICES /\ w.sorted \in Seq(Entry)
             /\ w.lookup \in [Keys -> Nat]
             /\ Exact(w.sorted, w.lookup)
             /\ Len(w.sorted) = IF Len(t.sorted) + 1 > limit THEN Len(t.sorted)
                                ELSE Len(t.sorted) + 1
             /\ \A i \in DOMAIN w.sorted :
                  w.sorted[i] = IF i < p THEN t.sorted[i]
                                ELSE IF i = p THEN e ELSE t.sorted[i - 1]
  BY <1>1, <1>2
<1>3. e.key \in Keys
  BY DEF Entry
<1>4. PICK q : q = t.sorted
  OBVIOUS
<1>5. PICK old : old = t.lookup
  OBVIOUS
<1>6. /\ q \in Seq(Entry) /\ old \in [Keys -> Nat] /\ Exact(q, old)
      /\ old[e.key] = 0
  BY <1>1, <1>3, <1>4, <1>5, WithoutTable
<1>7. /\ Len(q) \in Nat /\ DOMAIN q = 1 .. Len(q) /\ p \in 1 .. Len(q) + 1
      /\ \A i \in DOMAIN q : q[i].key \in Keys \ {e.key}
  <2>1. Len(q) \in Nat /\ DOMAIN q = 1 .. Len(q) /\ \A i \in DOMAIN q : q[i].key \in Keys
    BY <1>6, TableTypes
  <2>2. p \in 1 .. Len(q) + 1
    BY <1>1, <1>4
  <2>3. \A i \in DOMAIN q : q[i].key # e.key
    <3>1. \A i \in DOMAIN q : i # 0
      BY <2>1
    <3> QED BY <1>6, <3>1 DEF Exact
  <2> QED BY <2>1, <2>2, <2>3
<1>8. PICK s : s = InsertAt(q, p, e)
  OBVIOUS
<1>9. /\ s \in Seq(Entry) /\ Len(s) = Len(q) + 1
      /\ \A i \in 1 .. Len(q) + 1 :
           s[i] = IF i < p THEN q[i] ELSE IF i = p THEN e ELSE q[i - 1]
  <2>1. q \in Seq(Entry) /\ p \in 1 .. Len(q) + 1
    BY <1>6, <1>7
  <2>2. /\ InsertAt(q, p, e) \in Seq(Entry)
        /\ Len(InsertAt(q, p, e)) = Len(q) + 1
        /\ \A i \in 1 .. Len(q) + 1 :
             InsertAt(q, p, e)[i] = IF i < p THEN q[i] ELSE IF i = p THEN e ELSE q[i - 1]
    BY ONLY <2>1, e \in Entry, InsertAtEntries
  <2> QED BY <1>8, <2>2
<1>10. DOMAIN s = 1 .. Len(q) + 1 /\ s[p] = e
  <2>1. DOMAIN s = 1 .. Len(q) + 1
    BY <1>9, TableTypes
  <2>2. p \in 1 .. Len(q) + 1 /\ ~(p < p)
    BY <1>7
  <2> QED BY <1>9, <2>1, <2>2
<1>11. ASSUME NEW i \in DOMAIN s, i # p
       PROVE  LET m == IF i < p THEN i ELSE i - 1 IN m \in DOMAIN q /\ s[i] = q[m]
  BY <1>7, <1>9, <1>10, <1>11
<1>12. OneEach(s)
  <2>1. ASSUME NEW i \in DOMAIN s, NEW j \in DOMAIN s, s[i].key = s[j].key
        PROVE  i = j
    <3>1. CASE i = p \/ j = p
      <4>1. \A m \in DOMAIN s : m # p => s[m].key # e.key
        BY <1>7, <1>11
      <4> QED BY <1>10, <2>1, <3>1, <4>1
    <3>2. CASE i # p /\ j # p
      <4>1. PICK m \in DOMAIN q : m = (IF i < p THEN i ELSE i - 1) /\ s[i] = q[m]
        BY <1>11, <3>2
      <4>2. PICK l \in DOMAIN q : l = (IF j < p THEN j ELSE j - 1) /\ s[j] = q[l]
        BY <1>11, <3>2
      <4>3. OneEach(q)
        BY <1>6, ExactHasOneEach
      <4>4. m = l
        BY <2>1, <4>1, <4>2, <4>3 DEF OneEach
      <4> QED BY <1>7, <1>10, <3>2, <4>1, <4>2, <4>4
    <3> QED BY <3>1, <3>2
  <2> QED BY <2>1 DEF OneEach
<1>13. PICK index : index = [old EXCEPT ![e.key] = p]
  OBVIOUS
<1>14. /\ index \in [Keys -> Nat] /\ index[e.key] = p
       /\ \A k \in Keys \ {e.key} : index[k] = old[k]
  BY <1>3, <1>6, <1>7, <1>13
<1>15. PICK from : from = IF lookup[e.key] # 0 /\ lookup[e.key] < p + 1
                          THEN lookup[e.key] ELSE p + 1
  OBVIOUS
<1>16. from \in Nat \ {0} /\ from <= p + 1
  <2>1. lookup[e.key] \in Nat
    BY <1>3 DEF CacheOK
  <2> QED BY <1>7, <1>15, <2>1
<1>17. PICK r : r = Reindex(s, index, from)
  OBVIOUS
<1>18. r \in [Keys -> Nat] /\ Exact(s, r)
  <2>1. ASSUME NEW i \in DOMAIN s, i < from
        PROVE  index[s[i].key] = i
    <3>1. CASE i = p
      BY <1>10, <1>14, <3>1
    <3>2. CASE i # p
      <4>1. i < p /\ i \in DOMAIN q /\ s[i] = q[i]
        BY <1>7, <1>9, <1>10, <1>16, <2>1, <3>2
      <4> QED BY <1>6, <1>7, <1>14, <4>1 DEF Exact
    <3> QED BY <3>1, <3>2
  <2>2. ASSUME NEW k \in Keys, \A i \in DOMAIN s : s[i].key # k
        PROVE  index[k] = 0
    <3>1. k # e.key
      BY <1>7, <1>10, <2>2
    <3>2. ASSUME NEW m \in DOMAIN q
          PROVE  q[m].key # k
      <4>1. PICK i : i = IF m < p THEN m ELSE m + 1
        OBVIOUS
      <4>2. i \in DOMAIN s /\ i # p /\ (IF i < p THEN i ELSE i - 1) = m
        BY <1>7, <1>10, <4>1
      <4> QED BY <1>11, <2>2, <4>2
    <3>3. old[k] = 0
      BY <1>6, <3>2 DEF Exact
    <3> QED BY <1>14, <3>1, <3>3
  <2>3. /\ Reindex(s, index, from) \in [Keys -> Nat]
        /\ Exact(s, Reindex(s, index, from))
    BY <1>9, <1>12, <1>14, <1>16, <2>1, <2>2, ReindexedExact
  <2> QED BY <1>17, <2>3
<1>19. w = IF Len(s) > limit
           THEN [sorted |-> Front(s), lookup |-> [r EXCEPT ![Last(s).key] = 0]]
           ELSE [sorted |-> s, lookup |-> r]
  BY <1>2, <1>4, <1>5, <1>8, <1>13, <1>15, <1>17 DEF With
<1>20. CASE Len(s) > limit
  <2>1. w.sorted = Front(s) /\ w.lookup = [r EXCEPT ![Last(s).key] = 0]
    BY <1>19, <1>20
  <2>2. /\ Front(s) \in Seq(Entry) /\ Len(Front(s)) = Len(q)
        /\ \A i \in 1 .. Len(q) : Front(s)[i] = s[i]
    <3>1. Len(s) > 0 /\ Len(s) - 1 = Len(q)
      BY <1>7, <1>9
    <3> QED BY <1>9, <3>1, FrontEntries
  <2>3. DOMAIN Front(s) = 1 .. Len(q)
    BY <2>2, TableTypes
  <2>4. /\ w.lookup \in [Keys -> Nat] /\ Exact(w.sorted, w.lookup)
    <3>1. Len(s) > 0
      BY <1>7, <1>9
    <3>2. /\ [r EXCEPT ![Last(s).key] = 0] \in [Keys -> Nat]
          /\ Exact(Front(s), [r EXCEPT ![Last(s).key] = 0])
      BY <1>9, <1>18, <3>1, FrontExact
    <3> QED BY <2>1, <3>2
  <2>5. \A i \in 1 .. Len(q) : i \in 1 .. Len(q) + 1
    BY <1>7
  <2>6. \A i \in DOMAIN w.sorted :
          w.sorted[i] = IF i < p THEN q[i] ELSE IF i = p THEN e ELSE q[i - 1]
    BY <1>9, <2>1, <2>2, <2>3, <2>5
  <2>7. Len(w.sorted) = IF Len(q) + 1 > limit THEN Len(q) ELSE Len(q) + 1
    BY <1>9, <1>20, <2>1, <2>2
  <2> QED BY <1>4, <2>1, <2>2, <2>4, <2>6, <2>7
<1>21. CASE ~(Len(s) > limit)
  <2>1. w.sorted = s /\ w.lookup = r
    BY <1>19, <1>21
  <2>2. Len(w.sorted) = IF Len(q) + 1 > limit THEN Len(q) ELSE Len(q) + 1
    BY <1>9, <1>21, <2>1
  <2> QED BY <1>4, <1>9, <1>10, <1>18, <2>1, <2>2
<1> QED BY <1>20, <1>21

\* Every entry of a table with e in its place is e, or was there and is
\* another key's.
LEMMA InsertedTable ==
  ASSUME CacheOK, NEW e \in Entry, NEW cfg \in Config, NEW table \in Inserted(e, cfg)
  PROVE  /\ table.sorted \in Seq(Entry)
         /\ table.lookup \in [Keys -> Nat]
         /\ Exact(table.sorted, table.lookup)
         /\ \A i \in DOMAIN table.sorted :
              \/ table.sorted[i] = e
              \/ \E m \in DOMAIN sorted :
                   sorted[m] = table.sorted[i] /\ sorted[m].key # e.key
<1>1. PICK t : t = Without(e.key)
  OBVIOUS
<1>2. e.key \in Keys /\ cfg.limit \in Nat
  BY DEF Entry, Config
<1>3. /\ t.sorted \in Seq(Entry)
      /\ t.lookup \in [Keys -> Nat]
      /\ Exact(t.sorted, t.lookup)
      /\ \A i \in DOMAIN t.sorted :
           \E m \in DOMAIN sorted : t.sorted[i] = sorted[m] /\ m # lookup[e.key]
  BY <1>1, <1>2, WithoutTable
<1>4. \A m \in DOMAIN sorted : m # lookup[e.key] => sorted[m].key # e.key
  BY <1>2 DEF CacheOK, Exact
<1>5. \A i \in DOMAIN t.sorted :
        \E m \in DOMAIN sorted : sorted[m] = t.sorted[i] /\ sorted[m].key # e.key
  BY <1>3, <1>4
<1>6. PICK p \in LowerBounds(t.sorted, e, cfg.ascending) :
        table = IF Fits(t, p, cfg.limit) THEN With(t, e, p, cfg.limit) ELSE t
  BY <1>1 DEF Inserted
<1>7. p \in 1 .. Len(t.sorted) + 1
  BY <1>6 DEF LowerBounds
<1>8. CASE ~Fits(t, p, cfg.limit)
  BY <1>3, <1>5, <1>6, <1>8
<1>9. CASE Fits(t, p, cfg.limit)
  <2>1. table = With(t, e, p, cfg.limit)
    BY <1>6, <1>9
  <2>2. /\ With(t, e, p, cfg.limit).sorted \in Seq(Entry)
        /\ With(t, e, p, cfg.limit).lookup \in [Keys -> Nat]
        /\ Exact(With(t, e, p, cfg.limit).sorted, With(t, e, p, cfg.limit).lookup)
        /\ Len(With(t, e, p, cfg.limit).sorted) =
             IF Len(t.sorted) + 1 > cfg.limit THEN Len(t.sorted) ELSE Len(t.sorted) + 1
        /\ \A i \in DOMAIN With(t, e, p, cfg.limit).sorted :
             With(t, e, p, cfg.limit).sorted[i] =
               IF i < p THEN t.sorted[i] ELSE IF i = p THEN e ELSE t.sorted[i - 1]
    BY <1>1, <1>2, <1>7, WithTable
  <2>3. /\ table.sorted \in Seq(Entry)
        /\ table.lookup \in [Keys -> Nat]
        /\ Exact(table.sorted, table.lookup)
        /\ Len(table.sorted) =
             IF Len(t.sorted) + 1 > cfg.limit THEN Len(t.sorted) ELSE Len(t.sorted) + 1
        /\ \A i \in DOMAIN table.sorted :
             table.sorted[i] =
               IF i < p THEN t.sorted[i] ELSE IF i = p THEN e ELSE t.sorted[i - 1]
    BY <2>1, <2>2
  <2>4. /\ Len(t.sorted) \in Nat /\ DOMAIN t.sorted = 1 .. Len(t.sorted)
        /\ DOMAIN table.sorted = 1 .. Len(table.sorted)
    BY <1>3, <2>3, TableTypes
  <2>5. ASSUME NEW i \in DOMAIN table.sorted, table.sorted[i] # e
        PROVE  \E j \in DOMAIN t.sorted : table.sorted[i] = t.sorted[j]
    <3>1. CASE i < p
      BY <1>7, <2>3, <2>4, <3>1
    <3>2. CASE ~(i < p)
      <4>1. i # p
        BY <2>3, <2>5, <3>2
      <4>2. table.sorted[i] = t.sorted[i - 1]
        BY <2>3, <3>2, <4>1
      <4>3. i - 1 \in DOMAIN t.sorted
        BY <1>7, <2>3, <2>4, <3>2, <4>1
      <4> QED BY <4>2, <4>3
    <3> QED BY <3>1, <3>2
  <2> QED BY <1>5, <2>3, <2>5
<1> QED BY <1>8, <1>9

-----------------------------------------------------------------------------
(* Removing entries, and reading a table. *)

\* The entries that stay are the others, all of them and in their order.
LEMMA OthersTable ==
  ASSUME NEW s \in Seq(Entry), OneEach(s), NEW keys, NEW t \in Others(s, keys)
  PROVE  /\ t \in Seq(Entry)
         /\ OneEach(t)
         /\ \E at \in [DOMAIN t -> DOMAIN s] :
              /\ \A i \in DOMAIN t : t[i] = s[at[i]] /\ s[at[i]].key \notin keys
              /\ \A i, j \in DOMAIN t : i < j => at[i] < at[j]
              /\ \A m \in DOMAIN s : s[m].key \notin keys => \E i \in DOMAIN t : at[i] = m
<1>1. PICK stay : stay = {i \in DOMAIN s : s[i].key \notin keys}
  OBVIOUS
<1>2. PICK n : n = Cardinality(stay)
  OBVIOUS
<1>3. PICK at \in [1 .. n -> stay] :
        /\ \A i, j \in 1 .. n : i < j => at[i] < at[j]
        /\ t = [i \in 1 .. n |-> s[at[i]]]
  BY <1>1, <1>2 DEF Others
<1>4. /\ Len(s) \in Nat /\ DOMAIN s = 1 .. Len(s)
      /\ \A i \in 1 .. Len(s) : s[i] \in Entry
  BY TableTypes
<1>5. IsFiniteSet(stay) /\ n \in Nat
  <2>1. IsFiniteSet(1 .. Len(s))
    BY <1>4, FS_Interval
  <2>2. stay \in SUBSET (1 .. Len(s))
    BY <1>1, <1>4
  <2>3. IsFiniteSet(stay)
    BY <2>1, <2>2, FS_Subset
  <2> QED BY <1>2, <2>3, FS_CardinalityType
<1>6. \A i \in 1 .. n : at[i] \in DOMAIN s /\ s[at[i]].key \notin keys
  BY <1>1, <1>3
<1>7. t \in Seq(Entry) /\ DOMAIN t = 1 .. n
  <2>1. \A i \in 1 .. n : s[at[i]] \in Entry
    BY <1>4, <1>6
  <2> QED BY <1>3, <1>5, <2>1
<1>8. \A i, j \in 1 .. n : at[i] = at[j] => i = j
  <2>1. \A i \in 1 .. n : at[i] \in Nat
    BY <1>4, <1>6
  <2> QED BY <1>3, <1>5, <2>1
<1>9. OneEach(t)
  BY <1>3, <1>6, <1>7, <1>8 DEF OneEach
<1>10. at \in [DOMAIN t -> DOMAIN s]
  BY <1>3, <1>6, <1>7
<1>11. \A i \in DOMAIN t : t[i] = s[at[i]] /\ s[at[i]].key \notin keys
  BY <1>3, <1>6, <1>7
<1>12. ASSUME NEW m \in DOMAIN s, s[m].key \notin keys
       PROVE  \E i \in DOMAIN t : at[i] = m
  <2>1. at \in Injection(1 .. n, stay)
    BY <1>3, <1>8 DEF Injection, IsInjective
  <2>2. Cardinality(1 .. n) = n
    <3>1. Cardinality(1 .. n) = IF 1 > n THEN 0 ELSE n - 1 + 1
      BY <1>5, FS_Interval
    <3> QED BY <1>5, <3>1
  <2>3. at \in Surjection(1 .. n, stay)
    BY <1>2, <1>5, <2>1, <2>2, FS_Injection
  <2>4. m \in stay
    BY <1>1, <1>12
  <2> QED BY <1>7, <2>3, <2>4 DEF Surjection
<1> QED BY <1>3, <1>7, <1>9, <1>10, <1>11, <1>12

\* Entries in order: none ranks before one above it.
InOrder(s, ascending) ==
  \A i, j \in DOMAIN s : i < j => ~RanksBefore(s[j], s[i], ascending)

\* The rows are typed.
RowsOK == rows \in [Keys -> Row \cup {NoRow}]

\* A stored row makes an entry.
LEMMA StoredEntry ==
  ASSUME RowsOK, NEW k \in StoredKeys
  PROVE  Stored(k) \in Entry /\ Stored(k).key = k /\ rows[k] \in Row
<1>1. k \in Keys /\ rows[k] \in Row
  BY DEF RowsOK, StoredKeys
<1> QED BY <1>1 DEF Stored, Entry, Row

\* What is read from the database is the top of the table by the settings asked for.
LEMMA ScoresTable ==
  ASSUME RowsOK, NEW cfg \in Config, NEW s \in ScoresForBoard(cfg)
  PROVE  /\ s \in Seq(Entry)
         /\ OneEach(s)
         /\ \A i \in DOMAIN s : s[i].key \in StoredKeys /\ s[i] = Stored(s[i].key)
         /\ Len(s) <= cfg.limit
         /\ InOrder(s, cfg.ascending)
         /\ \A k \in StoredKeys : (\A i \in DOMAIN s : s[i].key # k) =>
              /\ Len(s) = cfg.limit
              /\ \A i \in DOMAIN s : ~RanksBefore(Stored(k), s[i], cfg.ascending)
<1>1. PICK all : all = {Stored(k) : k \in StoredKeys}
  OBVIOUS
<1>2. PICK n : n = IF Cardinality(all) < cfg.limit THEN Cardinality(all) ELSE cfg.limit
  OBVIOUS
<1>3. /\ s \in [1 .. n -> all]
      /\ \A i, j \in 1 .. n :
           i < j => s[i] # s[j] /\ ~RanksBefore(s[j], s[i], cfg.ascending)
      /\ \A e \in all : e \in Range(s)
                          \/ \A i \in 1 .. n : ~RanksBefore(e, s[i], cfg.ascending)
  BY <1>1, <1>2 DEF ScoresForBoard
<1>4. IsFiniteSet(all) /\ Cardinality(all) \in Nat
  <2>1. IsFiniteSet(StoredKeys)
    <3>1. StoredKeys \in SUBSET Keys
      BY DEF StoredKeys
    <3> QED BY <3>1, ScoreConstants, FS_Subset
  <2>2. IsFiniteSet(all)
    <3>1. PICK f : f = [k \in StoredKeys |-> Stored(k)]
      OBVIOUS
    <3>2. f \in Surjection(StoredKeys, all)
      BY <1>1, <3>1 DEF Surjection
    <3> QED BY <2>1, <3>2, FS_Surjection
  <2> QED BY <2>2, FS_CardinalityType
<1>5. cfg.limit \in Nat /\ n \in Nat /\ n <= cfg.limit
  BY <1>2, <1>4 DEF Config
<1>6. \A e \in all : e \in Entry /\ e.key \in StoredKeys /\ e = Stored(e.key)
  BY <1>1, StoredEntry
<1>7. s \in Seq(Entry) /\ DOMAIN s = 1 .. n /\ Len(s) = n
  <2>1. s \in [1 .. n -> Entry]
    BY <1>3, <1>6
  <2> QED BY <1>5, <2>1
<1>8. \A i \in DOMAIN s : s[i] \in all
  BY <1>3, <1>7
<1>9. \A i, j \in 1 .. n : s[i] = s[j] => i = j
  BY <1>3, <1>5
<1>10. OneEach(s)
  <2>1. \A i, j \in DOMAIN s : s[i].key = s[j].key => s[i] = s[j]
    BY <1>6, <1>8
  <2> QED BY <1>7, <1>9, <2>1 DEF OneEach
<1>11. InOrder(s, cfg.ascending)
  BY <1>3, <1>7 DEF InOrder
<1>12. ASSUME NEW k \in StoredKeys, \A i \in DOMAIN s : s[i].key # k
       PROVE  /\ Len(s) = cfg.limit
              /\ \A i \in DOMAIN s : ~RanksBefore(Stored(k), s[i], cfg.ascending)
  <2>1. Stored(k) \in all /\ Stored(k).key = k
    BY <1>1, StoredEntry
  <2>2. \A i \in 1 .. n : s[i] # Stored(k)
    BY <1>7, <1>12, <2>1
  <2>3. Stored(k) \notin Range(s)
    BY <1>7, <2>2 DEF Range
  <2>4. ASSUME n # cfg.limit
        PROVE  FALSE
    <3>1. n = Cardinality(all)
      BY <1>2, <2>4
    <3>2. s \in Injection(1 .. n, all)
      BY <1>3, <1>9 DEF Injection, IsInjective
    <3>3. Cardinality(1 .. n) = n
      <4>1. Cardinality(1 .. n) = IF 1 > n THEN 0 ELSE n - 1 + 1
        BY <1>5, FS_Interval
      <4> QED BY <1>5, <4>1
    <3>4. s \in Surjection(1 .. n, all)
      BY <1>4, <3>1, <3>2, <3>3, FS_Injection
    <3> QED BY <2>1, <2>2, <3>4 DEF Surjection
  <2> QED BY <1>3, <1>7, <2>1, <2>3, <2>4
<1> QED BY <1>5, <1>6, <1>7, <1>8, <1>10, <1>11, <1>12

-----------------------------------------------------------------------------
(* Types, exact index and the work of each thread, as one invariant. *)

Step == {"idle", "create", "board", "record", "insert", "attach", "link",
         "delete", "purge", "unlink", "evict", "read", "load"}
Job == [step : Step, keys : SUBSET Keys, cfg : Config, entry : Entry \cup {NoRow},
        loaded : Seq(Entry), doomed : SUBSET (1 .. MaxFiles)]

\* What a thread has in hand fits its step.
JobOK(job) ==
  /\ job.step = "idle" => job = Idle
  /\ job.step # "idle" => job.keys # {}
  /\ job.step \in {"create", "board", "record", "delete"} =>
       \E k \in Keys : job.keys = {k}
  /\ job.step \in {"insert", "attach", "link"} =>
       job.entry \in Entry /\ job.keys = {job.entry.key}
  /\ job.step = "insert" => job.entry.data = 0
  /\ job.step \in {"attach", "link"} => job.entry.data # 0
  /\ job.step \in {"read", "load"} => job.keys = Keys
  /\ job.step = "load" => OneEach(job.loaded)

Basics ==
  /\ board \in Config \cup {NoBoard}
  /\ RowsOK
  /\ CacheOK
  /\ files \subseteq 1 .. MaxFiles
  /\ nextFile \in 1 .. MaxFiles + 1
  /\ now \in 0 .. MaxTime
  /\ jobs \in [Workers -> Job]
  /\ \A w \in Workers : JobOK(jobs[w])
  /\ disturbed \subseteq Keys
  /\ sunk \in BOOLEAN

\* An exact index has no position past the end of the table.
LEMMA ExactBound ==
  ASSUME NEW s \in Seq(Entry), NEW index \in [Keys -> Nat], Exact(s, index)
  PROVE  index \in [Keys -> 0 .. Len(s)]
<1>1. Len(s) \in Nat /\ DOMAIN s = 1 .. Len(s)
  BY TableTypes
<1>2. \A k \in Keys : index[k] \in 0 .. Len(s)
  BY <1>1 DEF Exact
<1> QED BY <1>2

\* The invariant's first part has the types and the index that the runs check.
LEMMA BasicsTyped ==
  ASSUME Basics
  PROVE  TypeOK /\ LookupExact
<1>1. lookup \in [Keys -> 0 .. Len(sorted)]
  BY ExactBound DEF Basics, CacheOK
<1>2. LookupExact
  BY DEF Basics, CacheOK, Exact, LookupExact
<1> QED BY <1>1, <1>2 DEF Basics, CacheOK, RowsOK, TypeOK, Job, Step

\* A thread without work has no keys and nothing to account for.
LEMMA IdleJob == Idle \in Job /\ JobOK(Idle) /\ Idle.step = "idle" /\ Idle.keys = {}
<1>1. Idle \in Job
  BY ScoreConstants DEF Idle, Job, Step
<1> QED BY <1>1 DEF Idle, JobOK

\* What a job is with another step.
LEMMA JobStep ==
  ASSUME NEW job \in Job, NEW step \in Step
  PROVE  /\ [job EXCEPT !.step = step] \in Job
         /\ [job EXCEPT !.step = step].step = step
         /\ [job EXCEPT !.step = step].keys = job.keys
         /\ [job EXCEPT !.step = step].cfg = job.cfg
         /\ [job EXCEPT !.step = step].entry = job.entry
         /\ [job EXCEPT !.step = step].loaded = job.loaded
         /\ [job EXCEPT !.step = step].doomed = job.doomed
BY DEF Job

\* One thread's work changes.
LEMMA JobsChange ==
  ASSUME Basics, NEW w \in Workers, NEW job \in Job, JobOK(job),
         jobs' = [jobs EXCEPT ![w] = job]
  PROVE  /\ jobs' \in [Workers -> Job]
         /\ \A v \in Workers : JobOK(jobs'[v])
         /\ jobs'[w] = job
         /\ \A v \in Workers \ {w} : jobs'[v] = jobs[v]
<1>1. /\ jobs' \in [Workers -> Job] /\ jobs'[w] = job
      /\ \A v \in Workers \ {w} : jobs'[v] = jobs[v]
  BY DEF Basics
<1>2. \A v \in Workers : JobOK(jobs'[v])
  BY <1>1 DEF Basics
<1> QED BY <1>1, <1>2

\* A thread begins a job.
LEMMA BeginJob ==
  ASSUME Basics, NEW w \in Workers, NEW job \in Job, JobOK(job), Begin(w, job)
  PROVE  /\ jobs' \in [Workers -> Job]
         /\ \A v \in Workers : JobOK(jobs'[v])
         /\ jobs[w] = Idle /\ jobs'[w] = job
         /\ \A v \in Workers \ {w} : jobs'[v] = jobs[v]
         /\ disturbed' \subseteq Keys /\ disturbed \subseteq disturbed'
         /\ \A v \in Workers \ {w} : job.keys \cap jobs[v].keys \subseteq disturbed'
<1>1. jobs[w] = Idle /\ jobs' = [jobs EXCEPT ![w] = job]
  BY DEF Begin
<1>2. /\ jobs' \in [Workers -> Job]
      /\ \A v \in Workers : JobOK(jobs'[v])
      /\ jobs'[w] = job
      /\ \A v \in Workers \ {w} : jobs'[v] = jobs[v]
  BY <1>1, JobsChange
<1>3. disturbed' = disturbed \cup
        (job.keys \cap UNION {jobs[v].keys : v \in Workers \ {w}})
  BY DEF Begin
<1>4. job.keys \subseteq Keys /\ disturbed \subseteq Keys
  BY DEF Job, Basics
<1> QED BY <1>1, <1>2, <1>3, <1>4

\* A thread goes on.
LEMMA ContinueJob ==
  ASSUME Basics, NEW w \in Workers, NEW job \in Job, JobOK(job), Continue(w, job)
  PROVE  /\ jobs' \in [Workers -> Job]
         /\ \A v \in Workers : JobOK(jobs'[v])
         /\ jobs'[w] = job
         /\ \A v \in Workers \ {w} : jobs'[v] = jobs[v]
         /\ disturbed' = disturbed
BY JobsChange DEF Continue

-----------------------------------------------------------------------------
(* What each action does: the invariant, and the change in short. *)

\* Only thread w's job changes: it begins one, or goes on with its keys or none.
Begins(w) ==
  /\ jobs[w] = Idle
  /\ \A v \in Workers \ {w} : jobs'[v] = jobs[v]
  /\ disturbed \subseteq disturbed'
  /\ \A v \in Workers \ {w} : jobs'[w].keys \cap jobs[v].keys \subseteq disturbed'

GoesOn(w) ==
  /\ \A v \in Workers \ {w} : jobs'[v] = jobs[v]
  /\ disturbed' = disturbed
  /\ jobs'[w].keys \subseteq jobs[w].keys

\* Thread w's job is at another step and else as it was.
Moves(w, step) ==
  /\ GoesOn(w)
  /\ jobs'[w].step = step
  /\ jobs'[w].keys = jobs[w].keys /\ jobs'[w].cfg = jobs[w].cfg
  /\ jobs'[w].entry = jobs[w].entry /\ jobs'[w].loaded = jobs[w].loaded
  /\ jobs'[w].doomed = jobs[w].doomed

Ends(w) == GoesOn(w) /\ jobs'[w] = Idle

\* The players' connections are threads.
LEMMA DeviceWorks == \A d \in Devices : d \in Workers
BY DEF Workers

\* A thread is done.
LEMMA EndsJob ==
  ASSUME Basics, NEW w \in Workers, Continue(w, Idle)
  PROVE  /\ Ends(w)
         /\ jobs' \in [Workers -> Job]
         /\ \A v \in Workers : JobOK(jobs'[v])
         /\ disturbed' \subseteq Keys
<1>1. /\ jobs' \in [Workers -> Job]
      /\ \A v \in Workers : JobOK(jobs'[v])
      /\ jobs'[w] = Idle
      /\ \A v \in Workers \ {w} : jobs'[v] = jobs[v]
      /\ disturbed' = disturbed
  BY IdleJob, ContinueJob
<1>2. jobs'[w].keys \subseteq jobs[w].keys
  BY <1>1, IdleJob
<1> QED BY <1>1, <1>2 DEF Ends, GoesOn, Basics

\* A thread goes on to another step with what it has in hand.
LEMMA MovesJob ==
  ASSUME Basics, NEW w \in Workers, NEW step \in Step, Continue(w, To(w, step)),
         JobOK(To(w, step))
  PROVE  /\ Moves(w, step)
         /\ jobs' \in [Workers -> Job]
         /\ \A v \in Workers : JobOK(jobs'[v])
         /\ disturbed' \subseteq Keys
<1>1. PICK job \in Job : job = jobs[w]
  BY DEF Basics
<1>2. To(w, step) = [job EXCEPT !.step = step]
  BY <1>1 DEF To
<1>3. /\ [job EXCEPT !.step = step] \in Job
      /\ [job EXCEPT !.step = step].step = step
      /\ [job EXCEPT !.step = step].keys = job.keys
      /\ [job EXCEPT !.step = step].cfg = job.cfg
      /\ [job EXCEPT !.step = step].entry = job.entry
      /\ [job EXCEPT !.step = step].loaded = job.loaded
      /\ [job EXCEPT !.step = step].doomed = job.doomed
  BY JobStep
<1>4. PICK next \in Job : next = To(w, step)
  BY <1>2, <1>3
<1>5. /\ jobs' \in [Workers -> Job]
      /\ \A v \in Workers : JobOK(jobs'[v])
      /\ jobs'[w] = next
      /\ \A v \in Workers \ {w} : jobs'[v] = jobs[v]
      /\ disturbed' = disturbed
  BY <1>4, ContinueJob
<1>6. /\ next.step = step /\ next.keys = job.keys /\ next.cfg = job.cfg
      /\ next.entry = job.entry /\ next.loaded = job.loaded /\ next.doomed = job.doomed
  BY <1>2, <1>3, <1>4
<1>7. disturbed' \subseteq Keys
  BY <1>5 DEF Basics
<1> QED BY <1>1, <1>5, <1>6, <1>7 DEF Moves, GoesOn

\* The fields of what thread w would have at another step.
LEMMA ToFields ==
  ASSUME Basics, NEW w \in Workers, NEW step \in Step
  PROVE  /\ To(w, step) \in Job
         /\ To(w, step).step = step
         /\ To(w, step).keys = jobs[w].keys
         /\ To(w, step).cfg = jobs[w].cfg
         /\ To(w, step).entry = jobs[w].entry
         /\ To(w, step).loaded = jobs[w].loaded
         /\ To(w, step).doomed = jobs[w].doomed
<1>1. PICK job \in Job : job = jobs[w]
  BY DEF Basics
<1>2. To(w, step) = [job EXCEPT !.step = step]
  BY <1>1 DEF To
<1> QED BY <1>1, <1>2, JobStep

\* CmdRecordScore: the settings there are, or the defaults for a board to be created.
LEMMA RecordBegins ==
  ASSUME Basics, NEW d \in Devices, NEW k \in Keys, CmdRecordScore(d, k)
  PROVE  /\ Basics'
         /\ Begins(d)
         /\ jobs'[d].step = IF board = NoBoard THEN "create" ELSE "record"
         /\ jobs'[d].keys = {k}
         /\ jobs'[d].cfg = IF board = NoBoard THEN DefaultConfig ELSE board
         /\ UNCHANGED <<board, rows, sorted, lookup, files, nextFile, now, sunk>>
<1>1. PICK job : job = [Idle EXCEPT !.step = IF board = NoBoard THEN "create" ELSE "record",
                          !.keys = {k},
                          !.cfg = IF board = NoBoard THEN DefaultConfig ELSE board]
  OBVIOUS
<1>2. Begin(d, job)
  BY <1>1 DEF CmdRecordScore
<1>3. /\ job.step = IF board = NoBoard THEN "create" ELSE "record"
      /\ job.keys = {k}
      /\ job.cfg = IF board = NoBoard THEN DefaultConfig ELSE board
  BY <1>1 DEF Idle
<1>4. job \in Job
  <2>1. PICK step \in Step : step = IF board = NoBoard THEN "create" ELSE "record"
    BY DEF Step
  <2>2. PICK cfg \in Config : cfg = IF board = NoBoard THEN DefaultConfig ELSE board
    BY ScoreConstants DEF Basics
  <2>3. job = [Idle EXCEPT !.step = step, !.keys = {k}, !.cfg = cfg]
    BY <1>1, <2>1, <2>2
  <2> QED BY <2>1, <2>2, <2>3, IdleJob DEF Job
<1>5. JobOK(job)
  BY <1>3 DEF JobOK
<1>6. /\ jobs' \in [Workers -> Job]
      /\ \A v \in Workers : JobOK(jobs'[v])
      /\ jobs[d] = Idle /\ jobs'[d] = job
      /\ \A v \in Workers \ {d} : jobs'[v] = jobs[v]
      /\ disturbed' \subseteq Keys /\ disturbed \subseteq disturbed'
      /\ \A v \in Workers \ {d} : job.keys \cap jobs[v].keys \subseteq disturbed'
  BY <1>2, <1>4, <1>5, BeginJob, DeviceWorks
<1>7. UNCHANGED <<board, rows, sorted, lookup, files, nextFile, now, sunk>>
  BY DEF CmdRecordScore, database, cache, disk
<1>8. Basics'
  BY <1>6, <1>7 DEF Basics, RowsOK, CacheOK
<1> QED BY <1>3, <1>6, <1>7, <1>8 DEF Begins

\* CreateBoard: the defaults are written, the rest stays.
LEMMA BoardCreated ==
  ASSUME Basics, NEW d \in Devices, CreateBoard(d)
  PROVE  /\ Basics'
         /\ jobs[d].step = "create" /\ Moves(d, "board")
         /\ board' = DefaultConfig
         /\ UNCHANGED <<rows, sorted, lookup, files, nextFile, now, sunk>>
<1>1. jobs[d].step = "create" /\ Continue(d, To(d, "board"))
  BY DEF CreateBoard, At
<1>2. JobOK(To(d, "board"))
  <2>1. To(d, "board").step = "board" /\ To(d, "board").keys = jobs[d].keys
    BY ToFields, DeviceWorks DEF Step
  <2>2. JobOK(jobs[d])
    BY DeviceWorks DEF Basics
  <2> QED BY <1>1, <2>1, <2>2 DEF JobOK
<1>3. /\ Moves(d, "board")
      /\ jobs' \in [Workers -> Job]
      /\ \A v \in Workers : JobOK(jobs'[v])
      /\ disturbed' \subseteq Keys
  BY <1>1, <1>2, MovesJob, DeviceWorks DEF Step
<1>4. /\ UNCHANGED <<rows, sorted, lookup, files, nextFile, now, sunk>>
      /\ board' = DefaultConfig
  BY DEF CreateBoard, cache, disk
<1>5. Basics'
  BY <1>3, <1>4, ScoreConstants DEF Basics, RowsOK, CacheOK
<1> QED BY <1>1, <1>3, <1>4, <1>5

\* GetCreatedBoard: the settings are read again.
LEMMA CreatedBoardRead ==
  ASSUME Basics, NEW d \in Devices, GetCreatedBoard(d), board # NoBoard
  PROVE  /\ Basics'
         /\ jobs[d].step = "board" /\ GoesOn(d)
         /\ jobs'[d].step = "record" /\ jobs'[d].cfg = board
         /\ jobs'[d].keys = jobs[d].keys
         /\ UNCHANGED <<board, rows, sorted, lookup, files, nextFile, now, sunk>>
<1>1. PICK job \in Job : job = To(d, "record")
  BY ToFields, DeviceWorks DEF Step
<1>2. job.step = "record" /\ job.keys = jobs[d].keys
  BY <1>1, ToFields, DeviceWorks DEF Step
<1>3. PICK next : next = [job EXCEPT !.cfg = board]
  OBVIOUS
<1>4. jobs[d].step = "board" /\ Continue(d, next)
  BY <1>1, <1>3 DEF GetCreatedBoard, At
<1>5. /\ next \in Job /\ next.step = "record" /\ next.keys = jobs[d].keys
      /\ next.cfg = board
  BY <1>2, <1>3 DEF Job, Basics
<1>6. JobOK(next)
  <2>1. JobOK(jobs[d])
    BY DeviceWorks DEF Basics
  <2> QED BY <1>4, <1>5, <2>1 DEF JobOK
<1>7. /\ jobs' \in [Workers -> Job]
      /\ \A v \in Workers : JobOK(jobs'[v])
      /\ jobs'[d] = next
      /\ \A v \in Workers \ {d} : jobs'[v] = jobs[v]
      /\ disturbed' = disturbed
  BY <1>4, <1>5, <1>6, ContinueJob, DeviceWorks
<1>8. UNCHANGED <<board, rows, sorted, lookup, files, nextFile, now, sunk>>
  BY DEF GetCreatedBoard, database, cache, disk
<1>9. Basics'
  BY <1>7, <1>8 DEF Basics, RowsOK, CacheOK
<1> QED BY <1>4, <1>5, <1>7, <1>8, <1>9 DEF GoesOn

\* The row that an entry is stored as.
RowOf(e) == [score |-> e.score, time |-> e.time, data |-> e.data]

\* A score is refused, or it is in its row and the thread goes on to the cache.
Refused(d) == Ends(d) /\ rows' = rows
Written(d, e) ==
  /\ e \in Entry /\ e.data = 0 /\ jobs[d].keys = {e.key}
  /\ GoesOn(d)
  /\ jobs'[d].step = "insert" /\ jobs'[d].keys = jobs[d].keys
  /\ jobs'[d].cfg = jobs[d].cfg /\ jobs'[d].entry = e
  /\ rows' = [rows EXCEPT ![e.key] = RowOf(e)]

\* An entry makes a row.
LEMMA EntryRow ==
  ASSUME NEW e \in Entry
  PROVE  RowOf(e) \in Row /\ RowOf(e) # NoRow /\ e.key \in Keys
<1>1. RowOf(e) \in Row /\ e.key \in Keys
  BY DEF Entry, Row, RowOf
<1>2. e.score \in Int /\ e.time \in Nat /\ e.data \in Nat
  <2>1. e.score \in Scores /\ e.time \in 0 .. MaxTime /\ e.data \in 0 .. MaxFiles
    BY DEF Entry
  <2>2. e.score \in Int
    BY <2>1, ScoreConstants
  <2>3. e.time \in Nat /\ e.data \in Nat
    BY <2>1
  <2> QED BY <2>2, <2>3
<1>3. RowOf(e) \in [score : Int, time : Nat, data : Nat]
  BY <1>2 DEF RowOf
<1> QED BY <1>1, <1>3, ScoreConstants

\* RecordScore: refused, or the key's row is written and an entry is in hand.
LEMMA ScoreRecorded ==
  ASSUME Basics, NEW d \in Devices, RecordScore(d)
  PROVE  /\ Basics'
         /\ jobs[d].step = "record"
         /\ Refused(d) \/ \E e \in Entry : Written(d, e)
         /\ UNCHANGED <<board, sorted, lookup, files, nextFile, sunk>>
<1>1. PICK k \in jobs[d].keys, score \in Scores, compareDate \in CompareDates,
           time \in {now, now + 1} \cap 0 .. MaxTime :
        LET entry == [key |-> k, score |-> score, time |-> time, data |-> 0]
        IN  /\ now' = time
            /\ IF Accepts(k, jobs[d].cfg, score, compareDate)
               THEN /\ rows' = [rows EXCEPT ![k] =
                                  [score |-> score, time |-> time, data |-> 0]]
                    /\ Continue(d, [To(d, "insert") EXCEPT !.entry = entry])
               ELSE /\ Continue(d, Idle)
                    /\ UNCHANGED rows
            /\ UNCHANGED <<board, cache, disk, sunk>>
  BY DEF RecordScore
<1>2. jobs[d].step = "record"
  BY DEF RecordScore, At
<1>3. /\ UNCHANGED <<board, sorted, lookup, files, nextFile, sunk>>
      /\ now' \in 0 .. MaxTime
  BY <1>1 DEF cache, disk
<1>4. CASE ~Accepts(k, jobs[d].cfg, score, compareDate)
  <2>1. Continue(d, Idle) /\ rows' = rows
    BY <1>1, <1>4
  <2>2. /\ Ends(d)
        /\ jobs' \in [Workers -> Job]
        /\ \A v \in Workers : JobOK(jobs'[v])
        /\ disturbed' \subseteq Keys
    BY <2>1, EndsJob, DeviceWorks
  <2>3. Basics'
    BY <1>3, <2>1, <2>2 DEF Basics, RowsOK, CacheOK
  <2> QED BY <1>2, <1>3, <2>1, <2>2, <2>3 DEF Refused
<1>5. CASE Accepts(k, jobs[d].cfg, score, compareDate)
  <2>1. PICK e : e = [key |-> k, score |-> score, time |-> time, data |-> 0]
    OBVIOUS
  <2>2. jobs[d].keys = {k} /\ k \in Keys
    <3>1. JobOK(jobs[d])
      BY DeviceWorks DEF Basics
    <3>2. \E j \in Keys : jobs[d].keys = {j}
      BY <1>2, <3>1 DEF JobOK
    <3> QED BY <3>2
  <2>3. e \in Entry /\ e.data = 0 /\ e.key = k
    BY <2>1, <2>2, ScoreConstants DEF Entry
  <2>4. RowOf(e) = [score |-> score, time |-> time, data |-> 0]
    BY <2>1 DEF RowOf
  <2>5. PICK job \in Job : job = To(d, "insert")
    BY ToFields, DeviceWorks DEF Step
  <2>6. job.step = "insert" /\ job.keys = jobs[d].keys /\ job.cfg = jobs[d].cfg
    BY <2>5, ToFields, DeviceWorks DEF Step
  <2>7. PICK next : next = [job EXCEPT !.entry = e]
    OBVIOUS
  <2>8. Continue(d, next) /\ rows' = [rows EXCEPT ![k] = RowOf(e)]
    BY <1>1, <1>5, <2>1, <2>4, <2>5, <2>7
  <2>9. /\ next \in Job /\ next.step = "insert" /\ next.keys = jobs[d].keys
        /\ next.cfg = jobs[d].cfg /\ next.entry = e
    BY <2>3, <2>6, <2>7 DEF Job
  <2>10. JobOK(next)
    BY <2>2, <2>3, <2>9 DEF JobOK
  <2>11. /\ jobs' \in [Workers -> Job]
         /\ \A v \in Workers : JobOK(jobs'[v])
         /\ jobs'[d] = next
         /\ \A v \in Workers \ {d} : jobs'[v] = jobs[v]
         /\ disturbed' = disturbed
    BY <2>8, <2>9, <2>10, ContinueJob, DeviceWorks
  <2>12. rows' \in [Keys -> Row \cup {NoRow}]
    BY <2>3, <2>8, EntryRow DEF Basics, RowsOK
  <2>13. Basics'
    BY <1>3, <2>11, <2>12 DEF Basics, RowsOK, CacheOK
  <2>14. Written(d, e)
    BY <2>2, <2>3, <2>8, <2>9, <2>11 DEF Written, GoesOn
  <2> QED BY <1>2, <1>3, <2>3, <2>13, <2>14
<1> QED BY <1>4, <1>5

\* InsertScore: one of the tables that Inserted has, and the thread is done.
LEMMA ScoreInserted ==
  ASSUME Basics, NEW d \in Devices, InsertScore(d)
  PROVE  /\ Basics'
         /\ jobs[d].step = "insert" /\ jobs[d].entry \in Entry
         /\ jobs[d].cfg \in Config /\ jobs[d].keys = {jobs[d].entry.key}
         /\ Ends(d)
         /\ \E table \in Inserted(jobs[d].entry, jobs[d].cfg) :
              sorted' = table.sorted /\ lookup' = table.lookup
         /\ sunk' = (sunk \/ /\ lookup[jobs[d].entry.key] # 0
                             /\ RanksBefore(sorted[lookup[jobs[d].entry.key]], jobs[d].entry,
                                            jobs[d].cfg.ascending)
                             /\ OffBoard({jobs[d].entry.key}))
         /\ UNCHANGED <<board, rows, files, nextFile>>
<1>1. PICK e : e = jobs[d].entry
  OBVIOUS
<1>2. PICK cfg : cfg = jobs[d].cfg
  OBVIOUS
<1>3. jobs[d].step = "insert" /\ Continue(d, Idle)
  BY DEF InsertScore, At
<1>4. e \in Entry /\ cfg \in Config /\ jobs[d].keys = {e.key}
  <2>1. JobOK(jobs[d]) /\ jobs[d] \in Job
    BY DeviceWorks DEF Basics
  <2> QED BY <1>1, <1>2, <1>3, <2>1 DEF JobOK, Job
<1>5. /\ Ends(d)
      /\ jobs' \in [Workers -> Job]
      /\ \A v \in Workers : JobOK(jobs'[v])
      /\ disturbed' \subseteq Keys
  BY <1>3, EndsJob, DeviceWorks
<1>6. PICK table \in Inserted(e, cfg) : sorted' = table.sorted /\ lookup' = table.lookup
  BY <1>1, <1>2 DEF InsertScore
<1>7. CacheOK'
  <2>1. CacheOK
    BY DEF Basics
  <2>2. /\ table.sorted \in Seq(Entry)
        /\ table.lookup \in [Keys -> Nat]
        /\ Exact(table.sorted, table.lookup)
    BY <1>4, <2>1, InsertedTable
  <2> QED BY <1>6, <2>2 DEF CacheOK
<1>8. sunk' = (sunk \/ /\ lookup[e.key] # 0
                       /\ RanksBefore(sorted[lookup[e.key]], e, cfg.ascending)
                       /\ OffBoard({e.key}))
  BY <1>1, <1>2 DEF InsertScore
<1>9. UNCHANGED <<board, rows, files, nextFile, now>>
  BY DEF InsertScore, database, disk
<1>10. Basics'
  <2>1. sunk' \in BOOLEAN
    BY <1>8 DEF Basics
  <2> HIDE DEF CacheOK
  <2> QED BY <1>5, <1>7, <1>9, <2>1 DEF Basics, RowsOK
<1> QED BY <1>1, <1>2, <1>3, <1>4, <1>5, <1>6, <1>8, <1>9, <1>10

\* An entry with other data is an entry.
LEMMA OtherData ==
  ASSUME NEW e \in Entry, NEW f \in 0 .. MaxFiles
  PROVE  /\ [e EXCEPT !.data = f] \in Entry
         /\ [e EXCEPT !.data = f].key = e.key
         /\ [e EXCEPT !.data = f].score = e.score
         /\ [e EXCEPT !.data = f].time = e.time
         /\ [e EXCEPT !.data = f].data = f
BY DEF Entry

\* CmdRecordScoreData: a file of its own, and an entry with its id in hand.
LEMMA DataBegins ==
  ASSUME Basics, NEW d \in Devices, NEW k \in Keys, CmdRecordScoreData(d, k)
  PROVE  /\ Basics'
         /\ Begins(d)
         /\ jobs'[d].step = "attach" /\ jobs'[d].keys = {k}
         /\ board # NoBoard
         /\ lookup[k] \in DOMAIN sorted
         /\ sorted[lookup[k]] \in Entry
         /\ sorted[lookup[k]].key = k /\ sorted[lookup[k]].data = 0
         /\ jobs'[d].entry = [sorted[lookup[k]] EXCEPT !.data = nextFile]
         /\ nextFile \in 1 .. MaxFiles
         /\ files' = files \cup {nextFile} /\ nextFile' = nextFile + 1
         /\ UNCHANGED <<board, rows, sorted, lookup, now, sunk>>
<1>1. /\ lookup[k] \in DOMAIN sorted /\ sorted[lookup[k]].key = k
      /\ sorted[lookup[k]].data = 0 /\ sorted[lookup[k]] \in Entry
  <2>1. lookup[k] # 0 /\ sorted[lookup[k]].data = 0
    BY DEF CmdRecordScoreData, ContainsScoreWithNoData
  <2>2. lookup[k] \in DOMAIN sorted /\ sorted[lookup[k]].key = k
    BY <2>1 DEF Basics, CacheOK, Exact
  <2> QED BY <2>1, <2>2, TableTypes DEF Basics, CacheOK
<1>2. nextFile \in 1 .. MaxFiles
  BY ScoreConstants DEF CmdRecordScoreData, Basics
<1>3. PICK e : e = [sorted[lookup[k]] EXCEPT !.data = nextFile]
  OBVIOUS
<1>4. e \in Entry /\ e.key = k /\ e.data = nextFile
  <2>1. nextFile \in 0 .. MaxFiles
    BY <1>2, ScoreConstants
  <2>2. PICK shown \in Entry : shown = sorted[lookup[k]]
    BY <1>1
  <2> QED BY <1>1, <1>3, <2>1, <2>2, OtherData
<1>5. PICK job : job = [Idle EXCEPT !.step = "attach", !.keys = {k}, !.entry = e]
  OBVIOUS
<1>6. job.step = "attach" /\ job.keys = {k} /\ job.entry = e
  BY <1>5 DEF Idle
<1>7. job \in Job
  BY <1>4, <1>5, IdleJob DEF Job, Step
<1>8. JobOK(job)
  BY <1>2, <1>4, <1>6 DEF JobOK
<1>9. Begin(d, job)
  BY <1>3, <1>5 DEF CmdRecordScoreData
<1>10. /\ jobs' \in [Workers -> Job]
       /\ \A v \in Workers : JobOK(jobs'[v])
       /\ jobs[d] = Idle /\ jobs'[d] = job
       /\ \A v \in Workers \ {d} : jobs'[v] = jobs[v]
       /\ disturbed' \subseteq Keys /\ disturbed \subseteq disturbed'
       /\ \A v \in Workers \ {d} : job.keys \cap jobs[v].keys \subseteq disturbed'
  BY <1>7, <1>8, <1>9, BeginJob, DeviceWorks
<1>11. /\ UNCHANGED <<board, rows, sorted, lookup, now, sunk>>
       /\ files' = files \cup {nextFile} /\ nextFile' = nextFile + 1
       /\ board # NoBoard
  BY DEF CmdRecordScoreData, database, cache
<1>12. files' \subseteq 1 .. MaxFiles /\ nextFile' \in 1 .. MaxFiles + 1
  BY <1>2, <1>11, ScoreConstants DEF Basics
<1>13. Basics'
  BY <1>10, <1>11, <1>12 DEF Basics, RowsOK, CacheOK
<1> QED BY <1>1, <1>2, <1>3, <1>6, <1>10, <1>11, <1>13 DEF Begins

\* The data goes to the entry there is, or, if there is none, the file is removed.
Attached(d) ==
  LET e == jobs[d].entry IN
  /\ lookup[e.key] \in DOMAIN sorted
  /\ sorted' = [sorted EXCEPT ![lookup[e.key]].data = e.data]
  /\ Moves(d, "link")
  /\ files' = files
Unattached(d) ==
  /\ lookup[jobs[d].entry.key] = 0
  /\ files' = files \ {jobs[d].entry.data}
  /\ Ends(d)
  /\ sorted' = sorted

\* A table in which an entry has other data.
LEMMA DataTable ==
  ASSUME NEW s \in Seq(Entry), NEW i \in DOMAIN s, NEW f \in 0 .. MaxFiles
  PROVE  LET t == [s EXCEPT ![i].data = f] IN
         /\ t \in Seq(Entry) /\ DOMAIN t = DOMAIN s /\ Len(t) = Len(s)
         /\ t[i] = [s[i] EXCEPT !.data = f]
         /\ \A j \in DOMAIN s \ {i} : t[j] = s[j]
         /\ \A j \in DOMAIN s :
              /\ t[j].key = s[j].key /\ t[j].score = s[j].score /\ t[j].time = s[j].time
<1>1. /\ Len(s) \in Nat /\ DOMAIN s = 1 .. Len(s)
      /\ \A j \in 1 .. Len(s) : s[j] \in Entry
  BY TableTypes
<1>2. PICK e \in Entry : e = [s[i] EXCEPT !.data = f]
  BY <1>1, OtherData
<1>3. e.key = s[i].key /\ e.score = s[i].score /\ e.time = s[i].time
  BY <1>1, <1>2, OtherData
<1>4. PICK t : t = [s EXCEPT ![i] = e]
  OBVIOUS
<1>5. /\ t \in Seq(Entry) /\ Len(t) = Len(s) /\ DOMAIN t = DOMAIN s
      /\ t[i] = e /\ \A j \in DOMAIN s \ {i} : t[j] = s[j]
  BY <1>1, <1>4
<1>6. \A j \in DOMAIN s :
        t[j].key = s[j].key /\ t[j].score = s[j].score /\ t[j].time = s[j].time
  BY <1>3, <1>5
<1>7. t = [s EXCEPT ![i].data = f]
  BY <1>2, <1>4
<1> QED BY <1>2, <1>5, <1>6, <1>7

\* SetGameData: the entry there is gets the data, or the file goes.
LEMMA DataSet ==
  ASSUME Basics, NEW d \in Devices, SetGameData(d)
  PROVE  /\ Basics'
         /\ jobs[d].step = "attach" /\ jobs[d].entry \in Entry
         /\ jobs[d].keys = {jobs[d].entry.key} /\ jobs[d].entry.data # 0
         /\ Attached(d) \/ Unattached(d)
         /\ UNCHANGED <<board, rows, lookup, nextFile, now, sunk>>
<1>1. PICK e : e = jobs[d].entry
  OBVIOUS
<1>2. PICK i : i = lookup[e.key]
  OBVIOUS
<1>3. /\ jobs[d].step = "attach"
      /\ IF i # 0
         THEN /\ sorted' = [sorted EXCEPT ![i].data = e.data]
              /\ Continue(d, To(d, "link"))
              /\ UNCHANGED files
         ELSE /\ files' = files \ {e.data}
              /\ Continue(d, Idle)
              /\ UNCHANGED sorted
      /\ UNCHANGED <<board, rows, lookup, nextFile, now, sunk>>
  BY <1>1, <1>2 DEF SetGameData, At, database
<1>4. e \in Entry /\ jobs[d].keys = {e.key} /\ e.data # 0
  <2>1. JobOK(jobs[d])
    BY DeviceWorks DEF Basics
  <2> QED BY <1>1, <1>3, <2>1 DEF JobOK
<1>5. e.key \in Keys /\ e.data \in 0 .. MaxFiles
  BY <1>4 DEF Entry
<1>6. CASE i # 0
  <2>1. i \in DOMAIN sorted
    BY <1>2, <1>5, <1>6 DEF Basics, CacheOK, Exact
  <2>2. sorted \in Seq(Entry)
    BY DEF Basics, CacheOK
  <2>3. PICK t : t = [sorted EXCEPT ![i].data = e.data]
    OBVIOUS
  <2>4. /\ t \in Seq(Entry) /\ DOMAIN t = DOMAIN sorted
        /\ \A j \in DOMAIN sorted : t[j].key = sorted[j].key
    BY <1>5, <2>1, <2>2, <2>3, DataTable
  <2>5. sorted' = t /\ lookup' = lookup
    BY <1>3, <1>6, <2>3
  <2>6. CacheOK'
    BY <2>4, <2>5 DEF Basics, CacheOK, Exact
  <2>7. JobOK(To(d, "link"))
    <3>1. /\ To(d, "link").step = "link" /\ To(d, "link").keys = jobs[d].keys
          /\ To(d, "link").entry = e
      BY <1>1, ToFields, DeviceWorks DEF Step
    <3> QED BY <1>4, <3>1 DEF JobOK
  <2>8. /\ Moves(d, "link")
        /\ jobs' \in [Workers -> Job]
        /\ \A v \in Workers : JobOK(jobs'[v])
        /\ disturbed' \subseteq Keys
    BY <1>3, <1>6, <2>7, MovesJob, DeviceWorks DEF Step
  <2>9. Basics'
    BY <1>3, <1>6, <2>6, <2>8 DEF Basics, RowsOK
  <2>10. Attached(d)
    BY <1>1, <1>2, <1>3, <1>6, <2>1, <2>8 DEF Attached
  <2> QED BY <1>1, <1>3, <1>4, <2>9, <2>10
<1>7. CASE i = 0
  <2>1. /\ Ends(d)
        /\ jobs' \in [Workers -> Job]
        /\ \A v \in Workers : JobOK(jobs'[v])
        /\ disturbed' \subseteq Keys
    BY <1>3, <1>7, EndsJob, DeviceWorks
  <2>2. Basics'
    BY <1>3, <1>7, <2>1 DEF Basics, RowsOK, CacheOK
  <2>3. Unattached(d)
    BY <1>1, <1>2, <1>3, <1>7, <2>1 DEF Unattached
  <2> QED BY <1>1, <1>3, <1>4, <2>2, <2>3
<1> QED BY <1>6, <1>7

\* SetScoreDataId: the row gets the data if it still has the score.
LEMMA DataLinked ==
  ASSUME Basics, NEW d \in Devices, SetScoreDataId(d)
  PROVE  /\ Basics'
         /\ jobs[d].step = "link" /\ jobs[d].entry \in Entry
         /\ jobs[d].keys = {jobs[d].entry.key} /\ jobs[d].entry.data # 0
         /\ Ends(d)
         /\ LET e == jobs[d].entry IN
            rows' = IF rows[e.key] # NoRow /\ rows[e.key].score = e.score
                    THEN [rows EXCEPT ![e.key].data = e.data] ELSE rows
         /\ UNCHANGED <<board, sorted, lookup, files, nextFile, now, sunk>>
<1>1. PICK e : e = jobs[d].entry
  OBVIOUS
<1>2. /\ jobs[d].step = "link" /\ Continue(d, Idle)
      /\ rows' = IF rows[e.key] # NoRow /\ rows[e.key].score = e.score
                 THEN [rows EXCEPT ![e.key].data = e.data] ELSE rows
      /\ UNCHANGED <<board, sorted, lookup, files, nextFile, now, sunk>>
  BY <1>1 DEF SetScoreDataId, At, cache, disk
<1>3. e \in Entry /\ jobs[d].keys = {e.key} /\ e.data # 0
  <2>1. JobOK(jobs[d])
    BY DeviceWorks DEF Basics
  <2> QED BY <1>1, <1>2, <2>1 DEF JobOK
<1>4. /\ Ends(d)
      /\ jobs' \in [Workers -> Job]
      /\ \A v \in Workers : JobOK(jobs'[v])
      /\ disturbed' \subseteq Keys
  BY <1>2, EndsJob, DeviceWorks
<1>5. rows' \in [Keys -> Row \cup {NoRow}]
  <2>1. e.key \in Keys /\ e.data \in 0 .. MaxFiles
    BY <1>3 DEF Entry
  <2>2. rows[e.key] # NoRow => [rows[e.key] EXCEPT !.data = e.data] \in Row
    <3>1. ASSUME rows[e.key] # NoRow
          PROVE  [rows[e.key] EXCEPT !.data = e.data] \in Row
      <4>1. PICK r \in Row : r = rows[e.key]
        BY <2>1, <3>1 DEF Basics, RowsOK
      <4> QED BY <2>1, <4>1 DEF Row
    <3> QED BY <3>1
  <2> QED BY <1>2, <2>1, <2>2 DEF Basics, RowsOK
<1>6. Basics'
  BY <1>2, <1>4, <1>5 DEF Basics, RowsOK, CacheOK
<1> QED BY <1>1, <1>2, <1>3, <1>4, <1>6

\* A removal is in hand: the thread has the rows' keys and the ids of their files.
Removal(w, step, keys) ==
  /\ Begins(w)
  /\ jobs'[w].step = step /\ jobs'[w].keys = keys
  /\ jobs'[w].doomed = DataIds(keys)

\* The ids of the rows' files are read before the rows go.
LEMMA RemovalBegins ==
  ASSUME Basics, NEW w \in Workers, NEW step \in {"delete", "purge"},
         NEW keys \in SUBSET Keys, keys # {},
         step = "delete" => \E k \in Keys : keys = {k},
         Begin(w, [Idle EXCEPT !.step = step, !.keys = keys, !.doomed = DataIds(keys)]),
         UNCHANGED <<board, rows, sorted, lookup, files, nextFile, now, sunk>>
  PROVE  Basics' /\ Removal(w, step, keys)
<1>1. PICK doomed \in SUBSET (1 .. MaxFiles) : doomed = DataIds(keys)
  <2>1. ASSUME NEW k \in StoredKeys, rows[k].data # 0
        PROVE  rows[k].data \in 1 .. MaxFiles
    <3>1. rows[k] \in Row
      BY StoredEntry DEF Basics
    <3> QED BY <2>1, <3>1, ScoreConstants DEF Row
  <2> QED BY <2>1 DEF DataIds
<1>2. PICK job : job = [Idle EXCEPT !.step = step, !.keys = keys, !.doomed = doomed]
  OBVIOUS
<1>3. job.step = step /\ job.keys = keys /\ job.doomed = doomed
  BY <1>2 DEF Idle
<1>4. job \in Job
  BY <1>2, IdleJob DEF Job, Step
<1>5. JobOK(job)
  BY <1>3 DEF JobOK
<1>6. Begin(w, job)
  BY <1>1, <1>2
<1>7. /\ jobs' \in [Workers -> Job]
      /\ \A v \in Workers : JobOK(jobs'[v])
      /\ jobs[w] = Idle /\ jobs'[w] = job
      /\ \A v \in Workers \ {w} : jobs'[v] = jobs[v]
      /\ disturbed' \subseteq Keys /\ disturbed \subseteq disturbed'
      /\ \A v \in Workers \ {w} : job.keys \cap jobs[v].keys \subseteq disturbed'
  BY <1>4, <1>5, <1>6, BeginJob
<1>8. Basics'
  BY <1>7 DEF Basics, RowsOK, CacheOK
<1> QED BY <1>1, <1>3, <1>7, <1>8 DEF Removal, Begins

\* DeleteScore: one row that is there.
LEMMA DeletionBegins ==
  ASSUME Basics, NEW k \in Keys, DeleteScore(k)
  PROVE  /\ Basics'
         /\ rows[k] # NoRow
         /\ Removal("admin", "delete", {k})
         /\ UNCHANGED <<board, rows, sorted, lookup, files, nextFile, now, sunk>>
<1>1. /\ UNCHANGED <<board, rows, sorted, lookup, files, nextFile, now, sunk>>
      /\ rows[k] # NoRow
      /\ Begin("admin", [Idle EXCEPT !.step = "delete", !.keys = {k}, !.doomed = DataIds({k})])
  BY DEF DeleteScore, database, cache, disk
<1>2. "admin" \in Workers
  BY DEF Workers
<1>3. PICK keys \in SUBSET Keys : keys = {k}
  OBVIOUS
<1>4. keys # {} /\ \E j \in Keys : keys = {j}
  BY <1>3
<1>5. PICK step \in {"delete", "purge"} : step = "delete"
  OBVIOUS
<1>6. Begin("admin", [Idle EXCEPT !.step = step, !.keys = keys, !.doomed = DataIds(keys)])
  BY <1>1, <1>3, <1>5
<1>7. Basics' /\ Removal("admin", step, keys)
  BY <1>1, <1>2, <1>4, <1>6, RemovalBegins
<1> QED BY <1>1, <1>3, <1>5, <1>7

\* DeleteAccount: all rows of an account.
LEMMA PurgeBegins ==
  ASSUME Basics, NEW w \in Workers, NEW k \in Keys, DeleteAccount(w, k[1])
  PROVE  /\ Basics'
         /\ Removal(w, "purge", KeysOf(k[1]))
         /\ UNCHANGED <<board, rows, sorted, lookup, files, nextFile, now, sunk>>
<1>1. PICK keys : keys = KeysOf(k[1])
  OBVIOUS
<1>2. keys \in SUBSET Keys /\ keys # {}
  BY <1>1 DEF KeysOf
<1>3. /\ UNCHANGED <<board, rows, sorted, lookup, files, nextFile, now, sunk>>
      /\ Begin(w, [Idle EXCEPT !.step = "purge", !.keys = keys, !.doomed = DataIds(keys)])
  BY <1>1 DEF DeleteAccount, database, cache, disk
<1> QED BY <1>1, <1>2, <1>3, RemovalBegins

\* DeleteRows: the rows are gone; with nothing to delete a request may end here.
LEMMA RowsDeleted ==
  ASSUME Basics, NEW w \in Workers, DeleteRows(w)
  PROVE  /\ Basics'
         /\ jobs[w].step \in {"delete", "purge"}
         /\ Ends(w) \/ Moves(w, "unlink")
         /\ Ends(w) => jobs[w].keys \cap StoredKeys = {}
         /\ rows' = [k \in Keys |-> IF k \in jobs[w].keys THEN NoRow ELSE rows[k]]
         /\ UNCHANGED <<board, sorted, lookup, files, nextFile, now, sunk>>
<1>1. /\ jobs[w].step \in {"delete", "purge"}
      /\ Continue(w, IF At(w, "delete") /\ jobs[w].keys \cap StoredKeys = {}
                     THEN Idle ELSE To(w, "unlink"))
      /\ rows' = [k \in Keys |-> IF k \in jobs[w].keys THEN NoRow ELSE rows[k]]
      /\ UNCHANGED <<board, sorted, lookup, files, nextFile, now, sunk>>
  BY DEF DeleteRows, At, cache, disk
<1>2. rows' \in [Keys -> Row \cup {NoRow}]
  BY <1>1 DEF Basics, RowsOK
<1>3. CASE Continue(w, Idle) /\ jobs[w].keys \cap StoredKeys = {}
  <2>1. /\ Ends(w)
        /\ jobs' \in [Workers -> Job]
        /\ \A v \in Workers : JobOK(jobs'[v])
        /\ disturbed' \subseteq Keys
    BY <1>3, EndsJob
  <2>2. Basics'
    BY <1>1, <1>2, <2>1 DEF Basics, RowsOK, CacheOK
  <2> QED BY <1>1, <1>3, <2>1, <2>2
<1>4. CASE Continue(w, To(w, "unlink"))
  <2>1. JobOK(To(w, "unlink"))
    <3>1. To(w, "unlink").step = "unlink" /\ To(w, "unlink").keys = jobs[w].keys
      BY ToFields DEF Step
    <3>2. JobOK(jobs[w])
      BY DEF Basics
    <3> QED BY <1>1, <3>1, <3>2 DEF JobOK
  <2>2. /\ Moves(w, "unlink")
        /\ jobs' \in [Workers -> Job]
        /\ \A v \in Workers : JobOK(jobs'[v])
        /\ disturbed' \subseteq Keys
    BY <1>4, <2>1, MovesJob DEF Step
  <2>3. Basics'
    BY <1>1, <1>2, <2>2 DEF Basics, RowsOK, CacheOK
  <2>4. ~Ends(w)
    BY <2>2, IdleJob DEF Ends, Moves
  <2> QED BY <1>1, <2>2, <2>3, <2>4
<1> QED BY <1>1, <1>3, <1>4

\* RemoveFiles: the files that the rows named are gone.
LEMMA FilesRemoved ==
  ASSUME Basics, NEW w \in Workers, RemoveFiles(w)
  PROVE  /\ Basics'
         /\ jobs[w].step = "unlink" /\ Moves(w, "evict")
         /\ files' = files \ jobs[w].doomed
         /\ UNCHANGED <<board, rows, sorted, lookup, nextFile, now, sunk>>
<1>1. /\ jobs[w].step = "unlink" /\ Continue(w, To(w, "evict"))
      /\ files' = files \ jobs[w].doomed
      /\ UNCHANGED <<board, rows, sorted, lookup, nextFile, now, sunk>>
  BY DEF RemoveFiles, At, database, cache
<1>2. JobOK(To(w, "evict"))
  <2>1. To(w, "evict").step = "evict" /\ To(w, "evict").keys = jobs[w].keys
    BY ToFields DEF Step
  <2>2. JobOK(jobs[w])
    BY DEF Basics
  <2> QED BY <1>1, <2>1, <2>2 DEF JobOK
<1>3. /\ Moves(w, "evict")
      /\ jobs' \in [Workers -> Job]
      /\ \A v \in Workers : JobOK(jobs'[v])
      /\ disturbed' \subseteq Keys
  BY <1>1, <1>2, MovesJob DEF Step
<1>4. Basics'
  BY <1>1, <1>3 DEF Basics, RowsOK, CacheOK
<1> QED BY <1>1, <1>3, <1>4

\* RemoveEntries: the others stay, and the index is rebuilt.
LEMMA EntriesRemoved ==
  ASSUME Basics, NEW w \in Workers, RemoveEntries(w)
  PROVE  /\ Basics'
         /\ jobs[w].step = "evict" /\ Ends(w)
         /\ sorted' \in Others(sorted, jobs[w].keys)
         /\ sunk' = (sunk \/ (sorted' # sorted /\ OffBoard(jobs[w].keys)))
         /\ UNCHANGED <<board, rows, files, nextFile, now>>
<1>1. /\ jobs[w].step = "evict" /\ Continue(w, Idle)
      /\ sorted' \in Others(sorted, jobs[w].keys)
      /\ lookup' = IndexOf(sorted')
      /\ sunk' = (sunk \/ (sorted' # sorted /\ OffBoard(jobs[w].keys)))
      /\ UNCHANGED <<board, rows, files, nextFile, now>>
  BY DEF RemoveEntries, At, database, disk
<1>2. /\ Ends(w)
      /\ jobs' \in [Workers -> Job]
      /\ \A v \in Workers : JobOK(jobs'[v])
      /\ disturbed' \subseteq Keys
  BY <1>1, EndsJob
<1>3. PICK t : t = sorted'
  OBVIOUS
<1>4. sorted \in Seq(Entry) /\ OneEach(sorted)
  BY ExactHasOneEach DEF Basics, CacheOK
<1>5. t \in Seq(Entry) /\ OneEach(t)
  BY <1>1, <1>3, <1>4, OthersTable
<1>6. IndexOf(t) \in [Keys -> Nat] /\ Exact(t, IndexOf(t))
  BY <1>5, IndexOfExact
<1>7. lookup' = IndexOf(t)
  BY <1>1, <1>3
<1>8. CacheOK'
  BY <1>3, <1>5, <1>6, <1>7 DEF CacheOK
<1>9. sunk' \in BOOLEAN
  BY <1>1 DEF Basics
<1>10. Basics'
  <2> HIDE DEF CacheOK
  <2> QED BY <1>1, <1>2, <1>8, <1>9 DEF Basics, RowsOK
<1> QED BY <1>1, <1>2, <1>10

\* The scoreboards service is a thread.
LEMMA ServiceWorks == "service" \in Workers
BY DEF Workers

\* SetBoard: the settings are written, and every key is in hand.
LEMMA SettingsBegin ==
  ASSUME Basics, NEW cfg \in Configs, SetBoard(cfg)
  PROVE  /\ Basics'
         /\ Begins("service")
         /\ jobs'["service"].step = "read" /\ jobs'["service"].keys = Keys
         /\ jobs'["service"].cfg = cfg
         /\ board' = cfg /\ cfg \in Config
         /\ UNCHANGED <<rows, sorted, lookup, files, nextFile, now, sunk>>
<1>1. cfg \in Config
  BY ScoreConstants
<1>2. PICK job : job = [Idle EXCEPT !.step = "read", !.keys = Keys, !.cfg = cfg]
  OBVIOUS
<1>3. job.step = "read" /\ job.keys = Keys /\ job.cfg = cfg
  BY <1>2 DEF Idle
<1>4. job \in Job
  BY <1>1, <1>2, IdleJob DEF Job, Step
<1>5. JobOK(job)
  BY <1>3, ScoreConstants DEF JobOK
<1>6. /\ Begin("service", job)
      /\ board' = cfg
      /\ UNCHANGED <<rows, sorted, lookup, files, nextFile, now, sunk>>
  BY <1>2 DEF SetBoard, cache, disk
<1>7. /\ jobs' \in [Workers -> Job]
      /\ \A v \in Workers : JobOK(jobs'[v])
      /\ jobs["service"] = Idle /\ jobs'["service"] = job
      /\ \A v \in Workers \ {"service"} : jobs'[v] = jobs[v]
      /\ disturbed' \subseteq Keys /\ disturbed \subseteq disturbed'
      /\ \A v \in Workers \ {"service"} : job.keys \cap jobs[v].keys \subseteq disturbed'
  BY <1>4, <1>5, <1>6, BeginJob, ServiceWorks
<1>8. Basics'
  BY <1>1, <1>6, <1>7 DEF Basics, RowsOK, CacheOK
<1> QED BY <1>1, <1>3, <1>6, <1>7, <1>8 DEF Begins

\* ReadScores: a top of the table is in hand.
LEMMA ScoresRead ==
  ASSUME Basics, ReadScores
  PROVE  /\ Basics'
         /\ jobs["service"].step = "read" /\ jobs["service"].cfg \in Config
         /\ GoesOn("service")
         /\ jobs'["service"].step = "load"
         /\ jobs'["service"].keys = jobs["service"].keys
         /\ jobs'["service"].cfg = jobs["service"].cfg
         /\ jobs'["service"].loaded \in ScoresForBoard(jobs["service"].cfg)
         /\ UNCHANGED <<board, rows, sorted, lookup, files, nextFile, now, sunk>>
<1>1. PICK w : w = "service"
  OBVIOUS
<1>2. w \in Workers
  BY <1>1, ServiceWorks
<1>3. PICK s \in ScoresForBoard(jobs[w].cfg) :
        Continue(w, [To(w, "load") EXCEPT !.loaded = s])
  BY <1>1 DEF ReadScores
<1>4. /\ jobs[w].step = "read"
      /\ UNCHANGED <<board, rows, sorted, lookup, files, nextFile, now, sunk>>
  BY <1>1 DEF ReadScores, At, database, cache, disk
<1>5. JobOK(jobs[w]) /\ jobs[w].cfg \in Config
  BY <1>2 DEF Basics, Job
<1>6. s \in Seq(Entry) /\ OneEach(s)
  BY <1>5, ScoresTable DEF Basics
<1>7. PICK job \in Job : job = To(w, "load")
  BY <1>2, ToFields DEF Step
<1>8. job.step = "load" /\ job.keys = jobs[w].keys /\ job.cfg = jobs[w].cfg
  BY <1>2, <1>7, ToFields DEF Step
<1>9. PICK next : next = [job EXCEPT !.loaded = s]
  OBVIOUS
<1>10. /\ next \in Job /\ next.step = "load" /\ next.keys = jobs[w].keys
       /\ next.cfg = jobs[w].cfg /\ next.loaded = s
  BY <1>6, <1>8, <1>9 DEF Job
<1>11. JobOK(next)
  BY <1>4, <1>5, <1>6, <1>10 DEF JobOK
<1>12. /\ jobs' \in [Workers -> Job]
       /\ \A v \in Workers : JobOK(jobs'[v])
       /\ jobs'[w] = next
       /\ \A v \in Workers \ {w} : jobs'[v] = jobs[v]
       /\ disturbed' = disturbed
  BY <1>2, <1>3, <1>7, <1>9, <1>10, <1>11, ContinueJob
<1>13. Basics'
  BY <1>4, <1>12 DEF Basics, RowsOK, CacheOK
<1> QED BY <1>1, <1>3, <1>4, <1>5, <1>10, <1>12, <1>13 DEF GoesOn

\* LoadTable: it is the cached board now.
LEMMA TableLoaded ==
  ASSUME Basics, LoadTable
  PROVE  /\ Basics'
         /\ jobs["service"].step = "load" /\ Ends("service")
         /\ sorted' = jobs["service"].loaded
         /\ sunk' = FALSE
         /\ UNCHANGED <<board, rows, files, nextFile, now>>
<1>1. PICK w : w = "service"
  OBVIOUS
<1>2. PICK t : t = jobs[w].loaded
  OBVIOUS
<1>3. /\ jobs[w].step = "load" /\ Continue(w, Idle)
      /\ sorted' = t
      /\ lookup' = IndexOf(t)
      /\ sunk' = FALSE
      /\ UNCHANGED <<board, rows, files, nextFile, now>>
  BY <1>1, <1>2 DEF LoadTable, At, database, disk
<1>4. w \in Workers
  BY <1>1, ServiceWorks
<1>5. t \in Seq(Entry) /\ OneEach(t)
  <2>1. JobOK(jobs[w]) /\ jobs[w] \in Job
    BY <1>4 DEF Basics
  <2> QED BY <1>2, <1>3, <2>1 DEF JobOK, Job
<1>6. /\ Ends(w)
      /\ jobs' \in [Workers -> Job]
      /\ \A v \in Workers : JobOK(jobs'[v])
      /\ disturbed' \subseteq Keys
  BY <1>3, <1>4, EndsJob
<1>7. IndexOf(t) \in [Keys -> Nat] /\ Exact(t, IndexOf(t))
  BY <1>5, IndexOfExact
<1>8. CacheOK'
  BY <1>3, <1>5, <1>7 DEF CacheOK
<1>9. Basics'
  <2> HIDE DEF CacheOK
  <2> QED BY <1>3, <1>6, <1>8 DEF Basics, RowsOK
<1> QED BY <1>1, <1>2, <1>3, <1>6, <1>9

\* Restart: nobody is at work, and the cached board is a top of the table.
LEMMA Restarted ==
  ASSUME Basics, Restart
  PROVE  /\ Basics'
         /\ \A w \in Workers : jobs'[w] = Idle
         /\ board' \in Configs \cup {board}
         /\ IF board' = NoBoard THEN sorted' = <<>> ELSE sorted' \in ScoresForBoard(board')
         /\ files' = files \cap AllDataIds
         /\ \A f \in files : f < nextFile'
         /\ disturbed' = {} /\ sunk' = FALSE
         /\ rows' = rows
<1>1. /\ jobs' = [w \in Workers |-> Idle]
      /\ IF board' = NoBoard THEN sorted' = <<>> ELSE sorted' \in ScoresForBoard(board')
      /\ board' \in Configs \cup {board}
      /\ lookup' = IndexOf(sorted')
      /\ nextFile' \in {f + 1 : f \in files \cup {0}} /\ \A f \in files : f < nextFile'
      /\ files' = files \cap AllDataIds
      /\ disturbed' = {} /\ sunk' = FALSE
      /\ UNCHANGED <<rows, now>>
  BY DEF Restart
<1>2. PICK t : t = sorted'
  OBVIOUS
<1>3. board' \in Config \cup {NoBoard}
  BY <1>1, ScoreConstants DEF Basics
<1>4. t \in Seq(Entry) /\ OneEach(t)
  <2>1. CASE board' = NoBoard
    BY <1>1, <1>2, <2>1 DEF OneEach
  <2>2. CASE board' # NoBoard
    <3>1. PICK cfg \in Config : cfg = board'
      BY <1>3, <2>2
    <3>2. t \in ScoresForBoard(cfg)
      BY <1>1, <1>2, <2>2, <3>1
    <3> QED BY <3>2, ScoresTable DEF Basics
  <2> QED BY <2>1, <2>2
<1>5. IndexOf(t) \in [Keys -> Nat] /\ Exact(t, IndexOf(t))
  BY <1>4, IndexOfExact
<1>6. lookup' = IndexOf(t)
  BY <1>1, <1>2
<1>7. CacheOK'
  BY <1>2, <1>4, <1>5, <1>6 DEF CacheOK
<1>8. jobs' \in [Workers -> Job] /\ \A w \in Workers : JobOK(jobs'[w])
  BY <1>1, IdleJob
<1>9. files' \subseteq 1 .. MaxFiles /\ nextFile' \in 1 .. MaxFiles + 1
  <2>1. PICK f \in files \cup {0} : nextFile' = f + 1
    BY <1>1
  <2>2. f \in 0 .. MaxFiles /\ MaxFiles \in Nat
    BY ScoreConstants DEF Basics
  <2>3. nextFile' \in 1 .. MaxFiles + 1
    BY <2>1, <2>2
  <2> QED BY <1>1, <2>3 DEF Basics
<1>10. Basics'
  <2> HIDE DEF CacheOK
  <2> QED BY <1>1, <1>3, <1>7, <1>8, <1>9 DEF Basics, RowsOK
<1> QED BY <1>1, <1>10

-----------------------------------------------------------------------------
(* The board comes first: without it there is no row and no entry, and only *)
(* a thread that creates it, or that finds nothing to remove, is at work.   *)

BoardThere ==
  /\ board = NoBoard => StoredKeys = {} /\ sorted = <<>>
  /\ \A w \in Workers :
       jobs[w].step \notin {"idle", "create", "purge", "unlink", "evict"} => board # NoBoard

SInv == Basics /\ BoardThere

\* A table without positions is empty.
LEMMA NothingIn ==
  ASSUME NEW s \in Seq(Entry), DOMAIN s = {}
  PROVE  s = <<>>
<1>1. Len(s) \in Nat /\ DOMAIN s = 1 .. Len(s)
  BY TableTypes
<1>2. Len(s) = 0
  BY <1>1
<1> QED BY <1>2, EmptySeq

\* Types, index and board at the start.
LEMMA SInvInit ==
  ASSUME Init
  PROVE  SInv
<1>1. RowsOK
  BY DEF Init, RowsOK
<1>2. PICK s \in Seq(Entry) : s = <<>>
  BY EmptySeq
<1>3. OneEach(s) /\ DOMAIN s = {}
  BY <1>2 DEF OneEach
<1>4. CacheOK
  <2>1. sorted = s /\ lookup = [k \in Keys |-> 0]
    BY <1>2 DEF Init
  <2>2. Exact(s, [k \in Keys |-> 0])
    BY <1>3 DEF Exact
  <2> QED BY <2>1, <2>2 DEF CacheOK
<1>5. \A w \in Workers : jobs[w] = Idle
  BY DEF Init
<1>6. jobs \in [Workers -> Job] /\ \A w \in Workers : JobOK(jobs[w])
  BY IdleJob DEF Init
<1>7. /\ files \subseteq 1 .. MaxFiles /\ nextFile \in 1 .. MaxFiles + 1
      /\ now \in 0 .. MaxTime
  BY ScoreConstants DEF Init
<1>8. Basics
  BY <1>1, <1>4, <1>6, <1>7 DEF Init, Basics
<1>9. BoardThere
  BY <1>5, IdleJob DEF Init, BoardThere, StoredKeys
<1> QED BY <1>8, <1>9 DEF SInv

\* Whatever thread acts, the board stays once it is there.
LEMMA BoardKept ==
  ASSUME SInv, board' # NoBoard
  PROVE  BoardThere'
BY DEF BoardThere

\* Every step keeps types, index and board.
LEMMA SInvStep ==
  ASSUME SInv, [Next]_vars
  PROVE  SInv'
<1>0. Basics /\ BoardThere
  BY DEF SInv
<1>1. ASSUME NEW d \in Devices, NEW k \in Keys, CmdRecordScore(d, k)
      PROVE  SInv'
  <2>1. /\ Basics' /\ Begins(d)
        /\ jobs'[d].step = IF board = NoBoard THEN "create" ELSE "record"
        /\ UNCHANGED <<board, rows, sorted>>
    BY <1>0, <1>1, RecordBegins
  <2>2. BoardThere'
    BY <1>0, <2>1 DEF BoardThere, Begins, StoredKeys
  <2> QED BY <2>1, <2>2 DEF SInv
<1>2. ASSUME NEW d \in Devices, NEW k \in Keys, CmdRecordScoreData(d, k)
      PROVE  SInv'
  <2>1. Basics' /\ board' # NoBoard
    BY <1>0, <1>2, DataBegins
  <2> QED BY <2>1, BoardKept DEF SInv
<1>3. ASSUME NEW d \in Devices, CreateBoard(d)
      PROVE  SInv'
  <2>1. Basics' /\ board' # NoBoard
    BY <1>0, <1>3, BoardCreated, ScoreConstants
  <2> QED BY <2>1, BoardKept DEF SInv
<1>4. ASSUME NEW d \in Devices, GetCreatedBoard(d)
      PROVE  SInv'
  <2>1. jobs[d].step = "board"
    BY <1>4 DEF GetCreatedBoard, At
  <2>2. board # NoBoard
    BY <1>0, <2>1, DeviceWorks DEF BoardThere
  <2>3. Basics' /\ board' = board
    BY <1>0, <1>4, <2>2, CreatedBoardRead
  <2> QED BY <2>2, <2>3, BoardKept DEF SInv
<1>5. ASSUME NEW d \in Devices, RecordScore(d)
      PROVE  SInv'
  <2>1. Basics' /\ jobs[d].step = "record" /\ board' = board
    BY <1>0, <1>5, ScoreRecorded
  <2>2. board # NoBoard
    BY <1>0, <2>1, DeviceWorks DEF BoardThere
  <2> QED BY <2>1, <2>2, BoardKept DEF SInv
<1>6. ASSUME NEW d \in Devices, InsertScore(d)
      PROVE  SInv'
  <2>1. Basics' /\ jobs[d].step = "insert" /\ board' = board
    BY <1>0, <1>6, ScoreInserted
  <2>2. board # NoBoard
    BY <1>0, <2>1, DeviceWorks DEF BoardThere
  <2> QED BY <2>1, <2>2, BoardKept DEF SInv
<1>7. ASSUME NEW d \in Devices, SetGameData(d)
      PROVE  SInv'
  <2>1. Basics' /\ jobs[d].step = "attach" /\ board' = board
    BY <1>0, <1>7, DataSet
  <2>2. board # NoBoard
    BY <1>0, <2>1, DeviceWorks DEF BoardThere
  <2> QED BY <2>1, <2>2, BoardKept DEF SInv
<1>8. ASSUME NEW d \in Devices, SetScoreDataId(d)
      PROVE  SInv'
  <2>1. Basics' /\ jobs[d].step = "link" /\ board' = board
    BY <1>0, <1>8, DataLinked
  <2>2. board # NoBoard
    BY <1>0, <2>1, DeviceWorks DEF BoardThere
  <2> QED BY <2>1, <2>2, BoardKept DEF SInv
<1>9. ASSUME NEW k \in Keys, DeleteScore(k)
      PROVE  SInv'
  <2>1. Basics' /\ rows[k] # NoRow /\ board' = board
    BY <1>0, <1>9, DeletionBegins
  <2>2. board # NoBoard
    BY <1>0, <2>1 DEF BoardThere, StoredKeys
  <2> QED BY <2>1, <2>2, BoardKept DEF SInv
<1>10. ASSUME NEW w \in Workers, NEW k \in Keys, DeleteAccount(w, k[1])
       PROVE  SInv'
  <2>1. /\ Basics' /\ Removal(w, "purge", KeysOf(k[1]))
        /\ UNCHANGED <<board, rows, sorted>>
    BY <1>0, <1>10, PurgeBegins
  <2>2. BoardThere'
    BY <1>0, <2>1 DEF BoardThere, Removal, Begins, StoredKeys
  <2> QED BY <2>1, <2>2 DEF SInv
<1>11. ASSUME NEW w \in Workers, DeleteRows(w)
       PROVE  SInv'
  <2>1. /\ Basics' /\ jobs[w].step \in {"delete", "purge"}
        /\ Ends(w) \/ Moves(w, "unlink")
        /\ rows' = [k \in Keys |-> IF k \in jobs[w].keys THEN NoRow ELSE rows[k]]
        /\ UNCHANGED <<board, sorted>>
    BY <1>0, <1>11, RowsDeleted
  <2>2. StoredKeys' \subseteq StoredKeys
    BY <2>1 DEF StoredKeys
  <2>3. jobs'[w].step \in {"idle", "unlink"} /\ \A v \in Workers \ {w} : jobs'[v] = jobs[v]
    BY <2>1, IdleJob DEF Ends, Moves, GoesOn
  <2>4. BoardThere'
    BY <1>0, <2>1, <2>2, <2>3 DEF BoardThere
  <2> QED BY <2>1, <2>4 DEF SInv
<1>12. ASSUME NEW w \in Workers, RemoveFiles(w)
       PROVE  SInv'
  <2>1. Basics' /\ Moves(w, "evict") /\ UNCHANGED <<board, rows, sorted>>
    BY <1>0, <1>12, FilesRemoved
  <2>2. BoardThere'
    BY <1>0, <2>1 DEF BoardThere, Moves, GoesOn, StoredKeys
  <2> QED BY <2>1, <2>2 DEF SInv
<1>13. ASSUME NEW w \in Workers, RemoveEntries(w)
       PROVE  SInv'
  <2>1. /\ Basics' /\ Ends(w) /\ sorted' \in Others(sorted, jobs[w].keys)
        /\ UNCHANGED <<board, rows>>
    BY <1>0, <1>13, EntriesRemoved
  <2>2. sorted = <<>> => sorted' = <<>>
    <3>1. ASSUME sorted = <<>>
          PROVE  sorted' = <<>>
      <4>1. PICK s \in Seq(Entry) : s = sorted
        BY <1>0 DEF Basics, CacheOK
      <4>2. DOMAIN s = {} /\ OneEach(s)
        BY <3>1, <4>1 DEF OneEach
      <4>3. PICK keys : keys = jobs[w].keys
        OBVIOUS
      <4>4. PICK t \in Others(s, keys) : t = sorted'
        BY <2>1, <4>1, <4>3
      <4>5. /\ t \in Seq(Entry)
            /\ \E at \in [DOMAIN t -> DOMAIN s] :
                 \A i \in DOMAIN t : t[i] = s[at[i]] /\ s[at[i]].key \notin keys
        <5>1. OneEach(s)
          BY <4>2
        <5> QED BY <5>1, OthersTable
      <4>6. DOMAIN t = {}
        BY <4>2, <4>5
      <4> QED BY <4>4, <4>5, <4>6, NothingIn
    <3> QED BY <3>1
  <2>3. BoardThere'
    BY <1>0, <2>1, <2>2, IdleJob DEF BoardThere, Ends, GoesOn, StoredKeys
  <2> QED BY <2>1, <2>3 DEF SInv
<1>14. ASSUME NEW cfg \in Configs, SetBoard(cfg)
       PROVE  SInv'
  <2>1. Basics' /\ board' # NoBoard
    BY <1>0, <1>14, SettingsBegin, ScoreConstants
  <2> QED BY <2>1, BoardKept DEF SInv
<1>15. CASE ReadScores
  <2>1. Basics' /\ jobs["service"].step = "read" /\ board' = board
    BY <1>0, <1>15, ScoresRead
  <2>2. board # NoBoard
    BY <1>0, <2>1, ServiceWorks DEF BoardThere
  <2> QED BY <2>1, <2>2, BoardKept DEF SInv
<1>16. CASE LoadTable
  <2>1. Basics' /\ jobs["service"].step = "load" /\ board' = board
    BY <1>0, <1>16, TableLoaded
  <2>2. board # NoBoard
    BY <1>0, <2>1, ServiceWorks DEF BoardThere
  <2> QED BY <2>1, <2>2, BoardKept DEF SInv
<1>17. CASE Restart
  <2>1. /\ Basics' /\ board' \in Configs \cup {board} /\ rows' = rows
        /\ IF board' = NoBoard THEN sorted' = <<>> ELSE sorted' \in ScoresForBoard(board')
        /\ \A w \in Workers : jobs'[w] = Idle
    BY <1>0, <1>17, Restarted
  <2>2. board' = NoBoard => board = NoBoard
    BY <2>1, ScoreConstants
  <2>3. BoardThere'
    BY <1>0, <2>1, <2>2, IdleJob DEF BoardThere, StoredKeys
  <2> QED BY <2>1, <2>3 DEF SInv
<1>18. CASE UNCHANGED vars
  <2>1. Basics'
    BY <1>0, <1>18 DEF vars, Basics, RowsOK, CacheOK
  <2>2. BoardThere'
    BY <1>0, <1>18 DEF vars, BoardThere, StoredKeys
  <2> QED BY <2>1, <2>2 DEF SInv
<1> QED BY <1>1, <1>2, <1>3, <1>4, <1>5, <1>6, <1>7, <1>8, <1>9, <1>10, <1>11, <1>12,
           <1>13, <1>14, <1>15, <1>16, <1>17, <1>18 DEF Next

-----------------------------------------------------------------------------
(* The data files: a file is named by one row, or by nobody but the thread  *)
(* that uploads it; what a thread is going to remove is named by no row     *)
(* but those that the same thread deletes.                                  *)

Carrying(job) == job.step \in {"attach", "link"}
Dooming(job) == job.step \in {"delete", "purge", "unlink"}

CarryOK(job, w) ==
  /\ job.entry.data \in files
  /\ \A k \in StoredKeys : rows[k].data # job.entry.data
  /\ \A v \in Workers \ {w} : Carrying(jobs[v]) => jobs[v].entry.data # job.entry.data

DoomOK(job) ==
  /\ \A f \in job.doomed : f < nextFile
  /\ \A k \in StoredKeys : rows[k].data \in job.doomed =>
       k \in job.keys /\ job.step # "unlink"

Apart(carried, doomed) == carried.entry.data \notin doomed.doomed

FilesOK ==
  /\ \A f \in files : f < nextFile
  /\ DataIdsSound
  /\ \A w \in Workers : Carrying(jobs[w]) => CarryOK(jobs[w], w)
  /\ \A w \in Workers : Dooming(jobs[w]) => DoomOK(jobs[w])
  /\ \A v, w \in Workers : Carrying(jobs[v]) /\ Dooming(jobs[w]) => Apart(jobs[v], jobs[w])

\* Data ids are numbers, those that are carried or doomed are not 0.
LEMMA DataTypes ==
  ASSUME Basics
  PROVE  /\ \A k \in StoredKeys : k \in Keys /\ rows[k].data \in Nat
         /\ \A w \in Workers : Carrying(jobs[w]) =>
              jobs[w].entry.data \in Nat /\ jobs[w].entry.data # 0
         /\ \A w \in Workers : jobs[w].doomed \subseteq Nat \ {0}
<1>1. ASSUME NEW k \in StoredKeys
      PROVE  k \in Keys /\ rows[k].data \in Nat
  <2>1. rows[k] \in Row /\ k \in Keys
    BY StoredEntry DEF Basics, StoredKeys
  <2> QED BY <2>1, ScoreConstants DEF Row
<1>2. ASSUME NEW w \in Workers, Carrying(jobs[w])
      PROVE  jobs[w].entry.data \in Nat /\ jobs[w].entry.data # 0
  <2>1. JobOK(jobs[w])
    BY DEF Basics
  <2>2. jobs[w].entry \in Entry /\ jobs[w].entry.data # 0
    BY <1>2, <2>1 DEF Carrying, JobOK
  <2> QED BY <2>2, ScoreConstants DEF Entry
<1>3. ASSUME NEW w \in Workers
      PROVE  jobs[w].doomed \subseteq Nat \ {0}
  <2>1. jobs[w].doomed \subseteq 1 .. MaxFiles
    BY DEF Basics, Job
  <2> QED BY <2>1, ScoreConstants
<1> QED BY <1>1, <1>2, <1>3

\* A thread does something else, and no row gets data.
LEMMA FilesElsewhere ==
  ASSUME Basics, FilesOK, NEW w \in Workers,
         \A v \in Workers \ {w} : jobs'[v] = jobs[v],
         ~Carrying(jobs'[w]), ~Dooming(jobs'[w]),
         files' = files, nextFile' = nextFile,
         \A k \in Keys : rows'[k] = rows[k] \/ rows'[k] = NoRow \/ rows'[k].data = 0
  PROVE  FilesOK'
<1>1. \A k \in StoredKeys' :
        /\ k \in Keys
        /\ \/ k \in StoredKeys /\ rows'[k] = rows[k]
           \/ rows'[k].data = 0
  BY DEF StoredKeys
<1>2. DataIdsSound'
  BY <1>1 DEF FilesOK, DataIdsSound
<1>3. ASSUME NEW v \in Workers, Carrying(jobs'[v])
      PROVE  CarryOK(jobs[v], v)' /\ jobs'[v] = jobs[v] /\ Carrying(jobs[v])
  <2>1. v # w /\ jobs'[v] = jobs[v] /\ Carrying(jobs[v])
    BY <1>3
  <2>2. CarryOK(jobs[v], v) /\ jobs[v].entry.data # 0
    BY <2>1, DataTypes DEF FilesOK
  <2> QED BY <1>1, <2>1, <2>2 DEF CarryOK
<1>4. ASSUME NEW v \in Workers, Dooming(jobs'[v])
      PROVE  DoomOK(jobs[v])' /\ jobs'[v] = jobs[v] /\ Dooming(jobs[v])
  <2>1. v # w /\ jobs'[v] = jobs[v] /\ Dooming(jobs[v])
    BY <1>4
  <2>2. DoomOK(jobs[v]) /\ 0 \notin jobs[v].doomed
    BY <2>1, DataTypes DEF FilesOK
  <2> QED BY <1>1, <2>1, <2>2 DEF DoomOK
<1>5. \A u, v \in Workers : Carrying(jobs'[u]) /\ Dooming(jobs'[v]) => Apart(jobs'[u], jobs'[v])
  BY <1>3, <1>4 DEF FilesOK
<1> QED BY <1>2, <1>3, <1>4, <1>5 DEF FilesOK

\* A removal that begins has the ids of the files of its own rows in hand.
LEMMA FilesRemoval ==
  ASSUME Basics, FilesOK, NEW w \in Workers, NEW step \in {"delete", "purge"}, NEW keys,
         Removal(w, step, keys), UNCHANGED <<rows, files, nextFile>>
  PROVE  FilesOK'
<1>1. /\ \A v \in Workers \ {w} : jobs'[v] = jobs[v]
      /\ jobs'[w].step = step /\ jobs'[w].keys = keys /\ jobs'[w].doomed = DataIds(keys)
  BY DEF Removal, Begins
<1>2. ~Carrying(jobs'[w])
  BY <1>1 DEF Carrying
<1>3. \A f \in DataIds(keys) : f # 0 /\ \E k \in keys \cap StoredKeys : f = rows[k].data
  BY DEF DataIds
<1>4. DoomOK(jobs[w])'
  <2>1. \A f \in jobs'[w].doomed : f < nextFile'
    BY <1>1, <1>3 DEF FilesOK, DataIdsSound
  <2>2. ASSUME NEW k \in StoredKeys, rows[k].data \in DataIds(keys)
        PROVE  k \in keys
    BY <1>3, <2>2 DEF FilesOK, DataIdsSound
  <2> QED BY <1>1, <2>1, <2>2 DEF DoomOK, StoredKeys
<1>5. ASSUME NEW v \in Workers, Carrying(jobs'[v])
      PROVE  v # w /\ CarryOK(jobs[v], v)' /\ Apart(jobs[v], jobs[w])'
  <2>1. v # w /\ jobs'[v] = jobs[v] /\ CarryOK(jobs[v], v)
    BY <1>1, <1>2, <1>5 DEF FilesOK
  <2>2. CarryOK(jobs[v], v)'
    BY <1>1, <1>2, <2>1 DEF CarryOK, StoredKeys
  <2>3. jobs[v].entry.data \notin DataIds(keys)
    BY <1>3, <2>1 DEF CarryOK
  <2> QED BY <1>1, <2>1, <2>2, <2>3 DEF Apart
<1>6. ASSUME NEW v \in Workers \ {w}, Dooming(jobs'[v])
      PROVE  DoomOK(jobs[v])'
  <2>1. jobs'[v] = jobs[v] /\ DoomOK(jobs[v])
    BY <1>1, <1>6 DEF FilesOK
  <2> QED BY <2>1 DEF DoomOK, StoredKeys
<1>7. ASSUME NEW u \in Workers, NEW v \in Workers, Carrying(jobs'[u]), Dooming(jobs'[v])
      PROVE  Apart(jobs[u], jobs[v])'
  <2>1. CASE v = w
    BY <1>5, <1>7, <2>1
  <2>2. CASE v # w
    BY <1>1, <1>5, <1>7, <2>2 DEF FilesOK, Apart
  <2> QED BY <2>1, <2>2
<1>8. DataIdsSound'
  BY DEF FilesOK, DataIdsSound, StoredKeys
<1> QED BY <1>4, <1>5, <1>6, <1>7, <1>8 DEF FilesOK

\* A thread that dooms files goes on to the next step, deletes its rows or its files.
LEMMA FilesDoomed ==
  ASSUME Basics, FilesOK, NEW w \in Workers, Dooming(jobs[w]), nextFile' = nextFile,
         \/ /\ Moves(w, "unlink")
            /\ rows' = [k \in Keys |-> IF k \in jobs[w].keys THEN NoRow ELSE rows[k]]
            /\ files' = files
         \/ /\ jobs[w].step = "unlink" /\ Moves(w, "evict")
            /\ rows' = rows
            /\ files' = files \ jobs[w].doomed
  PROVE  FilesOK'
<1>1. DoomOK(jobs[w])
  BY DEF FilesOK
<1>2. /\ \A v \in Workers \ {w} : jobs'[v] = jobs[v]
      /\ ~Carrying(jobs'[w])
      /\ jobs'[w].doomed = jobs[w].doomed /\ jobs'[w].keys = jobs[w].keys
  BY DEF Moves, GoesOn, Carrying
<1>3. files' \subseteq files /\ files \subseteq files' \cup jobs[w].doomed
  OBVIOUS
<1>4. \A k \in StoredKeys' : k \in StoredKeys /\ rows'[k] = rows[k]
  BY DEF StoredKeys
<1>5. \A k \in StoredKeys' : rows'[k].data \notin jobs[w].doomed
  <2>1. CASE rows' = [k \in Keys |-> IF k \in jobs[w].keys THEN NoRow ELSE rows[k]]
    <3>1. \A k \in StoredKeys' : k \notin jobs[w].keys
      BY <2>1 DEF StoredKeys
    <3> QED BY <1>1, <1>4, <3>1 DEF DoomOK
  <2>2. CASE jobs[w].step = "unlink"
    BY <1>1, <1>4, <2>2 DEF DoomOK
  <2> QED BY <2>1, <2>2
<1>6. DataIdsSound'
  BY <1>3, <1>4, <1>5 DEF FilesOK, DataIdsSound
<1>7. ASSUME NEW v \in Workers, Carrying(jobs'[v])
      PROVE  jobs'[v] = jobs[v] /\ CarryOK(jobs[v], v)'
  <2>1. v # w /\ jobs'[v] = jobs[v] /\ CarryOK(jobs[v], v) /\ Apart(jobs[v], jobs[w])
    BY <1>2, <1>7 DEF FilesOK
  <2>2. jobs[v].entry.data \in files'
    BY <1>3, <2>1 DEF CarryOK, Apart
  <2> QED BY <1>2, <1>4, <2>1, <2>2 DEF CarryOK
<1>8. ASSUME NEW v \in Workers, Dooming(jobs'[v])
      PROVE  DoomOK(jobs[v])' /\ jobs'[v].doomed = jobs[v].doomed /\ Dooming(jobs[v])
  <2>1. CASE v = w
    BY <1>1, <1>2, <1>4, <1>5, <2>1 DEF DoomOK
  <2>2. CASE v # w
    <3>1. jobs'[v] = jobs[v] /\ DoomOK(jobs[v]) /\ Dooming(jobs[v])
      BY <1>2, <1>8, <2>2 DEF FilesOK
    <3> QED BY <1>4, <3>1 DEF DoomOK
  <2> QED BY <2>1, <2>2
<1>9. \A u, v \in Workers : Carrying(jobs'[u]) /\ Dooming(jobs'[v]) => Apart(jobs'[u], jobs'[v])
  BY <1>7, <1>8 DEF FilesOK, Apart
<1>10. \A f \in files' : f < nextFile'
  BY <1>3 DEF FilesOK
<1> QED BY <1>6, <1>7, <1>8, <1>9, <1>10 DEF FilesOK

\* A thread writes a file of its own.
LEMMA FilesUploaded ==
  ASSUME Basics, FilesOK, NEW d \in Workers,
         \A v \in Workers \ {d} : jobs'[v] = jobs[v],
         jobs'[d].step = "attach", jobs'[d].entry.data = nextFile,
         files' = files \cup {nextFile}, nextFile' = nextFile + 1,
         rows' = rows
  PROVE  FilesOK'
<1>1. nextFile \in Nat /\ nextFile \notin files
  BY ScoreConstants DEF Basics, FilesOK
<1>2. \A k \in StoredKeys : rows[k].data # 0 => rows[k].data \in files
  BY DEF FilesOK, DataIdsSound
<1>3. StoredKeys' = StoredKeys
  BY DEF StoredKeys
<1>4. nextFile # 0
  BY ScoreConstants DEF Basics
<1>5. \A f \in files' : f < nextFile'
  <2>1. \A f \in files : f < nextFile /\ f \in Nat
    BY ScoreConstants DEF FilesOK, Basics
  <2> QED BY <1>1, <2>1
<1>6. DataIdsSound'
  BY <1>3 DEF FilesOK, DataIdsSound
<1>7. CarryOK(jobs[d], d)'
  <2>1. \A v \in Workers \ {d} : Carrying(jobs[v]) => jobs[v].entry.data \in files
    BY DEF FilesOK, CarryOK
  <2> QED BY <1>1, <1>2, <1>3, <1>4, <2>1 DEF CarryOK
<1>8. ASSUME NEW v \in Workers \ {d}, Carrying(jobs'[v])
      PROVE  CarryOK(jobs[v], v)'
  <2>1. CarryOK(jobs[v], v) /\ jobs'[v] = jobs[v]
    BY <1>8 DEF FilesOK
  <2> QED BY <1>1, <1>3, <2>1 DEF CarryOK
<1>9. ASSUME NEW v \in Workers, Dooming(jobs'[v])
      PROVE  v # d /\ jobs'[v] = jobs[v] /\ DoomOK(jobs[v])' /\ nextFile \notin jobs[v].doomed
  <2>1. v # d
    BY <1>9 DEF Dooming
  <2>2. jobs'[v] = jobs[v] /\ DoomOK(jobs[v])
    BY <1>9, <2>1 DEF FilesOK
  <2>3. \A f \in jobs[v].doomed : f \in Nat /\ f < nextFile
    BY <2>2, DataTypes DEF DoomOK
  <2> QED BY <1>1, <1>3, <2>1, <2>2, <2>3 DEF DoomOK
<1>10. \A u, v \in Workers : Carrying(jobs'[u]) /\ Dooming(jobs'[v]) => Apart(jobs'[u], jobs'[v])
  BY <1>9 DEF FilesOK, Apart
<1> QED BY <1>5, <1>6, <1>7, <1>8, <1>9, <1>10 DEF FilesOK

\* The thread goes on to tell the database.
LEMMA FilesAttached ==
  ASSUME Basics, FilesOK, NEW d \in Workers, jobs[d].step = "attach", Moves(d, "link"),
         UNCHANGED <<rows, files, nextFile>>
  PROVE  FilesOK'
<1>1. /\ \A v \in Workers \ {d} : jobs'[v] = jobs[v]
      /\ jobs'[d].step = "link" /\ jobs'[d].entry = jobs[d].entry
  BY DEF Moves, GoesOn
<1>2. \A v \in Workers : Carrying(jobs'[v]) =>
        Carrying(jobs[v]) /\ jobs'[v].entry = jobs[v].entry
  BY <1>1 DEF Carrying
<1>3. \A v \in Workers : Dooming(jobs'[v]) => Dooming(jobs[v]) /\ jobs'[v] = jobs[v]
  BY <1>1 DEF Dooming
<1>4. StoredKeys' = StoredKeys
  BY DEF StoredKeys
<1>5. \A v \in Workers : Carrying(jobs'[v]) => CarryOK(jobs[v], v)'
  BY <1>2, <1>4 DEF FilesOK, CarryOK
<1>6. \A v \in Workers : Dooming(jobs'[v]) => DoomOK(jobs[v])'
  BY <1>3, <1>4 DEF FilesOK, DoomOK
<1>7. \A u, v \in Workers : Carrying(jobs'[u]) /\ Dooming(jobs'[v]) => Apart(jobs'[u], jobs'[v])
  BY <1>2, <1>3 DEF FilesOK, Apart
<1>8. DataIdsSound'
  BY <1>4 DEF FilesOK, DataIdsSound
<1> QED BY <1>5, <1>6, <1>7, <1>8 DEF FilesOK

\* The file ends in a row, in none, or is removed for want of an entry.
LEMMA FilesHandedOver ==
  ASSUME Basics, FilesOK, NEW d \in Workers, Carrying(jobs[d]), Ends(d), nextFile' = nextFile,
         \/ /\ rows' = rows
            /\ files' = files \ {jobs[d].entry.data}
         \/ /\ \A k \in StoredKeys' : k \in StoredKeys
                 /\ \/ rows'[k] = rows[k]
                    \/ k = jobs[d].entry.key /\ rows'[k].data = jobs[d].entry.data
            /\ files' = files
  PROVE  FilesOK'
<1>1. PICK f : f = jobs[d].entry.data
  OBVIOUS
<1>2. /\ \A v \in Workers \ {d} : jobs'[v] = jobs[v]
      /\ ~Carrying(jobs'[d]) /\ ~Dooming(jobs'[d])
  BY IdleJob DEF Ends, GoesOn, Carrying, Dooming
<1>3. CarryOK(jobs[d], d) /\ f \in files /\ \A k \in StoredKeys : rows[k].data # f
  BY <1>1 DEF FilesOK, CarryOK
<1>4. \/ files' = files
      \/ files' = files \ {f} /\ \A k \in StoredKeys' : rows'[k].data # f
  BY <1>1, <1>3 DEF StoredKeys
<1>5. \A k \in StoredKeys' : k \in StoredKeys
        /\ (rows'[k] = rows[k] \/ (k = jobs[d].entry.key /\ rows'[k].data = f))
  <2>1. CASE rows' = rows
    BY <2>1 DEF StoredKeys
  <2>2. CASE \A k \in StoredKeys' : k \in StoredKeys
               /\ \/ rows'[k] = rows[k]
                  \/ k = jobs[d].entry.key /\ rows'[k].data = jobs[d].entry.data
    BY <1>1, <2>2
  <2> QED BY <2>1, <2>2
<1>6. DataIdsSound'
  <2>1. ASSUME NEW k \in StoredKeys', rows'[k].data # 0
        PROVE  /\ rows'[k].data \in files'
               /\ \A j \in StoredKeys' \ {k} : rows'[j].data # rows'[k].data
    <3>1. CASE rows'[k] = rows[k]
      BY <1>3, <1>4, <1>5, <2>1, <3>1 DEF FilesOK, DataIdsSound
    <3>2. CASE k = jobs[d].entry.key /\ rows'[k].data = f
      BY <1>3, <1>4, <1>5, <3>2
    <3> QED BY <1>5, <3>1, <3>2
  <2> QED BY <2>1 DEF DataIdsSound
<1>7. ASSUME NEW v \in Workers, Carrying(jobs'[v])
      PROVE  v # d /\ jobs'[v] = jobs[v] /\ CarryOK(jobs[v], v)'
  <2>1. v # d /\ jobs'[v] = jobs[v] /\ CarryOK(jobs[v], v)
    BY <1>2, <1>7 DEF FilesOK
  <2>2. jobs[v].entry.data # f
    BY <1>1, <1>3, <1>7, <2>1 DEF CarryOK
  <2>3. jobs[v].entry.data \in files' /\ \A k \in StoredKeys' : rows'[k].data # jobs[v].entry.data
    BY <1>4, <1>5, <2>1, <2>2 DEF CarryOK
  <2> QED BY <1>2, <2>1, <2>3 DEF CarryOK
<1>8. ASSUME NEW v \in Workers, Dooming(jobs'[v])
      PROVE  jobs'[v] = jobs[v] /\ DoomOK(jobs[v])'
  <2>1. jobs'[v] = jobs[v] /\ DoomOK(jobs[v]) /\ Apart(jobs[d], jobs[v])
    BY <1>2, <1>8 DEF FilesOK
  <2>2. f \notin jobs[v].doomed
    BY <1>1, <2>1 DEF Apart
  <2> QED BY <1>5, <2>1, <2>2 DEF DoomOK
<1>9. \A u, v \in Workers : Carrying(jobs'[u]) /\ Dooming(jobs'[v]) => Apart(jobs'[u], jobs'[v])
  BY <1>7, <1>8 DEF FilesOK, Apart
<1>10. \A g \in files' : g < nextFile'
  BY <1>4 DEF FilesOK
<1> QED BY <1>6, <1>7, <1>8, <1>9, <1>10 DEF FilesOK

\* Every step keeps files, rows and what threads have in hand apart.
LEMMA FilesStep ==
  ASSUME SInv, FilesOK, [Next]_vars
  PROVE  FilesOK'
<1>0. Basics /\ BoardThere
  BY DEF SInv
<1>1. ASSUME NEW d \in Devices, NEW k \in Keys, CmdRecordScore(d, k)
      PROVE  FilesOK'
  <2>1. Begins(d) /\ UNCHANGED <<rows, files, nextFile>>
        /\ jobs'[d].step = IF board = NoBoard THEN "create" ELSE "record"
    BY <1>0, <1>1, RecordBegins
  <2>2. ~Carrying(jobs'[d]) /\ ~Dooming(jobs'[d])
    BY <2>1 DEF Carrying, Dooming
  <2> QED BY <1>0, <2>1, <2>2, FilesElsewhere, DeviceWorks DEF Begins
<1>2. ASSUME NEW d \in Devices, NEW k \in Keys, CmdRecordScoreData(d, k)
      PROVE  FilesOK'
  <2>1. /\ Begins(d) /\ jobs'[d].step = "attach"
        /\ sorted[lookup[k]] \in Entry /\ nextFile \in 1 .. MaxFiles
        /\ jobs'[d].entry = [sorted[lookup[k]] EXCEPT !.data = nextFile]
        /\ files' = files \cup {nextFile} /\ nextFile' = nextFile + 1
        /\ rows' = rows
    BY <1>0, <1>2, DataBegins
  <2>2. jobs'[d].entry.data = nextFile
    BY <2>1, ScoreConstants, OtherData
  <2> QED BY <1>0, <2>1, <2>2, FilesUploaded, DeviceWorks DEF Begins
<1>3. ASSUME NEW d \in Devices, CreateBoard(d)
      PROVE  FilesOK'
  <2>1. Moves(d, "board") /\ UNCHANGED <<rows, files, nextFile>>
    BY <1>0, <1>3, BoardCreated
  <2>2. ~Carrying(jobs'[d]) /\ ~Dooming(jobs'[d])
    BY <2>1 DEF Carrying, Dooming, Moves
  <2> QED BY <1>0, <2>1, <2>2, FilesElsewhere, DeviceWorks DEF Moves, GoesOn
<1>4. ASSUME NEW d \in Devices, GetCreatedBoard(d)
      PROVE  FilesOK'
  <2>1. board # NoBoard
    BY <1>0, <1>4, DeviceWorks DEF BoardThere, GetCreatedBoard, At
  <2>2. GoesOn(d) /\ jobs'[d].step = "record" /\ UNCHANGED <<rows, files, nextFile>>
    BY <1>0, <1>4, <2>1, CreatedBoardRead
  <2>3. ~Carrying(jobs'[d]) /\ ~Dooming(jobs'[d])
    BY <2>2 DEF Carrying, Dooming
  <2> QED BY <1>0, <2>2, <2>3, FilesElsewhere, DeviceWorks DEF GoesOn
<1>5. ASSUME NEW d \in Devices, RecordScore(d)
      PROVE  FilesOK'
  <2>1. /\ Refused(d) \/ \E e \in Entry : Written(d, e)
        /\ UNCHANGED <<files, nextFile>>
    BY <1>0, <1>5, ScoreRecorded
  <2>2. CASE Refused(d)
    BY <1>0, <2>1, <2>2, FilesElsewhere, DeviceWorks, IdleJob
       DEF Refused, Ends, GoesOn, Carrying, Dooming
  <2>3. ASSUME NEW e \in Entry, Written(d, e)
        PROVE  FilesOK'
    <3>1. rows \in [Keys -> Row \cup {NoRow}] /\ e.key \in Keys
      BY <1>0, EntryRow DEF Basics, RowsOK
    <3>2. \A k \in Keys : rows'[k] = rows[k] \/ rows'[k].data = 0
      BY <2>3, <3>1 DEF Written, RowOf
    <3> QED BY <1>0, <2>1, <2>3, <3>2, FilesElsewhere, DeviceWorks
            DEF Written, GoesOn, Carrying, Dooming
  <2> QED BY <2>1, <2>2, <2>3
<1>6. ASSUME NEW d \in Devices, InsertScore(d)
      PROVE  FilesOK'
  <2>1. Ends(d) /\ UNCHANGED <<rows, files, nextFile>>
    BY <1>0, <1>6, ScoreInserted
  <2> QED BY <1>0, <2>1, FilesElsewhere, DeviceWorks, IdleJob
          DEF Ends, GoesOn, Carrying, Dooming
<1>7. ASSUME NEW d \in Devices, SetGameData(d)
      PROVE  FilesOK'
  <2>1. /\ jobs[d].step = "attach"
        /\ Attached(d) \/ Unattached(d)
        /\ UNCHANGED <<rows, nextFile>>
    BY <1>0, <1>7, DataSet
  <2>2. CASE Attached(d)
    BY <1>0, <2>1, <2>2, FilesAttached, DeviceWorks DEF Attached
  <2>3. CASE Unattached(d)
    BY <1>0, <2>1, <2>3, FilesHandedOver, DeviceWorks DEF Unattached, Carrying
  <2> QED BY <2>1, <2>2, <2>3
<1>8. ASSUME NEW d \in Devices, SetScoreDataId(d)
      PROVE  FilesOK'
  <2>1. PICK e \in Entry : e = jobs[d].entry
    BY <1>0, <1>8, DataLinked
  <2>2. /\ jobs[d].step = "link" /\ Ends(d)
        /\ rows' = IF rows[e.key] # NoRow /\ rows[e.key].score = e.score
                   THEN [rows EXCEPT ![e.key].data = e.data] ELSE rows
        /\ UNCHANGED <<files, nextFile>>
    BY <1>0, <1>8, <2>1, DataLinked
  <2>3. ASSUME NEW k \in StoredKeys'
        PROVE  /\ k \in StoredKeys
               /\ rows'[k] = rows[k] \/ (k = e.key /\ rows'[k].data = e.data)
    <3>1. rows \in [Keys -> Row \cup {NoRow}] /\ e.key \in Keys /\ k \in Keys
      BY <1>0, EntryRow DEF Basics, RowsOK, StoredKeys
    <3>2. CASE rows' = rows
      BY <2>3, <3>2 DEF StoredKeys
    <3>3. CASE /\ rows[e.key] # NoRow
               /\ rows' = [rows EXCEPT ![e.key].data = e.data]
      <4>1. CASE k # e.key
        BY <2>3, <3>1, <3>3, <4>1 DEF StoredKeys
      <4>2. CASE k = e.key
        <5>1. PICK r \in Row : r = rows[e.key]
          BY <3>1, <3>3
        <5>2. rows'[e.key] = [r EXCEPT !.data = e.data]
          BY <3>1, <3>3, <5>1
        <5>3. rows'[e.key].data = e.data
          BY <5>2 DEF Row
        <5> QED BY <3>1, <3>3, <4>2, <5>3 DEF StoredKeys
      <4> QED BY <4>1, <4>2
    <3> QED BY <2>2, <3>2, <3>3
  <2>4. Carrying(jobs[d])
    BY <2>2 DEF Carrying
  <2> QED BY <1>0, <2>1, <2>2, <2>3, <2>4, FilesHandedOver, DeviceWorks
<1>9. ASSUME NEW k \in Keys, DeleteScore(k)
      PROVE  FilesOK'
  <2>1. Removal("admin", "delete", {k}) /\ UNCHANGED <<rows, files, nextFile>>
    BY <1>0, <1>9, DeletionBegins
  <2>2. "admin" \in Workers
    BY DEF Workers
  <2>3. PICK step \in {"delete", "purge"} : step = "delete"
    OBVIOUS
  <2> QED BY <1>0, <2>1, <2>2, <2>3, FilesRemoval
<1>10. ASSUME NEW w \in Workers, NEW k \in Keys, DeleteAccount(w, k[1])
       PROVE  FilesOK'
  <2>1. Removal(w, "purge", KeysOf(k[1])) /\ UNCHANGED <<rows, files, nextFile>>
    BY <1>0, <1>10, PurgeBegins
  <2>2. PICK step \in {"delete", "purge"} : step = "purge"
    OBVIOUS
  <2> QED BY <1>0, <2>1, <2>2, FilesRemoval
<1>11. ASSUME NEW w \in Workers, DeleteRows(w)
       PROVE  FilesOK'
  <2>1. /\ jobs[w].step \in {"delete", "purge"}
        /\ Ends(w) \/ Moves(w, "unlink")
        /\ rows' = [k \in Keys |-> IF k \in jobs[w].keys THEN NoRow ELSE rows[k]]
        /\ UNCHANGED <<files, nextFile>>
    BY <1>0, <1>11, RowsDeleted
  <2>2. CASE Ends(w)
    BY <1>0, <2>1, <2>2, FilesElsewhere, IdleJob DEF Ends, GoesOn, Carrying, Dooming
  <2>3. CASE Moves(w, "unlink")
    BY <1>0, <2>1, <2>3, FilesDoomed DEF Dooming
  <2> QED BY <2>1, <2>2, <2>3
<1>12. ASSUME NEW w \in Workers, RemoveFiles(w)
       PROVE  FilesOK'
  <2>1. /\ jobs[w].step = "unlink" /\ Moves(w, "evict")
        /\ files' = files \ jobs[w].doomed
        /\ UNCHANGED <<rows, nextFile>>
    BY <1>0, <1>12, FilesRemoved
  <2> QED BY <1>0, <2>1, FilesDoomed DEF Dooming
<1>13. ASSUME NEW w \in Workers, RemoveEntries(w)
       PROVE  FilesOK'
  <2>1. Ends(w) /\ UNCHANGED <<rows, files, nextFile>>
    BY <1>0, <1>13, EntriesRemoved
  <2> QED BY <1>0, <2>1, FilesElsewhere, IdleJob DEF Ends, GoesOn, Carrying, Dooming
<1>14. ASSUME NEW cfg \in Configs, SetBoard(cfg)
       PROVE  FilesOK'
  <2>1. /\ Begins("service") /\ jobs'["service"].step = "read"
        /\ UNCHANGED <<rows, files, nextFile>>
    BY <1>0, <1>14, SettingsBegin
  <2> QED BY <1>0, <2>1, FilesElsewhere, ServiceWorks DEF Begins, Carrying, Dooming
<1>15. CASE ReadScores
  <2>1. /\ GoesOn("service") /\ jobs'["service"].step = "load"
        /\ UNCHANGED <<rows, files, nextFile>>
    BY <1>0, <1>15, ScoresRead
  <2> QED BY <1>0, <2>1, FilesElsewhere, ServiceWorks DEF GoesOn, Carrying, Dooming
<1>16. CASE LoadTable
  <2>1. Ends("service") /\ UNCHANGED <<rows, files, nextFile>>
    BY <1>0, <1>16, TableLoaded
  <2> QED BY <1>0, <2>1, FilesElsewhere, ServiceWorks, IdleJob
          DEF Ends, GoesOn, Carrying, Dooming
<1>17. CASE Restart
  <2>1. /\ \A w \in Workers : jobs'[w] = Idle
        /\ files' = files \cap AllDataIds /\ \A f \in files : f < nextFile'
        /\ rows' = rows
    BY <1>0, <1>17, Restarted
  <2>2. \A w \in Workers : ~Carrying(jobs'[w]) /\ ~Dooming(jobs'[w])
    BY <2>1, IdleJob DEF Carrying, Dooming
  <2>3. DataIdsSound'
    BY <2>1 DEF FilesOK, DataIdsSound, AllDataIds, StoredKeys
  <2> QED BY <2>1, <2>2, <2>3 DEF FilesOK
<1>18. CASE UNCHANGED vars
  BY <1>18 DEF vars, FilesOK, DataIdsSound, CarryOK, DoomOK, StoredKeys
<1> QED BY <1>1, <1>2, <1>3, <1>4, <1>5, <1>6, <1>7, <1>8, <1>9, <1>10, <1>11, <1>12,
           <1>13, <1>14, <1>15, <1>16, <1>17, <1>18 DEF Next

-----------------------------------------------------------------------------
(* One key: what the thread that works on it alone has written and read so  *)
(* far says how its row and its entry differ.                               *)

\* Two threads with a key in common have disturbed it.
Alone == \A v, w \in Workers : v # w => jobs[v].keys \cap jobs[w].keys \subseteq disturbed

\* A job that begins disturbs the keys it shares.
LEMMA AloneBegins ==
  ASSUME Alone, NEW w \in Workers, Begins(w)
  PROVE  Alone'
<1>1. ASSUME NEW u \in Workers, NEW v \in Workers, u # v
      PROVE  jobs'[u].keys \cap jobs'[v].keys \subseteq disturbed'
  <2>1. CASE u # w /\ v # w
    BY <1>1, <2>1 DEF Alone, Begins
  <2>2. CASE u = w
    BY <1>1, <2>2 DEF Begins
  <2>3. CASE v = w
    BY <1>1, <2>3 DEF Begins
  <2> QED BY <2>1, <2>2, <2>3
<1> QED BY <1>1 DEF Alone

\* A job that goes on shares no more keys than before.
LEMMA AloneGoesOn ==
  ASSUME Alone, NEW w \in Workers, GoesOn(w)
  PROVE  Alone'
<1>1. \A v \in Workers : jobs'[v].keys \subseteq jobs[v].keys
  BY DEF GoesOn
<1> QED BY <1>1 DEF Alone, GoesOn

\* Row k is shown as it is, or not at all.
ShownAsStored(k) ==
  \A i \in DOMAIN sorted : sorted[i].key = k => rows[k] # NoRow /\ sorted[i] = Stored(k)

NoData(e) == [e EXCEPT !.data = 0]

KeyOK(k, job) ==
  /\ job.step \in {"create", "board", "record", "attach", "delete", "purge", "read"} =>
       ShownAsStored(k)
  /\ job.step \in {"insert", "attach", "link"} =>
       rows[k] # NoRow /\ Stored(k) = NoData(job.entry)
  /\ job.step = "link" =>
       \A i \in DOMAIN sorted : sorted[i].key = k => sorted[i] = job.entry
  /\ job.step \in {"unlink", "evict"} => rows[k] = NoRow
  /\ job.step = "load" =>
       \A i \in DOMAIN job.loaded : job.loaded[i].key = k =>
         rows[k] # NoRow /\ job.loaded[i] = Stored(k)

KeysOK == \A k \in Keys \ disturbed :
  /\ (\A w \in Workers : k \notin jobs[w].keys) => ShownAsStored(k)
  /\ \A w \in Workers : k \in jobs[w].keys => KeyOK(k, jobs[w])

\* A step leaves k's row alone, and its entry as it was if it is still there.
Kept(k) ==
  /\ rows'[k] = rows[k]
  /\ \A i \in DOMAIN sorted' : sorted'[i].key = k =>
       \E m \in DOMAIN sorted : sorted[m] = sorted'[i]

\* A key that is left alone is shown as before.
LEMMA KeptShown ==
  ASSUME NEW k, Kept(k), ShownAsStored(k)
  PROVE  ShownAsStored(k)'
BY DEF Kept, ShownAsStored, Stored

\* A key that is left alone is where its thread left it.
LEMMA KeptKey ==
  ASSUME NEW k, Kept(k), NEW job, KeyOK(k, job)
  PROVE  KeyOK(k, job)'
<1>1. ShownAsStored(k) => ShownAsStored(k)'
  BY KeptShown
<1>2. Stored(k)' = Stored(k) /\ rows'[k] = rows[k]
  BY DEF Kept, Stored
<1>3. (\A i \in DOMAIN sorted : sorted[i].key = k => sorted[i] = job.entry)
        => \A i \in DOMAIN sorted' : sorted'[i].key = k => sorted'[i] = job.entry
  BY DEF Kept
<1> QED BY <1>1, <1>2, <1>3 DEF KeyOK

\* Thread w has to account for its own keys only.
LEMMA KeysFrame ==
  ASSUME Alone', KeysOK, NEW w \in Workers,
         \A v \in Workers \ {w} : jobs'[v] = jobs[v],
         disturbed \subseteq disturbed',
         \A v \in Workers \ {w} : jobs[w].keys \cap jobs[v].keys \subseteq disturbed,
         \A k \in Keys \ disturbed' :
           k \notin jobs[w].keys /\ k \notin jobs'[w].keys => Kept(k),
         \A k \in Keys \ disturbed' : k \in jobs'[w].keys => KeyOK(k, jobs[w])',
         \A k \in Keys \ disturbed' :
           k \in jobs[w].keys /\ k \notin jobs'[w].keys => ShownAsStored(k)'
  PROVE  KeysOK'
<1>1. ASSUME NEW k \in Keys \ disturbed', \A v \in Workers : k \notin jobs'[v].keys
      PROVE  ShownAsStored(k)'
  <2>1. CASE k \in jobs[w].keys
    BY <1>1, <2>1
  <2>2. CASE k \notin jobs[w].keys
    <3>1. \A v \in Workers : k \notin jobs[v].keys
      BY <1>1, <2>2
    <3>2. ShownAsStored(k) /\ Kept(k)
      BY <1>1, <2>2, <3>1 DEF KeysOK
    <3> QED BY <3>2, KeptShown
  <2> QED BY <2>1, <2>2
<1>2. ASSUME NEW k \in Keys \ disturbed', NEW v \in Workers, k \in jobs'[v].keys
      PROVE  KeyOK(k, jobs[v])'
  <2>1. CASE v = w
    BY <1>2, <2>1
  <2>2. CASE v # w
    <3>1. jobs'[v] = jobs[v] /\ k \in jobs[v].keys /\ k \notin disturbed
      BY <1>2, <2>2
    <3>2. k \notin jobs[w].keys
      BY <2>2, <3>1
    <3>3. k \notin jobs'[w].keys
      BY <1>2, <2>2 DEF Alone
    <3>4. Kept(k) /\ KeyOK(k, jobs[v])
      BY <1>2, <3>1, <3>2, <3>3 DEF KeysOK
    <3>5. PICK job : job = jobs[v]
      OBVIOUS
    <3>6. KeyOK(k, job)'
      BY <3>4, <3>5, KeptKey
    <3> QED BY <3>1, <3>5, <3>6 DEF KeyOK
  <2> QED BY <2>1, <2>2
<1> QED BY <1>1, <1>2 DEF KeysOK

\* Nobody worked on the keys of a job that begins undisturbed.
LEMMA KeysBegin ==
  ASSUME Alone, KeysOK, NEW w \in Workers, Begins(w), UNCHANGED <<rows, sorted>>,
         jobs'[w].step \in {"create", "record", "delete", "purge", "read"}
  PROVE  KeysOK'
<1>1. Alone'
  BY AloneBegins
<1>2. /\ jobs[w].keys = {} /\ disturbed \subseteq disturbed'
      /\ \A v \in Workers \ {w} : jobs'[v] = jobs[v]
  BY IdleJob DEF Begins
<1>3. \A k \in Keys : Kept(k)
  BY DEF Kept
<1>4. ASSUME NEW k \in Keys \ disturbed', k \in jobs'[w].keys
      PROVE  KeyOK(k, jobs[w])'
  <2>1. \A v \in Workers : k \notin jobs[v].keys
    BY <1>2, <1>4 DEF Begins
  <2>2. ShownAsStored(k)
    BY <1>2, <1>4, <2>1 DEF KeysOK
  <2>3. ShownAsStored(k)'
    BY <1>3, <2>2, KeptShown
  <2> QED BY <2>3 DEF KeyOK
<1> QED BY <1>1, <1>2, <1>3, <1>4, KeysFrame

\* A thread that goes on and has to account for its keys.
LEMMA KeysGoOn ==
  ASSUME Alone, KeysOK, NEW w \in Workers, GoesOn(w),
         \A k \in Keys \ disturbed : k \notin jobs[w].keys => Kept(k),
         \A k \in Keys \ disturbed : k \in jobs[w].keys /\ KeyOK(k, jobs[w]) =>
           IF k \in jobs'[w].keys THEN KeyOK(k, jobs[w])' ELSE ShownAsStored(k)'
  PROVE  KeysOK'
<1>1. Alone'
  BY AloneGoesOn
<1>2. /\ jobs'[w].keys \subseteq jobs[w].keys /\ disturbed' = disturbed
      /\ \A v \in Workers \ {w} : jobs'[v] = jobs[v]
  BY DEF GoesOn
<1>3. \A v \in Workers \ {w} : jobs[w].keys \cap jobs[v].keys \subseteq disturbed
  BY DEF Alone
<1>4. \A k \in Keys \ disturbed : k \in jobs[w].keys => KeyOK(k, jobs[w])
  BY DEF KeysOK
<1> QED BY <1>1, <1>2, <1>3, <1>4, KeysFrame

\* An entry without data is what its row makes it.
LEMMA RowEntry ==
  ASSUME NEW e \in Entry
  PROVE  /\ e = [key |-> e.key, score |-> e.score, time |-> e.time, data |-> e.data]
         /\ e.data = 0 => NoData(e) = e
BY DEF Entry, NoData

\* A row that is written makes the entry in hand.
LEMMA KeysRecorded ==
  ASSUME Basics, Alone, KeysOK, NEW d \in Devices, NEW e \in Entry, Written(d, e),
         sorted' = sorted
  PROVE  KeysOK'
<1>1. rows \in [Keys -> Row \cup {NoRow}] /\ e.key \in Keys /\ RowOf(e) # NoRow
  BY EntryRow DEF Basics, RowsOK
<1>2. ASSUME NEW k \in Keys, k \notin jobs[d].keys
      PROVE  Kept(k)
  BY <1>1, <1>2 DEF Written, Kept
<1>3. ASSUME NEW k \in Keys, k \in jobs[d].keys
      PROVE  k \in jobs'[d].keys /\ KeyOK(k, jobs[d])'
  <2>1. k = e.key /\ rows'[k] = RowOf(e)
    BY <1>1, <1>3 DEF Written
  <2>2. Stored(k)' = e /\ NoData(e) = e
    BY <2>1, RowEntry DEF Written, Stored, RowOf
  <2>3. jobs'[d].step = "insert" /\ jobs'[d].entry = e /\ k \in jobs'[d].keys
    BY <1>3 DEF Written
  <2> QED BY <1>1, <2>1, <2>2, <2>3 DEF KeyOK
<1> QED BY <1>2, <1>3, KeysGoOn, DeviceWorks DEF Written

\* The entry that is put in its place is what the row makes it.
LEMMA KeysInserted ==
  ASSUME Basics, Alone, KeysOK, NEW d \in Devices, InsertScore(d)
  PROVE  KeysOK'
<1>1. PICK e \in Entry : e = jobs[d].entry
  BY ScoreInserted
<1>2. PICK cfg \in Config : cfg = jobs[d].cfg
  BY ScoreInserted
<1>3. /\ jobs[d].step = "insert" /\ jobs[d].keys = {e.key} /\ Ends(d) /\ rows' = rows
      /\ \E table \in Inserted(e, cfg) :
           sorted' = table.sorted /\ lookup' = table.lookup
  BY <1>1, <1>2, ScoreInserted
<1>4. PICK table \in Inserted(e, cfg) : sorted' = table.sorted
  BY <1>3
<1>5. \A i \in DOMAIN sorted' :
        \/ sorted'[i] = e
        \/ \E m \in DOMAIN sorted : sorted[m] = sorted'[i] /\ sorted[m].key # e.key
  <2>1. CacheOK
    BY DEF Basics
  <2>2. \A i \in DOMAIN table.sorted :
          \/ table.sorted[i] = e
          \/ \E m \in DOMAIN sorted :
               sorted[m] = table.sorted[i] /\ sorted[m].key # e.key
    BY <2>1, InsertedTable
  <2> QED BY <1>4, <2>2
<1>6. ASSUME NEW k \in Keys, k \notin jobs[d].keys
      PROVE  Kept(k)
  <2>1. k # e.key
    BY <1>3, <1>6
  <2> QED BY <1>3, <1>5, <2>1 DEF Kept
<1>7. ASSUME NEW k \in Keys, k \in jobs[d].keys, KeyOK(k, jobs[d])
      PROVE  ShownAsStored(k)'
  <2>1. k = e.key
    BY <1>3, <1>7
  <2>2. e.data = 0
    <3>1. JobOK(jobs[d])
      BY DeviceWorks DEF Basics
    <3> QED BY <1>1, <1>3, <3>1 DEF JobOK
  <2>3. rows[k] # NoRow /\ Stored(k) = e
    BY <1>1, <1>3, <1>7, <2>2, RowEntry DEF KeyOK
  <2>4. rows'[k] # NoRow /\ Stored(k)' = e
    BY <1>3, <2>3 DEF Stored
  <2>5. \A i \in DOMAIN sorted' : sorted'[i].key = k => sorted'[i] = e
    BY <1>5, <2>1
  <2> QED BY <2>4, <2>5 DEF ShownAsStored
<1>8. jobs'[d].keys = {} /\ GoesOn(d)
  BY <1>3, IdleJob DEF Ends
<1> QED BY <1>6, <1>7, <1>8, KeysGoOn, DeviceWorks

\* The entry in hand is the one shown, with data.
LEMMA KeysUploaded ==
  ASSUME Basics, Alone, KeysOK, NEW d \in Devices, NEW k \in Keys, CmdRecordScoreData(d, k)
  PROVE  KeysOK'
<1>1. PICK shown \in Entry : shown = sorted[lookup[k]]
  BY DataBegins
<1>2. /\ Begins(d) /\ jobs'[d].step = "attach" /\ jobs'[d].keys = {k}
      /\ lookup[k] \in DOMAIN sorted
      /\ shown.key = k /\ shown.data = 0
      /\ jobs'[d].entry = [shown EXCEPT !.data = nextFile]
      /\ UNCHANGED <<rows, sorted>>
  BY <1>1, DataBegins
<1>3. Alone'
  BY <1>2, AloneBegins, DeviceWorks
<1>4. /\ jobs[d].keys = {} /\ disturbed \subseteq disturbed'
      /\ \A v \in Workers \ {d} : jobs'[v] = jobs[v]
  BY <1>2, IdleJob DEF Begins
<1>5. \A j \in Keys : Kept(j)
  BY <1>2 DEF Kept
<1>6. ASSUME k \notin disturbed'
      PROVE  KeyOK(k, jobs[d])'
  <2>1. \A v \in Workers : k \notin jobs[v].keys
    BY <1>2, <1>4, <1>6 DEF Begins
  <2>2. ShownAsStored(k)
    BY <1>4, <1>6, <2>1 DEF KeysOK
  <2>3. rows[k] # NoRow /\ shown = Stored(k)
    BY <1>1, <1>2, <2>2 DEF ShownAsStored
  <2>4. NoData([shown EXCEPT !.data = nextFile]) = shown
    BY <1>2 DEF Entry, NoData
  <2>5. ShownAsStored(k)' /\ Stored(k)' = shown /\ rows'[k] # NoRow
    BY <1>2, <1>5, <2>2, <2>3, KeptShown DEF Stored
  <2>6. NoData(jobs'[d].entry) = shown
    BY <1>2, <2>4
  <2> QED BY <1>2, <2>5, <2>6 DEF KeyOK
<1>7. \A j \in Keys : j \in jobs'[d].keys => j = k
  BY <1>2
<1> QED BY <1>3, <1>4, <1>5, <1>6, <1>7, KeysFrame, DeviceWorks

\* The entry shown has the data in hand.
LEMMA KeysAttached ==
  ASSUME Basics, Alone, KeysOK, NEW d \in Devices, SetGameData(d)
  PROVE  KeysOK'
<1>1. PICK e \in Entry : e = jobs[d].entry
  BY DataSet
<1>2. /\ jobs[d].step = "attach" /\ jobs[d].keys = {e.key}
      /\ Attached(d) \/ Unattached(d)
      /\ UNCHANGED <<rows, lookup>>
  BY <1>1, DataSet
<1>3. CacheOK /\ sorted \in Seq(Entry) /\ OneEach(sorted) /\ e.key \in Keys
  BY ExactHasOneEach DEF Basics, CacheOK, Entry
<1>4. CASE Unattached(d)
  <2>1. /\ GoesOn(d) /\ jobs'[d].keys = {} /\ lookup[e.key] = 0 /\ sorted' = sorted
    BY <1>1, <1>4, IdleJob DEF Unattached, Ends
  <2>2. \A i \in DOMAIN sorted : sorted[i].key # e.key
    <3>1. \A i \in DOMAIN sorted : i # 0
      BY <1>3, TableTypes
    <3> QED BY <1>3, <2>1, <3>1 DEF CacheOK, Exact
  <2>3. \A k \in Keys : Kept(k)
    BY <1>2, <2>1 DEF Kept
  <2>4. \A k \in jobs[d].keys : ShownAsStored(k)'
    BY <1>2, <2>1, <2>2 DEF ShownAsStored
  <2> QED BY <2>1, <2>3, <2>4, KeysGoOn, DeviceWorks
<1>5. CASE Attached(d)
  <2>1. PICK at : at = lookup[e.key]
    OBVIOUS
  <2>2. PICK f \in 0 .. MaxFiles : f = e.data
    BY DEF Entry
  <2>3. /\ Moves(d, "link") /\ at \in DOMAIN sorted
        /\ sorted' = [sorted EXCEPT ![at].data = f]
    BY <1>1, <1>5, <2>1, <2>2 DEF Attached
  <2>4. PICK t : t = [sorted EXCEPT ![at].data = f]
    OBVIOUS
  <2>5. /\ t \in Seq(Entry) /\ DOMAIN t = DOMAIN sorted
        /\ t[at] = [sorted[at] EXCEPT !.data = f]
        /\ \A j \in DOMAIN sorted \ {at} : t[j] = sorted[j]
        /\ \A j \in DOMAIN sorted : t[j].key = sorted[j].key
    BY <1>3, <2>3, <2>4, DataTable
  <2>6. sorted' = t
    BY <2>3, <2>4
  <2>7. sorted[at].key = e.key
    BY <1>3, <2>1, <2>3, TableTypes DEF CacheOK, Exact
  <2>8. ASSUME NEW k \in Keys, k \notin jobs[d].keys
        PROVE  Kept(k)
    BY <1>2, <2>5, <2>6, <2>7, <2>8 DEF Kept
  <2>9. ASSUME NEW k \in Keys, k \in jobs[d].keys, KeyOK(k, jobs[d])
        PROVE  k \in jobs'[d].keys /\ KeyOK(k, jobs[d])'
    <3>1. k = e.key /\ k \in jobs'[d].keys
      BY <1>2, <2>3, <2>9 DEF Moves
    <3>2. rows[k] # NoRow /\ Stored(k) = NoData(e) /\ ShownAsStored(k)
      BY <1>1, <1>2, <2>9 DEF KeyOK
    <3>3. sorted[at] = NoData(e)
      BY <2>3, <2>7, <3>1, <3>2 DEF ShownAsStored
    <3>4. [NoData(e) EXCEPT !.data = f] = e
      BY <2>2 DEF Entry, NoData
    <3>5. \A i \in DOMAIN sorted' : sorted'[i].key = k => sorted'[i] = e
      BY <1>3, <2>3, <2>5, <2>6, <2>7, <3>1, <3>3, <3>4 DEF OneEach
    <3>6. rows'[k] # NoRow /\ Stored(k)' = NoData(e)
      BY <1>2, <3>2 DEF Stored
    <3>7. jobs'[d].step = "link" /\ jobs'[d].entry = e
      BY <1>1, <2>3 DEF Moves
    <3> QED BY <3>1, <3>5, <3>6, <3>7 DEF KeyOK
  <2> QED BY <2>3, <2>8, <2>9, KeysGoOn, DeviceWorks DEF Moves
<1> QED BY <1>2, <1>4, <1>5

\* What a link writes: the data, to the row the entry was recorded as.
LEMMA KeysLinked ==
  ASSUME Basics, Alone, KeysOK, NEW d \in Devices, SetScoreDataId(d)
  PROVE  /\ KeysOK'
         /\ \A k \in Keys \ disturbed : rows'[k] # rows[k] => rows[k].data = 0
<1>1. PICK e \in Entry : e = jobs[d].entry
  BY DataLinked
<1>2. /\ jobs[d].step = "link" /\ jobs[d].keys = {e.key} /\ Ends(d)
      /\ rows' = IF rows[e.key] # NoRow /\ rows[e.key].score = e.score
                 THEN [rows EXCEPT ![e.key].data = e.data] ELSE rows
      /\ sorted' = sorted
  BY <1>1, DataLinked
<1>3. rows \in [Keys -> Row \cup {NoRow}] /\ e.key \in Keys
  BY EntryRow DEF Basics, RowsOK
<1>4. ASSUME NEW k \in Keys, k \notin jobs[d].keys
      PROVE  Kept(k) /\ rows'[k] = rows[k]
  BY <1>2, <1>3, <1>4 DEF Kept
<1>5. ASSUME NEW k \in Keys, k \in jobs[d].keys, KeyOK(k, jobs[d])
      PROVE  ShownAsStored(k)' /\ rows[k].data = 0
  <2>1. k = e.key
    BY <1>2, <1>5
  <2>2. /\ rows[k] # NoRow /\ Stored(k) = NoData(e)
        /\ \A i \in DOMAIN sorted : sorted[i].key = k => sorted[i] = e
    BY <1>1, <1>2, <1>5 DEF KeyOK
  <2>3. PICK r \in Row : r = rows[k]
    BY <1>3, <2>1, <2>2
  <2>4. r.score = e.score /\ r.time = e.time /\ r.data = 0
    BY <2>2, <2>3 DEF Stored, NoData, Entry
  <2>5. rows'[k] = [r EXCEPT !.data = e.data]
    BY <1>2, <1>3, <2>1, <2>2, <2>3, <2>4
  <2>6. /\ rows'[k] \in Row
        /\ rows'[k].score = e.score /\ rows'[k].time = e.time /\ rows'[k].data = e.data
    BY <2>4, <2>5 DEF Row, Entry
  <2>7. Stored(k)' = e
    BY <2>1, <2>6, RowEntry DEF Stored
  <2>8. rows'[k] # NoRow
    <3>1. rows'[k] = RowOf(e)
      BY <2>6 DEF Row, RowOf
    <3> QED BY <3>1, EntryRow
  <2> QED BY <1>2, <2>2, <2>3, <2>4, <2>7, <2>8 DEF ShownAsStored
<1>6. jobs'[d].keys = {} /\ GoesOn(d)
  BY <1>2, IdleJob DEF Ends
<1>7. KeysOK'
  BY <1>4, <1>5, <1>6, KeysGoOn, DeviceWorks
<1>8. \A k \in Keys \ disturbed : rows'[k] # rows[k] => rows[k].data = 0
  BY <1>4, <1>5, DeviceWorks DEF KeysOK
<1> QED BY <1>7, <1>8

\* Rows that are told to go are gone.
LEMMA KeysDeleted ==
  ASSUME Basics, Alone, KeysOK, NEW w \in Workers, DeleteRows(w)
  PROVE  KeysOK'
<1>1. /\ jobs[w].step \in {"delete", "purge"}
      /\ Ends(w) \/ Moves(w, "unlink")
      /\ Ends(w) => jobs[w].keys \cap StoredKeys = {}
      /\ rows' = [k \in Keys |-> IF k \in jobs[w].keys THEN NoRow ELSE rows[k]]
      /\ sorted' = sorted
  BY RowsDeleted
<1>2. \A k \in Keys : k \notin jobs[w].keys => Kept(k)
  BY <1>1 DEF Kept
<1>3. ASSUME NEW k \in Keys, k \in jobs[w].keys, KeyOK(k, jobs[w])
      PROVE  IF k \in jobs'[w].keys THEN KeyOK(k, jobs[w])' ELSE ShownAsStored(k)'
  <2>1. rows'[k] = NoRow
    BY <1>1, <1>3
  <2>2. CASE Ends(w)
    <3>1. rows[k] = NoRow /\ ShownAsStored(k)
      BY <1>1, <1>3, <2>2 DEF KeyOK, StoredKeys
    <3>2. k \notin jobs'[w].keys
      BY <2>2, IdleJob DEF Ends
    <3> QED BY <1>1, <3>1, <3>2 DEF ShownAsStored
  <2>3. CASE Moves(w, "unlink")
    <3>1. jobs'[w].step = "unlink" /\ k \in jobs'[w].keys
      BY <1>3, <2>3 DEF Moves
    <3> QED BY <2>1, <3>1 DEF KeyOK
  <2> QED BY <1>1, <2>2, <2>3
<1>4. GoesOn(w)
  BY <1>1 DEF Ends, Moves
<1> QED BY <1>2, <1>3, <1>4, KeysGoOn

\* Entries of rows that are gone go too.
LEMMA KeysEvicted ==
  ASSUME Basics, Alone, KeysOK, NEW w \in Workers, RemoveEntries(w)
  PROVE  KeysOK'
<1>1. PICK keys : keys = jobs[w].keys
  OBVIOUS
<1>2. Ends(w) /\ sorted' \in Others(sorted, keys) /\ rows' = rows
  BY <1>1, EntriesRemoved
<1>3. PICK t \in Others(sorted, keys) : t = sorted'
  BY <1>2
<1>4. \E at \in [DOMAIN t -> DOMAIN sorted] :
        \A i \in DOMAIN t : t[i] = sorted[at[i]] /\ sorted[at[i]].key \notin keys
  <2>1. sorted \in Seq(Entry) /\ OneEach(sorted)
    BY ExactHasOneEach DEF Basics, CacheOK
  <2> QED BY <2>1, OthersTable
<1>5. \A i \in DOMAIN t :
        /\ t[i].key \notin keys
        /\ \E m \in DOMAIN sorted : sorted[m] = t[i]
  BY <1>4
<1>6. \A k \in Keys : k \notin jobs[w].keys => Kept(k)
  BY <1>2, <1>3, <1>5 DEF Kept
<1>7. \A k \in jobs[w].keys : ShownAsStored(k)'
  BY <1>1, <1>3, <1>5 DEF ShownAsStored
<1>8. GoesOn(w) /\ jobs'[w].keys = {}
  BY <1>2, IdleJob DEF Ends
<1> QED BY <1>6, <1>7, <1>8, KeysGoOn

\* What is loaded is as it is stored.
LEMMA LoadedShown ==
  ASSUME RowsOK, NEW cfg \in Config, NEW s \in ScoresForBoard(cfg), NEW k \in Keys
  PROVE  \A i \in DOMAIN s : s[i].key = k => rows[k] # NoRow /\ s[i] = Stored(k)
BY ScoresTable DEF StoredKeys

\* Every step keeps every key that one thread works on in step with its entry.
LEMMA KeysStep ==
  ASSUME SInv, Alone, KeysOK, [Next]_vars
  PROVE  Alone' /\ KeysOK'
<1>0. Basics /\ BoardThere
  BY DEF SInv
<1>1. ASSUME NEW d \in Devices, NEW k \in Keys, CmdRecordScore(d, k)
      PROVE  Alone' /\ KeysOK'
  <2>1. Begins(d) /\ UNCHANGED <<rows, sorted>> /\ jobs'[d].step \in {"create", "record"}
    BY <1>0, <1>1, RecordBegins
  <2> QED BY <2>1, KeysBegin, AloneBegins, DeviceWorks
<1>2. ASSUME NEW d \in Devices, NEW k \in Keys, CmdRecordScoreData(d, k)
      PROVE  Alone' /\ KeysOK'
  <2>1. Begins(d)
    BY <1>0, <1>2, DataBegins
  <2> QED BY <1>0, <1>2, <2>1, KeysUploaded, AloneBegins, DeviceWorks
<1>3. ASSUME NEW d \in Devices, CreateBoard(d)
      PROVE  Alone' /\ KeysOK'
  <2>1. jobs[d].step = "create" /\ Moves(d, "board") /\ UNCHANGED <<rows, sorted>>
    BY <1>0, <1>3, BoardCreated
  <2>2. \A k \in Keys : Kept(k)
    BY <2>1 DEF Kept
  <2>3. ASSUME NEW k \in Keys, k \in jobs[d].keys, KeyOK(k, jobs[d])
        PROVE  k \in jobs'[d].keys /\ KeyOK(k, jobs[d])'
    BY <2>1, <2>3 DEF Moves, KeyOK, ShownAsStored, Stored
  <2> QED BY <2>1, <2>2, <2>3, KeysGoOn, AloneGoesOn, DeviceWorks DEF Moves
<1>4. ASSUME NEW d \in Devices, GetCreatedBoard(d)
      PROVE  Alone' /\ KeysOK'
  <2>1. board # NoBoard
    BY <1>0, <1>4, DeviceWorks DEF BoardThere, GetCreatedBoard, At
  <2>2. /\ jobs[d].step = "board" /\ GoesOn(d) /\ jobs'[d].step = "record"
        /\ jobs'[d].keys = jobs[d].keys /\ UNCHANGED <<rows, sorted>>
    BY <1>0, <1>4, <2>1, CreatedBoardRead
  <2>3. \A k \in Keys : Kept(k)
    BY <2>2 DEF Kept
  <2>4. ASSUME NEW k \in Keys, k \in jobs[d].keys, KeyOK(k, jobs[d])
        PROVE  k \in jobs'[d].keys /\ KeyOK(k, jobs[d])'
    BY <2>2, <2>4 DEF KeyOK, ShownAsStored, Stored
  <2> QED BY <2>2, <2>3, <2>4, KeysGoOn, AloneGoesOn, DeviceWorks
<1>5. ASSUME NEW d \in Devices, RecordScore(d)
      PROVE  Alone' /\ KeysOK'
  <2>1. /\ jobs[d].step = "record" /\ sorted' = sorted
        /\ Refused(d) \/ \E e \in Entry : Written(d, e)
    BY <1>0, <1>5, ScoreRecorded
  <2>2. CASE Refused(d)
    <3>1. GoesOn(d) /\ jobs'[d].keys = {} /\ rows' = rows
      BY <2>2, IdleJob DEF Refused, Ends
    <3>2. \A k \in Keys : Kept(k)
      BY <2>1, <3>1 DEF Kept
    <3>3. \A k \in Keys : KeyOK(k, jobs[d]) => ShownAsStored(k)'
      BY <2>1, <3>2, KeptShown DEF KeyOK
    <3> QED BY <3>1, <3>2, <3>3, KeysGoOn, AloneGoesOn, DeviceWorks
  <2>3. ASSUME NEW e \in Entry, Written(d, e)
        PROVE  Alone' /\ KeysOK'
    BY <1>0, <2>1, <2>3, KeysRecorded, AloneGoesOn, DeviceWorks DEF Written
  <2> QED BY <2>1, <2>2, <2>3
<1>6. ASSUME NEW d \in Devices, InsertScore(d)
      PROVE  Alone' /\ KeysOK'
  <2>1. GoesOn(d)
    BY <1>0, <1>6, ScoreInserted DEF Ends
  <2> QED BY <1>0, <1>6, <2>1, KeysInserted, AloneGoesOn, DeviceWorks
<1>7. ASSUME NEW d \in Devices, SetGameData(d)
      PROVE  Alone' /\ KeysOK'
  <2>1. GoesOn(d)
    BY <1>0, <1>7, DataSet DEF Attached, Unattached, Ends, Moves
  <2> QED BY <1>0, <1>7, <2>1, KeysAttached, AloneGoesOn, DeviceWorks
<1>8. ASSUME NEW d \in Devices, SetScoreDataId(d)
      PROVE  Alone' /\ KeysOK'
  <2>1. GoesOn(d)
    BY <1>0, <1>8, DataLinked DEF Ends
  <2> QED BY <1>0, <1>8, <2>1, KeysLinked, AloneGoesOn, DeviceWorks
<1>9. ASSUME NEW k \in Keys, DeleteScore(k)
      PROVE  Alone' /\ KeysOK'
  <2>1. PICK w \in Workers : w = "admin"
    BY DEF Workers
  <2>2. Begins(w) /\ jobs'[w].step = "delete" /\ UNCHANGED <<rows, sorted>>
    BY <1>0, <1>9, <2>1, DeletionBegins DEF Removal
  <2> QED BY <2>2, KeysBegin, AloneBegins
<1>10. ASSUME NEW w \in Workers, NEW k \in Keys, DeleteAccount(w, k[1])
       PROVE  Alone' /\ KeysOK'
  <2>1. Begins(w) /\ jobs'[w].step = "purge" /\ UNCHANGED <<rows, sorted>>
    BY <1>0, <1>10, PurgeBegins DEF Removal
  <2> QED BY <2>1, KeysBegin, AloneBegins
<1>11. ASSUME NEW w \in Workers, DeleteRows(w)
       PROVE  Alone' /\ KeysOK'
  <2>1. GoesOn(w)
    BY <1>0, <1>11, RowsDeleted DEF Ends, Moves
  <2> QED BY <1>0, <1>11, <2>1, KeysDeleted, AloneGoesOn
<1>12. ASSUME NEW w \in Workers, RemoveFiles(w)
       PROVE  Alone' /\ KeysOK'
  <2>1. jobs[w].step = "unlink" /\ Moves(w, "evict") /\ UNCHANGED <<rows, sorted>>
    BY <1>0, <1>12, FilesRemoved
  <2>2. \A k \in Keys : Kept(k)
    BY <2>1 DEF Kept
  <2>3. ASSUME NEW k \in Keys, k \in jobs[w].keys, KeyOK(k, jobs[w])
        PROVE  k \in jobs'[w].keys /\ KeyOK(k, jobs[w])'
    BY <2>1, <2>3 DEF Moves, KeyOK
  <2> QED BY <2>1, <2>2, <2>3, KeysGoOn, AloneGoesOn DEF Moves
<1>13. ASSUME NEW w \in Workers, RemoveEntries(w)
       PROVE  Alone' /\ KeysOK'
  <2>1. GoesOn(w)
    BY <1>0, <1>13, EntriesRemoved DEF Ends
  <2> QED BY <1>0, <1>13, <2>1, KeysEvicted, AloneGoesOn
<1>14. ASSUME NEW cfg \in Configs, SetBoard(cfg)
       PROVE  Alone' /\ KeysOK'
  <2>1. /\ Begins("service") /\ jobs'["service"].step = "read"
        /\ UNCHANGED <<rows, sorted>>
    BY <1>0, <1>14, SettingsBegin
  <2> QED BY <2>1, KeysBegin, AloneBegins, ServiceWorks
<1>15. CASE ReadScores
  <2>1. PICK w \in Workers : w = "service"
    BY ServiceWorks
  <2>2. PICK cfg \in Config : cfg = jobs[w].cfg
    BY <1>0, <1>15, <2>1, ScoresRead
  <2>3. /\ jobs[w].step = "read" /\ GoesOn(w) /\ jobs'[w].step = "load"
        /\ jobs'[w].keys = jobs[w].keys
        /\ jobs'[w].loaded \in ScoresForBoard(cfg)
        /\ UNCHANGED <<rows, sorted>>
    BY <1>0, <1>15, <2>1, <2>2, ScoresRead
  <2>4. \A k \in Keys : Kept(k)
    BY <2>3 DEF Kept
  <2>5. ASSUME NEW k \in Keys, k \in jobs[w].keys
        PROVE  k \in jobs'[w].keys /\ KeyOK(k, jobs[w])'
    <3>1. PICK s \in ScoresForBoard(cfg) : s = jobs'[w].loaded
      BY <2>3
    <3>2. \A i \in DOMAIN s : s[i].key = k => rows[k] # NoRow /\ s[i] = Stored(k)
      BY <1>0, LoadedShown DEF Basics
    <3> QED BY <2>3, <2>5, <3>1, <3>2 DEF KeyOK, Stored
  <2> QED BY <2>3, <2>4, <2>5, KeysGoOn, AloneGoesOn
<1>16. CASE LoadTable
  <2>1. PICK w \in Workers : w = "service"
    BY ServiceWorks
  <2>2. /\ jobs[w].step = "load" /\ Ends(w)
        /\ sorted' = jobs[w].loaded /\ rows' = rows
    BY <1>0, <1>16, <2>1, TableLoaded
  <2>3. jobs[w].keys = Keys
    <3>1. JobOK(jobs[w])
      BY <1>0 DEF Basics
    <3> QED BY <2>2, <3>1 DEF JobOK
  <2>4. ASSUME NEW k \in Keys, KeyOK(k, jobs[w])
        PROVE  ShownAsStored(k)'
    BY <2>2, <2>4 DEF KeyOK, ShownAsStored, Stored
  <2>5. GoesOn(w) /\ jobs'[w].keys = {}
    BY <2>2, IdleJob DEF Ends
  <2> QED BY <2>3, <2>4, <2>5, KeysGoOn, AloneGoesOn
<1>17. CASE Restart
  <2>1. /\ \A w \in Workers : jobs'[w] = Idle
        /\ board' \in Configs \cup {board}
        /\ IF board' = NoBoard THEN sorted' = <<>> ELSE sorted' \in ScoresForBoard(board')
        /\ rows' = rows
    BY <1>0, <1>17, Restarted
  <2>2. \A w \in Workers : jobs'[w].keys = {}
    BY <2>1, IdleJob
  <2>3. ASSUME NEW k \in Keys
        PROVE  ShownAsStored(k)'
    <3>1. CASE board' = NoBoard
      <4>1. DOMAIN sorted' = {}
        BY <2>1, <3>1
      <4> QED BY <4>1 DEF ShownAsStored
    <3>2. CASE board' # NoBoard
      <4>1. PICK cfg \in Config : cfg = board'
        BY <1>0, <2>1, <3>2, ScoreConstants DEF Basics
      <4>2. PICK s \in ScoresForBoard(cfg) : s = sorted'
        BY <2>1, <3>2, <4>1
      <4>3. \A i \in DOMAIN s : s[i].key = k => rows[k] # NoRow /\ s[i] = Stored(k)
        BY <1>0, LoadedShown DEF Basics
      <4> QED BY <2>1, <4>2, <4>3 DEF ShownAsStored, Stored
    <3> QED BY <3>1, <3>2
  <2> QED BY <2>2, <2>3 DEF Alone, KeysOK
<1>18. CASE UNCHANGED vars
  BY <1>18 DEF vars, Alone, KeysOK, KeyOK, ShownAsStored, Stored
<1> QED BY <1>1, <1>2, <1>3, <1>4, <1>5, <1>6, <1>7, <1>8, <1>9, <1>10, <1>11, <1>12,
           <1>13, <1>14, <1>15, <1>16, <1>17, <1>18 DEF Next

-----------------------------------------------------------------------------
(* Data stays with its score. *)

\* A step that disturbs nothing leaves a row's data as it is or clears it.
LEMMA DataStays ==
  ASSUME SInv, Alone, KeysOK, Next, NEW k \in Keys \ disturbed,
         rows[k] # NoRow, rows[k].data # 0, rows'[k] # NoRow
  PROVE  rows'[k].data \in {0, rows[k].data}
<1>0. Basics /\ BoardThere
  BY DEF SInv
<1> SUFFICES rows'[k] = rows[k] \/ rows'[k].data = 0 \/ rows'[k] = NoRow
  OBVIOUS
<1>1. ASSUME NEW d \in Devices, NEW j \in Keys, CmdRecordScore(d, j)
      PROVE  rows'[k] = rows[k]
  BY <1>0, <1>1, RecordBegins
<1>2. ASSUME NEW d \in Devices, NEW j \in Keys, CmdRecordScoreData(d, j)
      PROVE  rows'[k] = rows[k]
  BY <1>0, <1>2, DataBegins
<1>3. ASSUME NEW d \in Devices, CreateBoard(d)
      PROVE  rows'[k] = rows[k]
  BY <1>0, <1>3, BoardCreated
<1>4. ASSUME NEW d \in Devices, GetCreatedBoard(d)
      PROVE  rows'[k] = rows[k]
  BY <1>4 DEF GetCreatedBoard, database
<1>5. ASSUME NEW d \in Devices, RecordScore(d)
      PROVE  rows'[k] = rows[k] \/ rows'[k].data = 0
  <2>1. Refused(d) \/ \E e \in Entry : Written(d, e)
    BY <1>0, <1>5, ScoreRecorded
  <2>2. CASE Refused(d)
    BY <2>2 DEF Refused
  <2>3. ASSUME NEW e \in Entry, Written(d, e)
        PROVE  rows'[k] = rows[k] \/ rows'[k].data = 0
    <3>1. rows \in [Keys -> Row \cup {NoRow}]
      BY <1>0 DEF Basics, RowsOK
    <3> QED BY <2>3, <3>1 DEF Written, RowOf
  <2> QED BY <2>1, <2>2, <2>3
<1>6. ASSUME NEW d \in Devices, InsertScore(d)
      PROVE  rows'[k] = rows[k]
  BY <1>0, <1>6, ScoreInserted
<1>7. ASSUME NEW d \in Devices, SetGameData(d)
      PROVE  rows'[k] = rows[k]
  BY <1>0, <1>7, DataSet
<1>8. ASSUME NEW d \in Devices, SetScoreDataId(d)
      PROVE  rows'[k] = rows[k]
  BY <1>0, <1>8, KeysLinked
<1>9. ASSUME NEW j \in Keys, DeleteScore(j)
      PROVE  rows'[k] = rows[k]
  BY <1>0, <1>9, DeletionBegins
<1>10. ASSUME NEW w \in Workers, NEW j \in Keys, DeleteAccount(w, j[1])
       PROVE  rows'[k] = rows[k]
  BY <1>0, <1>10, PurgeBegins
<1>11. ASSUME NEW w \in Workers, DeleteRows(w)
       PROVE  rows'[k] = rows[k] \/ rows'[k] = NoRow
  BY <1>0, <1>11, RowsDeleted
<1>12. ASSUME NEW w \in Workers, RemoveFiles(w)
       PROVE  rows'[k] = rows[k]
  BY <1>0, <1>12, FilesRemoved
<1>13. ASSUME NEW w \in Workers, RemoveEntries(w)
       PROVE  rows'[k] = rows[k]
  BY <1>0, <1>13, EntriesRemoved
<1>14. ASSUME NEW cfg \in Configs, SetBoard(cfg)
       PROVE  rows'[k] = rows[k]
  BY <1>0, <1>14, SettingsBegin
<1>15. CASE ReadScores
  BY <1>0, <1>15, ScoresRead
<1>16. CASE LoadTable
  BY <1>0, <1>16, TableLoaded
<1>17. CASE Restart
  BY <1>0, <1>17, Restarted
<1> QED BY <1>1, <1>2, <1>3, <1>4, <1>5, <1>6, <1>7, <1>8, <1>9, <1>10, <1>11, <1>12,
           <1>13, <1>14, <1>15, <1>16, <1>17 DEF Next

-----------------------------------------------------------------------------
ScoreInv == SInv /\ FilesOK /\ Alone /\ KeysOK

\* The invariant holds at the start.
LEMMA ScoreInvInit ==
  ASSUME Init
  PROVE  ScoreInv
<1>1. SInv
  BY SInvInit
<1>2. /\ \A w \in Workers : jobs[w].step = "idle" /\ jobs[w].keys = {}
      /\ StoredKeys = {} /\ files = {} /\ DOMAIN sorted = {}
  BY IdleJob DEF Init, StoredKeys
<1>3. FilesOK
  BY <1>2 DEF FilesOK, DataIdsSound, Carrying, Dooming
<1>4. Alone /\ KeysOK
  BY <1>2 DEF Alone, KeysOK, ShownAsStored
<1> QED BY <1>1, <1>3, <1>4 DEF ScoreInv

\* Every step keeps it.
LEMMA ScoreInvStep ==
  ASSUME ScoreInv, [Next]_vars
  PROVE  ScoreInv'
BY SInvStep, FilesStep, KeysStep DEF ScoreInv

\* So it always holds.
LEMMA ScoreInvAlways == Spec => []ScoreInv
<1>1. Init => ScoreInv
  BY ScoreInvInit
<1>2. ScoreInv /\ [Next]_vars => ScoreInv'
  BY ScoreInvStep
<1> QED BY <1>1, <1>2, PTL DEF Spec

\* Every variable keeps its type and no position in the index is past the end of
\* the table, for any number of devices, rows and threads (ScoreCache's vector
\* and map).
THEOREM ScoreTypes == Spec => []TypeOK
<1>1. ScoreInv => TypeOK
  BY BasicsTyped DEF ScoreInv, SInv
<1> QED BY <1>1, ScoreInvAlways, PTL

\* A key no two threads have worked on at once is shown with the row the database
\* has, or not at all (CmdRecordScore, SetGameData, RemoveEntry, RemoveUser).
THEOREM CacheAlwaysFollowsTable == Spec => []CacheFollowsTable
<1>1. ASSUME ScoreInv
      PROVE  CacheFollowsTable
  <2>1. ASSUME NEW k \in Keys, Quiet(k), lookup[k] # 0
        PROVE  rows[k] # NoRow /\ sorted[lookup[k]] = Stored(k)
    <3>1. lookup[k] \in DOMAIN sorted /\ sorted[lookup[k]].key = k
      BY <1>1, <2>1 DEF ScoreInv, SInv, Basics, CacheOK, Exact
    <3>2. ShownAsStored(k)
      BY <1>1, <2>1 DEF ScoreInv, KeysOK, Quiet
    <3> QED BY <3>1, <3>2 DEF ShownAsStored
  <2> QED BY <2>1 DEF CacheFollowsTable
<1> QED BY <1>1, ScoreInvAlways, PTL

\* The index and the entries say the same, a row's data file is on disk and no
\* other row's, and data attached to a score stays until the score is replaced or
\* deleted, whatever threads, administrators and restarts do to it.
THEOREM ScoresAndDataAlwaysSound == Spec => ScoresAndDataSound
<1>1. ScoreInv => LookupExact /\ DataIdsSound
  BY BasicsTyped DEF ScoreInv, SInv, FilesOK
<1>2. ASSUME ScoreInv, [Next]_vars
      PROVE  [\A k \in Keys \ (disturbed \cup disturbed') :
                rows[k] # NoRow /\ rows[k].data # 0 /\ rows'[k] # NoRow
                  => rows'[k].data \in {0, rows[k].data}]_vars
  <2>1. CASE Next
    BY <1>2, <2>1, DataStays DEF ScoreInv
  <2>2. CASE UNCHANGED vars
    BY <2>2
  <2> QED BY <1>2, <2>1, <2>2
<1>3. Spec => DataAttachedOnce
  <2>1. Spec => [][Next]_vars
    BY DEF Spec
  <2> QED BY <1>2, <2>1, ScoreInvAlways, PTL DEF DataAttachedOnce
<1> QED BY <1>1, <1>3, ScoreInvAlways, PTL DEF ScoresAndDataSound

-----------------------------------------------------------------------------
(* The order of a board: RanksBefore is a strict weak order of entries. *)

\* What an entry is ranked by are numbers.
LEMMA EntryNumbers ==
  ASSUME NEW e \in Entry
  PROVE  e.score \in Int /\ e.time \in Nat /\ e.key \in Keys /\ e.key[1] \in Nat
<1>1. e.score \in Scores /\ e.time \in 0 .. MaxTime /\ e.key \in Keys
  BY DEF Entry
<1>2. e.score \in Int
  BY <1>1, ScoreConstants
<1>5. e.time \in Nat
  BY <1>1
<1>3. e.key \in Nat \X Nat
  BY <1>1, ScoreConstants
<1>4. e.key[1] \in Nat
  BY <1>3
<1> QED BY <1>1, <1>2, <1>4, <1>5

\* Ranking before is a strict order, and its negation is transitive.
LEMMA RankOrder ==
  ASSUME NEW a \in Entry, NEW b \in Entry, NEW c \in Entry, NEW ascending \in BOOLEAN
  PROVE  /\ ~RanksBefore(a, a, ascending)
         /\ RanksBefore(a, b, ascending) => ~RanksBefore(b, a, ascending)
         /\ RanksBefore(a, b, ascending) /\ RanksBefore(b, c, ascending)
              => RanksBefore(a, c, ascending)
         /\ ~RanksBefore(a, b, ascending) /\ ~RanksBefore(b, c, ascending)
              => ~RanksBefore(a, c, ascending)
<1>1. PICK as \in Int : as = a.score
  BY EntryNumbers
<1>2. PICK bs \in Int : bs = b.score
  BY EntryNumbers
<1>3. PICK cs \in Int : cs = c.score
  BY EntryNumbers
<1>4. PICK at \in Nat : at = a.time
  BY EntryNumbers
<1>5. PICK bt \in Nat : bt = b.time
  BY EntryNumbers
<1>6. PICK ct \in Nat : ct = c.time
  BY EntryNumbers
<1>7. PICK ak \in Nat : ak = a.key[1]
  BY EntryNumbers
<1>8. PICK bk \in Nat : bk = b.key[1]
  BY EntryNumbers
<1>9. PICK ck \in Nat : ck = c.key[1]
  BY EntryNumbers
<1> QED BY <1>1, <1>2, <1>3, <1>4, <1>5, <1>6, <1>7, <1>8, <1>9 DEF RanksBefore

\* Only key, score and date of an entry count.
SameRank(a, b) == a.key = b.key /\ a.score = b.score /\ a.time = b.time

\* Entries of the same rank rank before the same entries.
LEMMA SameRankBefore ==
  ASSUME NEW a, NEW b, NEW c, NEW d, NEW ascending, SameRank(a, b), SameRank(c, d)
  PROVE  RanksBefore(a, c, ascending) <=> RanksBefore(b, d, ascending)
BY DEF SameRank, RanksBefore

\* In a table that is in order, the entries above the place of e do not rank
\* after it, and those from there on not before it.
LEMMA PlaceOf ==
  ASSUME NEW q \in Seq(Entry), NEW e \in Entry, NEW ascending \in BOOLEAN,
         InOrder(q, ascending), NEW p \in LowerBounds(q, e, ascending)
  PROVE  /\ p \in 1 .. Len(q) + 1
         /\ \A i \in 1 .. Len(q) :
              IF i < p THEN ~RanksBefore(e, q[i], ascending)
              ELSE ~RanksBefore(q[i], e, ascending)
<1>1. Len(q) \in Nat /\ DOMAIN q = 1 .. Len(q) /\ \A i \in 1 .. Len(q) : q[i] \in Entry
  BY TableTypes
<1>2. /\ p \in 1 .. Len(q) + 1
      /\ p = 1 \/ RanksBefore(q[p - 1], e, ascending)
      /\ p = Len(q) + 1 \/ ~RanksBefore(q[p], e, ascending)
  BY DEF LowerBounds
<1>3. ASSUME NEW i \in 1 .. Len(q), i < p
      PROVE  ~RanksBefore(e, q[i], ascending)
  <2>1. p - 1 \in 1 .. Len(q) /\ i <= p - 1 /\ p # 1
    BY <1>1, <1>2, <1>3
  <2>2. PICK last \in Entry : last = q[p - 1]
    BY <1>1, <2>1
  <2>3. PICK x \in Entry : x = q[i]
    BY <1>1
  <2>4. RanksBefore(last, e, ascending)
    BY <1>2, <2>1, <2>2
  <2>5. ~RanksBefore(last, x, ascending)
    <3>1. CASE i = p - 1
      BY <2>2, <2>3, <3>1, RankOrder
    <3>2. CASE i # p - 1
      <4>1. i < p - 1 /\ i \in DOMAIN q /\ p - 1 \in DOMAIN q
        BY <1>1, <1>2, <2>1, <3>2
      <4> QED BY <2>2, <2>3, <4>1 DEF InOrder
    <3> QED BY <3>1, <3>2
  <2> QED BY <2>3, <2>4, <2>5, RankOrder
<1>4. ASSUME NEW i \in 1 .. Len(q), ~(i < p)
      PROVE  ~RanksBefore(q[i], e, ascending)
  <2>1. p \in 1 .. Len(q) /\ p <= i /\ p # Len(q) + 1
    BY <1>1, <1>2, <1>4
  <2>2. PICK next \in Entry : next = q[p]
    BY <1>1, <2>1
  <2>3. PICK x \in Entry : x = q[i]
    BY <1>1
  <2>4. ~RanksBefore(next, e, ascending)
    BY <1>2, <2>1, <2>2
  <2>5. ~RanksBefore(x, next, ascending)
    <3>1. CASE i = p
      BY <2>2, <2>3, <3>1, RankOrder
    <3>2. CASE i # p
      <4>1. p < i /\ i \in DOMAIN q /\ p \in DOMAIN q
        BY <1>1, <1>2, <2>1, <3>2
      <4> QED BY <2>2, <2>3, <4>1 DEF InOrder
    <3> QED BY <3>1, <3>2
  <2> QED BY <2>3, <2>4, <2>5, RankOrder
<1> QED BY <1>2, <1>3, <1>4

\* With e in its place the table is in order.
LEMMA PlacedInOrder ==
  ASSUME NEW q \in Seq(Entry), NEW e \in Entry, NEW ascending \in BOOLEAN,
         InOrder(q, ascending), NEW p \in LowerBounds(q, e, ascending),
         NEW s \in Seq(Entry), Len(s) <= Len(q) + 1,
         \A i \in DOMAIN s :
           s[i] = IF i < p THEN q[i] ELSE IF i = p THEN e ELSE q[i - 1]
  PROVE  InOrder(s, ascending)
<1>1. /\ Len(q) \in Nat /\ DOMAIN q = 1 .. Len(q)
      /\ Len(s) \in Nat /\ DOMAIN s = 1 .. Len(s)
  BY TableTypes
<1>2. /\ p \in 1 .. Len(q) + 1
      /\ \A i \in 1 .. Len(q) :
           IF i < p THEN ~RanksBefore(e, q[i], ascending)
           ELSE ~RanksBefore(q[i], e, ascending)
  BY PlaceOf
<1>3. ASSUME NEW i \in DOMAIN s, NEW j \in DOMAIN s, i < j
      PROVE  ~RanksBefore(s[j], s[i], ascending)
  <2>1. CASE j < p
    <3>1. s[i] = q[i] /\ s[j] = q[j]
      BY <1>1, <1>2, <1>3, <2>1
    <3>2. i \in DOMAIN q /\ j \in DOMAIN q
      BY <1>1, <1>2, <1>3, <2>1
    <3> QED BY <1>3, <3>1, <3>2 DEF InOrder
  <2>2. CASE j = p
    <3>1. s[i] = q[i] /\ s[j] = e
      BY <1>1, <1>2, <1>3, <2>2
    <3>2. i \in 1 .. Len(q) /\ i < p
      BY <1>1, <1>2, <1>3, <2>2
    <3> QED BY <1>2, <3>1, <3>2
  <2>3. CASE i = p
    <3>1. s[i] = e /\ s[j] = q[j - 1]
      BY <1>1, <1>2, <1>3, <2>3
    <3>2. j - 1 \in 1 .. Len(q) /\ ~(j - 1 < p)
      BY <1>1, <1>2, <1>3, <2>3
    <3> QED BY <1>2, <3>1, <3>2
  <2>4. CASE i < p /\ p < j
    <3>1. s[i] = q[i] /\ s[j] = q[j - 1]
      BY <1>1, <1>2, <1>3, <2>4
    <3>2. i \in DOMAIN q /\ j - 1 \in DOMAIN q /\ i < j - 1
      BY <1>1, <1>2, <1>3, <2>4
    <3> QED BY <3>1, <3>2 DEF InOrder
  <2>5. CASE p < i
    <3>1. s[i] = q[i - 1] /\ s[j] = q[j - 1]
      BY <1>1, <1>2, <1>3, <2>5
    <3>2. i - 1 \in DOMAIN q /\ j - 1 \in DOMAIN q /\ i - 1 < j - 1
      BY <1>1, <1>2, <1>3, <2>5
    <3> QED BY <3>1, <3>2 DEF InOrder
  <2>6. \/ j < p \/ j = p \/ i = p \/ (i < p /\ p < j) \/ p < i
    BY <1>1, <1>2, <1>3
  <2> QED BY <2>1, <2>2, <2>3, <2>4, <2>5, <2>6
<1> QED BY <1>3 DEF InOrder

\* The table without k's entry is in order if the whole table is.
LEMMA WithoutInOrder ==
  ASSUME CacheOK, NEW k \in Keys, NEW ascending \in BOOLEAN, InOrder(sorted, ascending)
  PROVE  InOrder(Without(k).sorted, ascending)
<1>1. PICK q : q = Without(k).sorted
  OBVIOUS
<1>2. /\ q \in Seq(Entry) /\ lookup[k] \in Nat
      /\ \A i \in DOMAIN q : Came(k, i) \in DOMAIN sorted /\ q[i] = sorted[Came(k, i)]
  BY <1>1, WithoutTable DEF CacheOK
<1>3. Len(q) \in Nat /\ DOMAIN q = 1 .. Len(q)
  BY <1>2, TableTypes
<1>4. ASSUME NEW i \in DOMAIN q, NEW j \in DOMAIN q, i < j
      PROVE  ~RanksBefore(q[j], q[i], ascending)
  <2>1. Came(k, i) < Came(k, j)
    BY <1>2, <1>3, <1>4 DEF Came, Shift
  <2>2. ~RanksBefore(sorted[Came(k, j)], sorted[Came(k, i)], ascending)
    BY <1>2, <2>1 DEF InOrder
  <2> QED BY <1>2, <2>2
<1>5. InOrder(q, ascending)
  BY <1>4 DEF InOrder
<1> QED BY <1>1, <1>5

\* e takes its place in a table that is in order and within the limit: it is on
\* the board, and whoever is not any longer ranks before nobody there.
LEMMA PlacedOnBoard ==
  ASSUME NEW q \in Seq(Entry), NEW e \in Entry, NEW ascending \in BOOLEAN,
         InOrder(q, ascending), NEW p \in LowerBounds(q, e, ascending),
         NEW limit \in Nat, Len(q) <= limit, Len(q) < limit \/ p <= limit,
         NEW s \in Seq(Entry),
         Len(s) = IF Len(q) + 1 > limit THEN Len(q) ELSE Len(q) + 1,
         \A i \in DOMAIN s :
           s[i] = IF i < p THEN q[i] ELSE IF i = p THEN e ELSE q[i - 1]
  PROVE  /\ Len(s) <= limit
         /\ InOrder(s, ascending)
         /\ \E i \in DOMAIN s : s[i] = e
         /\ \A m \in DOMAIN q :
              \/ \E i \in DOMAIN s : s[i] = q[m]
              \/ Len(s) = limit /\ \A i \in DOMAIN s : ~RanksBefore(q[m], s[i], ascending)
         /\ Len(q) = limit => /\ Len(s) = limit
                              /\ \E m \in DOMAIN q : ~RanksBefore(q[m], e, ascending)
<1>1. /\ Len(q) \in Nat /\ DOMAIN q = 1 .. Len(q) /\ \A i \in 1 .. Len(q) : q[i] \in Entry
      /\ Len(s) \in Nat /\ DOMAIN s = 1 .. Len(s)
  BY TableTypes
<1>2. /\ p \in 1 .. Len(q) + 1
      /\ \A i \in 1 .. Len(q) :
           IF i < p THEN ~RanksBefore(e, q[i], ascending)
           ELSE ~RanksBefore(q[i], e, ascending)
  BY PlaceOf
<1>3. Len(s) <= Len(q) + 1 /\ Len(q) <= Len(s) /\ Len(s) <= limit
  BY <1>1
<1>4. InOrder(s, ascending)
  BY <1>3, PlacedInOrder
<1>5. \E i \in DOMAIN s : s[i] = e
  <2>1. p \in DOMAIN s
    BY <1>1, <1>2, <1>3
  <2> QED BY <1>2, <2>1
<1>6. ASSUME NEW m \in DOMAIN q
      PROVE  \/ \E i \in DOMAIN s : s[i] = q[m]
             \/ Len(s) = limit /\ \A i \in DOMAIN s : ~RanksBefore(q[m], s[i], ascending)
  <2>1. CASE m < p
    <3>1. m \in DOMAIN s /\ s[m] = q[m]
      BY <1>1, <1>3, <2>1
    <3> QED BY <3>1
  <2>2. CASE ~(m < p) /\ m + 1 <= Len(s)
    <3>1. m + 1 \in DOMAIN s /\ s[m + 1] = q[m + 1 - 1] /\ m + 1 - 1 = m
      BY <1>1, <1>2, <2>2
    <3> QED BY <3>1
  <2>3. CASE ~(m < p) /\ ~(m + 1 <= Len(s))
    <3>1. Len(s) = limit /\ m = Len(q) /\ Len(s) = Len(q)
      <4>1. PICK n \in Nat : n = Len(q)
        BY <1>1
      <4>2. PICK l \in Nat : l = Len(s)
        BY <1>1
      <4>3. l = IF n + 1 > limit THEN n ELSE n + 1
        BY <4>1, <4>2
      <4>4. n <= limit
        BY <4>1
      <4>5. m \in 1 .. n /\ ~(m + 1 <= l)
        BY <1>1, <2>3, <4>1, <4>2
      <4>6. l = limit /\ m = n /\ l = n
        BY <4>3, <4>4, <4>5
      <4> QED BY <4>1, <4>2, <4>6
    <3>2. ASSUME NEW i \in DOMAIN s
          PROVE  ~RanksBefore(q[m], s[i], ascending)
      <4>1. CASE i = p
        BY <1>1, <1>2, <2>3, <4>1
      <4>2. CASE i < p
        <5>1. i \in DOMAIN q /\ i < m /\ s[i] = q[i]
          BY <1>1, <1>2, <2>3, <3>1, <4>2
        <5> QED BY <5>1 DEF InOrder
      <4>3. CASE p < i
        <5>1. i - 1 \in DOMAIN q /\ i - 1 < m /\ s[i] = q[i - 1]
          BY <1>1, <1>2, <2>3, <3>1, <4>3
        <5> QED BY <5>1 DEF InOrder
      <4> QED BY <1>1, <1>2, <4>1, <4>2, <4>3
    <3> QED BY <3>1, <3>2
  <2> QED BY <2>1, <2>2, <2>3
<1>7. ASSUME Len(q) = limit
      PROVE  Len(s) = limit /\ \E m \in DOMAIN q : ~RanksBefore(q[m], e, ascending)
  <2>1. p \in 1 .. Len(q) /\ ~(p < p)
    BY <1>1, <1>2, <1>7
  <2>2. ~RanksBefore(q[p], e, ascending)
    BY <1>2, <2>1
  <2> QED BY <1>1, <1>7, <2>1, <2>2
<1> QED BY <1>3, <1>4, <1>5, <1>6, <1>7

\* The same of the whole cached board: e is put in place of its key's entry.
LEMMA InsertedOnBoard ==
  ASSUME CacheOK, NEW e \in Entry, NEW cfg \in Config, NEW table \in Inserted(e, cfg),
         InOrder(sorted, cfg.ascending), Len(sorted) <= cfg.limit
  PROVE  LET t == table.sorted
             On(x) == \E i \in DOMAIN t : t[i] = x
             Out(x) == /\ Len(t) = cfg.limit
                       /\ \A i \in DOMAIN t : ~RanksBefore(x, t[i], cfg.ascending)
         IN  /\ Len(t) <= cfg.limit
             /\ InOrder(t, cfg.ascending)
             /\ On(e) \/ Out(e)
             /\ \A m \in DOMAIN sorted : sorted[m].key # e.key => On(sorted[m]) \/ Out(sorted[m])
             /\ Len(sorted) = cfg.limit => Len(t) = cfg.limit
             /\ lookup[e.key] = 0 /\ Len(sorted) = cfg.limit /\ On(e) =>
                  \E m \in DOMAIN sorted : ~RanksBefore(sorted[m], e, cfg.ascending)
<1>1. PICK w : w = Without(e.key)
  OBVIOUS
<1>2. PICK q : q = w.sorted
  OBVIOUS
<1>3. PICK t : t = table.sorted
  OBVIOUS
<1>4. PICK limit \in Nat : limit = cfg.limit
  BY DEF Config
<1>5. PICK ascending \in BOOLEAN : ascending = cfg.ascending
  BY DEF Config
<1> DEFINE On(x) == \E i \in DOMAIN t : t[i] = x
           Out(x) == Len(t) = limit /\ \A i \in DOMAIN t : ~RanksBefore(x, t[i], ascending)
<1>6. e.key \in Keys
  BY DEF Entry
<1>7. /\ q \in Seq(Entry)
      /\ Len(q) = IF lookup[e.key] = 0 THEN Len(sorted) ELSE Len(sorted) - 1
      /\ \A i \in DOMAIN q : Came(e.key, i) \in DOMAIN sorted \ {lookup[e.key]}
                               /\ q[i] = sorted[Came(e.key, i)]
      /\ \A i \in DOMAIN sorted \ {lookup[e.key]} :
           \E m \in DOMAIN q : q[m] = sorted[i]
  BY <1>1, <1>2, <1>6, WithoutTable
<1>8. /\ Len(q) \in Nat /\ DOMAIN q = 1 .. Len(q)
      /\ Len(sorted) \in Nat /\ DOMAIN sorted = 1 .. Len(sorted)
  BY <1>7, TableTypes DEF CacheOK
<1>9. InOrder(q, ascending)
  BY <1>1, <1>2, <1>5, <1>6, WithoutInOrder
<1>10. PICK p \in LowerBounds(q, e, ascending) :
         table = IF Fits(w, p, limit) THEN With(w, e, p, limit) ELSE w
  BY <1>1, <1>2, <1>4, <1>5 DEF Inserted
<1>11. p \in 1 .. Len(q) + 1
  BY <1>10 DEF LowerBounds
<1>12. Len(q) <= limit /\ (lookup[e.key] # 0 => Len(q) < limit)
  <2>1. Len(sorted) <= limit
    BY <1>4
  <2>2. CASE lookup[e.key] = 0
    BY <1>7, <2>1, <2>2
  <2>3. CASE lookup[e.key] # 0
    BY <1>7, <1>8, <2>1, <2>3
  <2> QED BY <2>2, <2>3
<1>13. \A m \in DOMAIN sorted : sorted[m].key # e.key => m # lookup[e.key]
  BY <1>6 DEF CacheOK, Exact
<1>14. SUFFICES /\ Len(t) <= limit
                /\ InOrder(t, ascending)
                /\ On(e) \/ Out(e)
                /\ \A m \in DOMAIN q : On(q[m]) \/ Out(q[m])
                /\ Len(sorted) = limit => Len(t) = limit
                /\ lookup[e.key] = 0 /\ Len(sorted) = limit /\ On(e) =>
                     \E m \in DOMAIN sorted : ~RanksBefore(sorted[m], e, ascending)
  <2>1. \A m \in DOMAIN sorted : sorted[m].key # e.key => \E j \in DOMAIN q : q[j] = sorted[m]
    BY <1>7, <1>13
  <2> QED BY <1>3, <1>4, <1>5, <1>14, <2>1
<1>15. CASE ~Fits(w, p, limit)
  <2>1. t = q /\ Len(q) = limit /\ p = Len(q) + 1
    BY <1>2, <1>3, <1>4, <1>8, <1>10, <1>11, <1>12, <1>15 DEF Fits
  <2>2. lookup[e.key] = 0
    BY <1>8, <1>12, <2>1
  <2>3. ~On(e)
    <3>1. ASSUME NEW i \in DOMAIN q, q[i] = e
          PROVE  FALSE
      <4>1. Came(e.key, i) = i /\ i \in DOMAIN sorted /\ sorted[i] = e
        BY <1>7, <2>2, <3>1 DEF Came
      <4>2. lookup[e.key] = i
        BY <4>1 DEF CacheOK, Exact
      <4> QED BY <1>8, <2>2, <4>1, <4>2
    <3> QED BY <2>1, <3>1
  <2>4. Out(e)
    <3>1. \A i \in 1 .. Len(q) :
            IF i < p THEN ~RanksBefore(e, q[i], ascending)
            ELSE ~RanksBefore(q[i], e, ascending)
      BY <1>7, <1>9, <1>10, PlaceOf
    <3>2. \A i \in 1 .. Len(q) : i < p
      BY <1>8, <2>1
    <3> QED BY <1>8, <2>1, <3>1, <3>2
  <2>5. \A m \in DOMAIN q : On(q[m])
    BY <2>1
  <2> QED BY <1>9, <1>12, <2>1, <2>3, <2>4, <2>5
<1>16. CASE Fits(w, p, limit)
  <2>1. t = With(w, e, p, limit).sorted
    BY <1>3, <1>10, <1>16
  <2>2. /\ t \in Seq(Entry)
        /\ Len(t) = IF Len(q) + 1 > limit THEN Len(q) ELSE Len(q) + 1
        /\ \A i \in DOMAIN t :
             t[i] = IF i < p THEN q[i] ELSE IF i = p THEN e ELSE q[i - 1]
    BY <1>1, <1>2, <1>11, <2>1, WithTable
  <2>3. Len(q) < limit \/ p <= limit
    BY <1>2, <1>16 DEF Fits
  <2>4. /\ Len(t) <= limit
        /\ InOrder(t, ascending)
        /\ \E i \in DOMAIN t : t[i] = e
        /\ \A m \in DOMAIN q :
             \/ \E i \in DOMAIN t : t[i] = q[m]
             \/ Len(t) = limit /\ \A i \in DOMAIN t : ~RanksBefore(q[m], t[i], ascending)
        /\ Len(q) = limit => /\ Len(t) = limit
                             /\ \E m \in DOMAIN q : ~RanksBefore(q[m], e, ascending)
    <3>1. q \in Seq(Entry) /\ p \in LowerBounds(q, e, ascending) /\ Len(q) <= limit
      BY <1>7, <1>10, <1>12
    <3> HIDE DEF On, Out
    <3> QED BY <1>9, <2>2, <2>3, <3>1, PlacedOnBoard
  <2>5. Len(sorted) = limit => Len(t) = limit
    BY <1>7, <1>8, <2>2, <2>4
  <2>6. ASSUME lookup[e.key] = 0, Len(sorted) = limit
        PROVE  \E m \in DOMAIN sorted : ~RanksBefore(sorted[m], e, ascending)
    <3>1. PICK m \in DOMAIN q : ~RanksBefore(q[m], e, ascending)
      BY <1>7, <2>4, <2>6
    <3> QED BY <1>7, <3>1
  <2> QED BY <2>4, <2>5, <2>6
<1> QED BY <1>15, <1>16

-----------------------------------------------------------------------------
(* The board as the top of the table, while nothing is disturbed: every     *)
(* thread has the board's settings in hand, and the entries are in order.   *)

\* The settings that a thread has read are those of the board.
SetOK(job) ==
  /\ job.step = "create" => board \in {NoBoard, DefaultConfig}
  /\ job.step \in {"record", "insert", "read", "load"} => job.cfg = board
  /\ job.step = "load" => job.loaded \in ScoresForBoard(board)

SettingsOK == \A w \in Workers : SetOK(jobs[w])

Reloading == \E w \in Workers : jobs[w].step \in {"read", "load"}

Shown(k) == \E i \in DOMAIN sorted : sorted[i].key = k
Inserting(k) == \E w \in Workers : jobs[w].step = "insert" /\ k \in jobs[w].keys

\* The board is full, and row k ranks before no entry of it.
LeftOut(k) == /\ Len(sorted) = board.limit
              /\ \A i \in DOMAIN sorted : ~RanksBefore(Stored(k), sorted[i], board.ascending)

RanksOK ==
  /\ Len(sorted) <= board.limit
  /\ InOrder(sorted, board.ascending)
  /\ ~sunk => \A k \in StoredKeys : Shown(k) \/ Inserting(k) \/ LeftOut(k)

TopOK ==
  disturbed = {} => SettingsOK /\ (board # NoBoard /\ ~Reloading => RanksOK)

\* While nothing is disturbed, two threads at work have no key in common.
LEMMA OthersIdle ==
  ASSUME Basics, Alone, disturbed = {}, NEW v \in Workers, NEW w \in Workers, v # w,
         jobs[v].keys = Keys
  PROVE  jobs[w] = Idle
<1>1. jobs[w] \in Job /\ JobOK(jobs[w])
  BY DEF Basics
<1>2. jobs[v].keys \cap jobs[w].keys \subseteq {}
  BY DEF Alone
<1>3. jobs[w].keys = {}
  BY <1>1, <1>2 DEF Job
<1>4. jobs[w].step = "idle"
  BY <1>1, <1>3 DEF JobOK
<1> QED BY <1>1, <1>4 DEF JobOK

\* While a thread is at work on a key, the board is not reloaded by another.
LEMMA NoReload ==
  ASSUME Basics, Alone, disturbed = {}, NEW w \in Workers, jobs[w] # Idle,
         jobs[w].step \notin {"read", "load"}
  PROVE  ~Reloading
<1>1. ASSUME NEW v \in Workers, jobs[v].step \in {"read", "load"}
      PROVE  FALSE
  <2>1. JobOK(jobs[v])
    BY DEF Basics
  <2>2. jobs[v].keys = Keys /\ v # w
    BY <1>1, <2>1 DEF JobOK
  <2> QED BY <2>2, OthersIdle
<1> QED BY <1>1 DEF Reloading

\* The other threads still have the board's settings in hand.
LEMMA SettingsKept ==
  ASSUME Basics, Alone, disturbed = {}, SettingsOK, NEW w \in Workers,
         \A v \in Workers \ {w} : jobs'[v] = jobs[v],
         board' = board, rows' = rows \/ (jobs[w] # Idle /\ ~Reloading),
         SetOK(jobs[w])'
  PROVE  SettingsOK'
<1>1. ASSUME NEW v \in Workers, v # w
      PROVE  SetOK(jobs[v])'
  <2>1. jobs'[v] = jobs[v] /\ SetOK(jobs[v])
    BY <1>1 DEF SettingsOK
  <2>2. CASE rows' = rows
    <3>1. ScoresForBoard(board)' = ScoresForBoard(board)
      BY <2>2 DEF ScoresForBoard, StoredKeys, Stored
    <3> QED BY <2>1, <3>1 DEF SetOK
  <2>3. CASE ~Reloading
    <3>1. jobs[v].step # "load"
      BY <2>3 DEF Reloading
    <3> QED BY <2>1, <3>1 DEF SetOK
  <2> QED BY <2>2, <2>3
<1> QED BY <1>1 DEF SettingsOK

\* Entries and rows keep their ranks, those aside that are still to be put in
\* their place.
LEMMA RanksKept ==
  ASSUME RanksOK, board' = board, sunk' = sunk,
         Len(sorted') = Len(sorted), DOMAIN sorted' = DOMAIN sorted,
         \A i \in DOMAIN sorted : SameRank(sorted'[i], sorted[i]),
         \A k \in Keys : Inserting(k) => Inserting(k)',
         \A k \in StoredKeys' :
           Inserting(k)' \/ (k \in StoredKeys /\ SameRank(Stored(k)', Stored(k)))
  PROVE  RanksOK'
<1>1. Len(sorted') <= board'.limit
  BY DEF RanksOK
<1>2. InOrder(sorted', board'.ascending)
  <2>1. ASSUME NEW i \in DOMAIN sorted, NEW j \in DOMAIN sorted, i < j
        PROVE  ~RanksBefore(sorted'[j], sorted'[i], board.ascending)
    <3>1. ~RanksBefore(sorted[j], sorted[i], board.ascending)
      BY <2>1 DEF RanksOK, InOrder
    <3> QED BY <3>1, SameRankBefore
  <2> QED BY <2>1 DEF InOrder
<1>3. ASSUME ~sunk', NEW k \in StoredKeys'
      PROVE  Shown(k)' \/ Inserting(k)' \/ LeftOut(k)'
  <2>1. CASE Inserting(k)'
    BY <2>1
  <2>2. CASE k \in StoredKeys /\ SameRank(Stored(k)', Stored(k))
    <3>1. Shown(k) \/ Inserting(k) \/ LeftOut(k)
      BY <1>3, <2>2 DEF RanksOK
    <3>2. CASE Shown(k)
      BY <3>2 DEF Shown, SameRank
    <3>3. CASE Inserting(k)
      BY <2>2, <3>3 DEF StoredKeys
    <3>4. CASE LeftOut(k)
      <4>1. \A i \in DOMAIN sorted : ~RanksBefore(Stored(k)', sorted'[i], board.ascending)
        BY <2>2, <3>4, SameRankBefore DEF LeftOut
      <4> QED BY <3>4, <4>1 DEF LeftOut
    <3> QED BY <3>1, <3>2, <3>3, <3>4
  <2> QED BY <1>3, <2>1, <2>2
<1> QED BY <1>1, <1>2, <1>3 DEF RanksOK

\* What has just been read from the database is in order.
LEMMA RanksRead ==
  ASSUME RowsOK, NEW cfg \in Config, NEW s \in ScoresForBoard(cfg),
         sorted' = s, rows' = rows, board' = cfg
  PROVE  RanksOK'
<1>1. /\ Len(s) <= cfg.limit
      /\ InOrder(s, cfg.ascending)
      /\ \A k \in StoredKeys : (\A i \in DOMAIN s : s[i].key # k) =>
           /\ Len(s) = cfg.limit
           /\ \A i \in DOMAIN s : ~RanksBefore(Stored(k), s[i], cfg.ascending)
  BY ScoresTable
<1>2. StoredKeys' = StoredKeys /\ \A k : Stored(k)' = Stored(k)
  BY DEF StoredKeys, Stored
<1>3. \A k \in StoredKeys' : Shown(k)' \/ LeftOut(k)'
  BY <1>1, <1>2 DEF Shown, LeftOut
<1> QED BY <1>1, <1>3 DEF RanksOK, InOrder

\* Every entry has its own rank.
LEMMA SameRankAlways == \A e : SameRank(e, e)
BY DEF SameRank

\* While nothing is disturbed, an entry ranks where its row would.
LEMMA ShownRank ==
  ASSUME Basics, KeysOK, disturbed = {}, ~Reloading, NEW k \in StoredKeys, ~Inserting(k),
         NEW m \in DOMAIN sorted, sorted[m].key = k
  PROVE  SameRank(sorted[m], Stored(k))
<1>1. k \in Keys \ disturbed /\ rows[k] # NoRow
  BY DEF StoredKeys
<1>2. CASE ShownAsStored(k)
  BY <1>2 DEF ShownAsStored, SameRank
<1>3. CASE ~ShownAsStored(k)
  <2>1. PICK w \in Workers : k \in jobs[w].keys
    BY <1>1, <1>3 DEF KeysOK
  <2>2. KeyOK(k, jobs[w])
    BY <1>1, <2>1 DEF KeysOK
  <2>3. JobOK(jobs[w]) /\ jobs[w] \in Job
    BY DEF Basics
  <2>4. jobs[w].step \in Step /\ jobs[w].step # "idle"
    BY <2>1, <2>3, IdleJob DEF Job, JobOK
  <2>5. jobs[w].step \notin {"read", "load", "insert"}
    BY <2>1 DEF Reloading, Inserting
  <2>6. jobs[w].step = "link"
    BY <1>1, <1>3, <2>2, <2>4, <2>5 DEF KeyOK, Step
  <2>7. sorted[m] = jobs[w].entry /\ Stored(k) = NoData(jobs[w].entry)
    BY <2>2, <2>6 DEF KeyOK
  <2>8. PICK e \in Entry : e = jobs[w].entry
    BY <2>3, <2>6 DEF JobOK
  <2>9. NoData(e).key = e.key /\ NoData(e).score = e.score /\ NoData(e).time = e.time
    BY DEF NoData, Entry
  <2> QED BY <2>7, <2>8, <2>9 DEF SameRank
<1> QED BY <1>2, <1>3

\* Thread w begins or goes on, and entries and rows keep their ranks.
LEMMA TopFrame ==
  ASSUME Basics, Alone, TopOK, NEW w \in Workers,
         \A v \in Workers \ {w} : jobs'[v] = jobs[v], disturbed \subseteq disturbed',
         jobs[w].step \notin {"read", "load", "insert"},
         board' = board, sunk' = sunk, rows' = rows \/ jobs[w].step # "idle",
         Len(sorted') = Len(sorted), DOMAIN sorted' = DOMAIN sorted,
         \A i \in DOMAIN sorted : SameRank(sorted'[i], sorted[i]),
         \A k \in StoredKeys' :
           Inserting(k)' \/ (k \in StoredKeys /\ SameRank(Stored(k)', Stored(k))),
         SettingsOK => SetOK(jobs[w])'
  PROVE  TopOK'
<1> SUFFICES ASSUME disturbed' = {}
             PROVE  SettingsOK' /\ (board' # NoBoard /\ ~Reloading' => RanksOK')
  BY DEF TopOK
<1>1. disturbed = {}
  OBVIOUS
<1>2. SettingsOK /\ (board # NoBoard /\ ~Reloading => RanksOK)
  BY <1>1 DEF TopOK
<1>3. rows' = rows \/ (jobs[w] # Idle /\ ~Reloading)
  BY <1>1, NoReload, IdleJob
<1>4. SettingsOK'
  BY <1>1, <1>2, <1>3, SettingsKept
<1>5. Reloading => Reloading'
  BY DEF Reloading
<1>6. \A k \in Keys : Inserting(k) => Inserting(k)'
  BY DEF Inserting
<1>7. RanksOK => RanksOK'
  BY <1>6, RanksKept
<1> QED BY <1>2, <1>4, <1>5, <1>7

\* The same when entries and rows are left alone.
LEMMA TopRest ==
  ASSUME Basics, Alone, TopOK, NEW w \in Workers,
         \A v \in Workers \ {w} : jobs'[v] = jobs[v], disturbed \subseteq disturbed',
         jobs[w].step \notin {"read", "load", "insert"},
         UNCHANGED <<board, rows, sorted, sunk>>,
         SettingsOK => SetOK(jobs[w])'
  PROVE  TopOK'
<1>1. \A k \in StoredKeys' : k \in StoredKeys /\ SameRank(Stored(k)', Stored(k))
  BY SameRankAlways DEF StoredKeys, Stored
<1>2. \A i \in DOMAIN sorted : SameRank(sorted'[i], sorted[i])
  BY SameRankAlways
<1> QED BY <1>1, <1>2, TopFrame

\* A job that has no settings in hand.
LEMMA NoSettings ==
  ASSUME NEW w \in Workers,
         jobs'[w].step \notin {"create", "record", "insert", "read", "load"}
  PROVE  SetOK(jobs[w])'
BY DEF SetOK

\* A score that is put in its place leaves the board the top of the table.
LEMMA TopInserted ==
  ASSUME SInv, Alone, KeysOK, TopOK, NEW d \in Devices, InsertScore(d)
  PROVE  TopOK'
<1>0. Basics /\ BoardThere /\ CacheOK /\ d \in Workers
  BY DeviceWorks DEF SInv, Basics
<1>1. /\ jobs[d].step = "insert" /\ jobs[d].entry \in Entry
      /\ jobs[d].cfg \in Config /\ jobs[d].keys = {jobs[d].entry.key}
      /\ Ends(d)
      /\ \E table \in Inserted(jobs[d].entry, jobs[d].cfg) :
           sorted' = table.sorted /\ lookup' = table.lookup
      /\ sunk' = (sunk \/ /\ lookup[jobs[d].entry.key] # 0
                          /\ RanksBefore(sorted[lookup[jobs[d].entry.key]], jobs[d].entry,
                                         jobs[d].cfg.ascending)
                          /\ OffBoard({jobs[d].entry.key}))
      /\ board' = board /\ rows' = rows
  BY <1>0, ScoreInserted
<1> SUFFICES ASSUME disturbed' = {}
             PROVE  SettingsOK' /\ (board' # NoBoard /\ ~Reloading' => RanksOK')
  BY DEF TopOK
<1>2. disturbed = {} /\ \A v \in Workers \ {d} : jobs'[v] = jobs[v]
  BY <1>1 DEF Ends, GoesOn
<1>3. ~Reloading
  BY <1>0, <1>1, <1>2, NoReload, IdleJob DEF SInv
<1>4. board # NoBoard
  BY <1>0, <1>1 DEF BoardThere
<1>5. SettingsOK /\ RanksOK
  BY <1>2, <1>3, <1>4 DEF TopOK
<1>6. jobs[d].cfg = board
  BY <1>0, <1>1, <1>5 DEF SettingsOK, SetOK
<1>7. SettingsOK'
  <2>1. SetOK(jobs[d])'
    BY <1>1, IdleJob DEF Ends, SetOK
  <2> QED BY <1>0, <1>1, <1>2, <1>5, <2>1, SettingsKept
<1>8. PICK e \in Entry : e = jobs[d].entry
  BY <1>1
<1>9. PICK cfg \in Config : cfg = board
  BY <1>1, <1>6
<1>10. PICK table \in Inserted(e, cfg) : sorted' = table.sorted /\ lookup' = table.lookup
  BY <1>1, <1>6, <1>8, <1>9
<1>11. PICK t : t = table.sorted
  OBVIOUS
<1> DEFINE On(x) == \E i \in DOMAIN t : t[i] = x
           Out(x) == /\ Len(t) = cfg.limit
                     /\ \A i \in DOMAIN t : ~RanksBefore(x, t[i], cfg.ascending)
<1>12. /\ Len(t) <= cfg.limit
       /\ InOrder(t, cfg.ascending)
       /\ On(e) \/ Out(e)
       /\ \A m \in DOMAIN sorted : sorted[m].key # e.key => On(sorted[m]) \/ Out(sorted[m])
       /\ Len(sorted) = cfg.limit => Len(t) = cfg.limit
       /\ lookup[e.key] = 0 /\ Len(sorted) = cfg.limit /\ On(e) =>
            \E m \in DOMAIN sorted : ~RanksBefore(sorted[m], e, cfg.ascending)
  <2>1. InOrder(sorted, cfg.ascending) /\ Len(sorted) <= cfg.limit
    BY <1>5, <1>9 DEF RanksOK
  <2> QED BY <1>0, <1>11, <2>1, InsertedOnBoard
<1>13. cfg.ascending \in BOOLEAN
  BY DEF Config
<1>14. e.key \in Keys /\ Stored(e.key) = e
  <2>1. JobOK(jobs[d]) /\ e.key \in jobs[d].keys
    BY <1>0, <1>1, <1>8 DEF Basics
  <2>2. e.data = 0
    BY <1>1, <1>8, <2>1 DEF JobOK
  <2>3. e.key \in Keys
    BY DEF Entry
  <2>4. KeyOK(e.key, jobs[d])
    BY <1>0, <1>2, <2>1, <2>3 DEF KeysOK
  <2>5. Stored(e.key) = NoData(e)
    BY <1>1, <1>8, <2>4 DEF KeyOK
  <2> QED BY <2>2, <2>3, <2>5, RowEntry
<1>15. ASSUME NEW k \in StoredKeys, On(Stored(k)) \/ Out(Stored(k))
       PROVE  Shown(k)' \/ LeftOut(k)'
  <2>1. sorted' = t /\ board' = cfg /\ Stored(k)' = Stored(k) /\ Stored(k).key = k
    BY <1>1, <1>9, <1>10, <1>11 DEF Stored
  <2>2. On(Stored(k)) => Shown(k)'
    BY <2>1 DEF Shown
  <2>3. Out(Stored(k)) => LeftOut(k)'
    BY <2>1 DEF LeftOut
  <2> QED BY <1>15, <2>2, <2>3
<1>16. ASSUME ~sunk', NEW k \in StoredKeys
       PROVE  Shown(k)' \/ Inserting(k)' \/ LeftOut(k)'
  <2>1. CASE k = e.key
    BY <1>12, <1>14, <1>15, <2>1
  <2>2. CASE k # e.key /\ Inserting(k)
    <3>1. PICK w \in Workers : jobs[w].step = "insert" /\ k \in jobs[w].keys
      BY <2>2 DEF Inserting
    <3>2. w # d
      BY <1>1, <1>8, <2>2, <3>1
    <3> QED BY <1>2, <3>1, <3>2 DEF Inserting
  <2>3. CASE k # e.key /\ ~Inserting(k) /\ Shown(k)
    <3>1. PICK m \in DOMAIN sorted : sorted[m].key = k
      BY <2>3 DEF Shown
    <3>2. SameRank(sorted[m], Stored(k))
      BY <1>0, <1>2, <1>3, <2>3, <3>1, ShownRank
    <3>3. CASE On(sorted[m])
      BY <1>10, <1>11, <3>1, <3>3 DEF Shown
    <3>4. CASE Out(sorted[m])
      <4>1. Out(Stored(k))
        BY <3>2, <3>4, SameRankBefore, SameRankAlways
      <4> QED BY <1>15, <4>1
    <3> QED BY <1>12, <2>3, <3>1, <3>3, <3>4
  <2>4. CASE k # e.key /\ ~Shown(k) /\ LeftOut(k)
    <3>1. PICK x \in Entry : x = Stored(k)
      BY <1>0, StoredEntry DEF Basics
    <3>2. /\ Len(sorted) = cfg.limit /\ Len(t) = cfg.limit
          /\ \A i \in DOMAIN sorted : ~RanksBefore(x, sorted[i], cfg.ascending)
      BY <1>9, <1>12, <2>4, <3>1 DEF LeftOut
    <3>3. \A i \in DOMAIN sorted : sorted[i] \in Entry
      BY <1>0, TableTypes DEF CacheOK
    <3>4. On(e) => ~RanksBefore(x, e, cfg.ascending)
      <4>1. CASE lookup[e.key] = 0
        <5>1. On(e) =>
                \E m \in DOMAIN sorted : ~RanksBefore(sorted[m], e, cfg.ascending)
          BY <1>12, <3>2, <4>1
        <5> QED BY <1>13, <3>2, <3>3, <5>1, RankOrder
      <4>2. CASE lookup[e.key] # 0
        <5>1. PICK m : m = lookup[e.key]
          OBVIOUS
        <5>2. m \in DOMAIN sorted
          BY <1>0, <1>14, <4>2, <5>1 DEF CacheOK, Exact
        <5>3. lookup[k] = 0
          BY <1>0, <2>4 DEF CacheOK, Exact, Shown, StoredKeys
        <5>4. OffBoard({e.key})
          BY <2>4, <5>3 DEF OffBoard
        <5>5. ~RanksBefore(sorted[m], e, cfg.ascending)
          BY <1>1, <1>6, <1>8, <1>9, <1>16, <4>2, <5>1, <5>4
        <5> QED BY <1>13, <3>2, <3>3, <5>2, <5>5, RankOrder
      <4> QED BY <4>1, <4>2
    <3>5. \A i \in DOMAIN t : t[i] = e \/ \E m \in DOMAIN sorted : sorted[m] = t[i]
      BY <1>0, <1>11, InsertedTable
    <3>6. Out(x)
      BY <3>2, <3>4, <3>5
    <3> QED BY <1>15, <3>1, <3>6
  <2> QED BY <1>5, <1>16, <1>1, <2>1, <2>2, <2>3, <2>4 DEF RanksOK
<1>17. RanksOK'
  <2>1. StoredKeys' = StoredKeys
    BY <1>1 DEF StoredKeys
  <2>2. Len(sorted') <= board'.limit /\ InOrder(sorted', board'.ascending)
    BY <1>1, <1>9, <1>10, <1>11, <1>12
  <2> QED BY <1>16, <2>1, <2>2 DEF RanksOK, InOrder
<1> QED BY <1>7, <1>17

\* Entries that are removed leave the others in order.
LEMMA OthersInOrder ==
  ASSUME NEW s \in Seq(Entry), OneEach(s), NEW keys, NEW t \in Others(s, keys),
         NEW ascending \in BOOLEAN, InOrder(s, ascending)
  PROVE  /\ InOrder(t, ascending)
         /\ Len(t) <= Len(s)
         /\ \A m \in DOMAIN s : s[m].key \notin keys => \E i \in DOMAIN t : t[i] = s[m]
<1>1. t \in Seq(Entry)
  BY OthersTable
<1>2. PICK at \in [DOMAIN t -> DOMAIN s] :
        /\ \A i \in DOMAIN t : t[i] = s[at[i]] /\ s[at[i]].key \notin keys
        /\ \A i, j \in DOMAIN t : i < j => at[i] < at[j]
        /\ \A m \in DOMAIN s : s[m].key \notin keys => \E i \in DOMAIN t : at[i] = m
  BY OthersTable
<1>3. /\ Len(s) \in Nat /\ DOMAIN s = 1 .. Len(s)
      /\ Len(t) \in Nat /\ DOMAIN t = 1 .. Len(t)
  BY <1>1, TableTypes
<1>4. InOrder(t, ascending)
  <2>1. ASSUME NEW i \in DOMAIN t, NEW j \in DOMAIN t, i < j
        PROVE  ~RanksBefore(t[j], t[i], ascending)
    <3>1. at[i] \in DOMAIN s /\ at[j] \in DOMAIN s /\ at[i] < at[j]
      BY <1>2, <2>1
    <3>2. ~RanksBefore(s[at[j]], s[at[i]], ascending)
      BY <3>1 DEF InOrder
    <3> QED BY <1>2, <3>2
  <2> QED BY <2>1 DEF InOrder
<1>5. Len(t) <= Len(s)
  <2>1. PICK n \in Nat : n = Len(t)
    BY <1>3
  <2>2. PICK l \in Nat : l = Len(s)
    BY <1>3
  <2>3. \A i \in 1 .. n : at[i] \in 1 .. l
    BY <1>2, <1>3, <2>1, <2>2
  <2>4. \A i, j \in 1 .. n : at[i] = at[j] => i = j
    BY <1>2, <1>3, <2>1, <2>2, <2>3
  <2>5. at \in Injection(1 .. n, 1 .. l)
    BY <1>2, <1>3, <2>1, <2>2, <2>4 DEF Injection, IsInjective
  <2>6. IsFiniteSet(1 .. l)
    BY FS_Interval
  <2>7. Cardinality(1 .. n) <= Cardinality(1 .. l)
    BY <2>5, <2>6, FS_Injection
  <2>8. Cardinality(1 .. n) = IF 1 > n THEN 0 ELSE n - 1 + 1
    BY FS_Interval
  <2>9. Cardinality(1 .. l) = IF 1 > l THEN 0 ELSE l - 1 + 1
    BY FS_Interval
  <2> QED BY <2>1, <2>2, <2>7, <2>8, <2>9
<1> QED BY <1>2, <1>4, <1>5

\* Entries that go leave the board the top of the table.
LEMMA TopEvicted ==
  ASSUME SInv, Alone, KeysOK, TopOK, NEW w \in Workers, RemoveEntries(w)
  PROVE  TopOK'
<1>0. Basics /\ BoardThere /\ CacheOK
  BY DEF SInv, Basics
<1>1. /\ jobs[w].step = "evict" /\ Ends(w)
      /\ sorted' \in Others(sorted, jobs[w].keys)
      /\ sunk' = (sunk \/ (sorted' # sorted /\ OffBoard(jobs[w].keys)))
      /\ board' = board /\ rows' = rows
  BY <1>0, EntriesRemoved
<1> SUFFICES ASSUME disturbed' = {}
             PROVE  SettingsOK' /\ (board' # NoBoard /\ ~Reloading' => RanksOK')
  BY DEF TopOK
<1>2. disturbed = {} /\ \A v \in Workers \ {w} : jobs'[v] = jobs[v]
  BY <1>1 DEF Ends, GoesOn
<1>3. ~Reloading
  BY <1>0, <1>1, <1>2, NoReload, IdleJob
<1>4. SettingsOK /\ (board # NoBoard => RanksOK)
  BY <1>2, <1>3 DEF TopOK
<1>5. SettingsOK'
  <2>1. SetOK(jobs[w])'
    BY <1>1, IdleJob DEF Ends, SetOK
  <2> QED BY <1>0, <1>1, <1>2, <1>4, <2>1, SettingsKept
<1>6. ASSUME board' # NoBoard
      PROVE  RanksOK'
  <2>1. PICK cfg \in Config : cfg = board
    BY <1>0, <1>1, <1>6 DEF Basics
  <2>2. cfg.limit \in Nat /\ cfg.ascending \in BOOLEAN
    BY DEF Config
  <2>3. RanksOK /\ InOrder(sorted, cfg.ascending) /\ Len(sorted) <= cfg.limit
    BY <1>1, <1>4, <1>6, <2>1 DEF RanksOK
  <2>4. PICK t : t = sorted'
    OBVIOUS
  <2>5. sorted \in Seq(Entry) /\ OneEach(sorted)
    BY <1>0, ExactHasOneEach DEF CacheOK
  <2>6. PICK keys : keys = jobs[w].keys
    OBVIOUS
  <2>7. t \in Others(sorted, keys)
    BY <1>1, <2>4, <2>6
  <2>8. /\ InOrder(t, cfg.ascending)
        /\ Len(t) <= Len(sorted)
        /\ \A m \in DOMAIN sorted : sorted[m].key \notin keys =>
             \E i \in DOMAIN t : t[i] = sorted[m]
    BY <2>2, <2>3, <2>5, <2>7, OthersInOrder
  <2>9. t \in Seq(Entry)
    BY <2>5, <2>7, OthersTable
  <2>10. Len(t) <= cfg.limit
    BY <2>2, <2>3, <2>5, <2>8, <2>9, TableTypes
  <2>11. ASSUME ~sunk', NEW k \in StoredKeys
         PROVE  Shown(k)' \/ Inserting(k)' \/ LeftOut(k)'
    <3>1. ~sunk /\ (t = sorted \/ ~OffBoard(keys))
      BY <1>1, <2>4, <2>6, <2>11
    <3>2. Shown(k) \/ Inserting(k) \/ LeftOut(k)
      BY <2>3, <2>11, <3>1 DEF RanksOK
    <3>3. k \notin keys
      <4>1. ASSUME k \in keys
            PROVE  FALSE
        <5>1. k \in Keys \ disturbed /\ rows[k] # NoRow
          BY <1>2, <2>11 DEF StoredKeys
        <5>2. KeyOK(k, jobs[w])
          BY <2>6, <4>1, <5>1 DEF KeysOK
        <5> QED BY <1>1, <5>1, <5>2 DEF KeyOK
      <4> QED BY <4>1
    <3>4. Stored(k)' = Stored(k)
      BY <1>1 DEF Stored
    <3>5. CASE Shown(k)
      BY <2>4, <2>8, <3>3, <3>5 DEF Shown
    <3>6. CASE Inserting(k)
      <4>1. PICK v \in Workers : jobs[v].step = "insert" /\ k \in jobs[v].keys
        BY <3>6 DEF Inserting
      <4>2. v # w
        BY <1>1, <4>1
      <4> QED BY <1>2, <4>1, <4>2 DEF Inserting
    <3>7. CASE ~Shown(k) /\ LeftOut(k)
      <4>1. lookup[k] = 0
        BY <1>0, <3>7 DEF CacheOK, Exact, Shown, StoredKeys
      <4>2. OffBoard(keys)
        BY <3>3, <4>1 DEF OffBoard
      <4> QED BY <1>1, <2>4, <3>1, <3>4, <3>7, <4>2 DEF LeftOut
    <3> QED BY <3>2, <3>5, <3>6, <3>7
  <2>12. StoredKeys' = StoredKeys
    BY <1>1 DEF StoredKeys
  <2>13. Len(sorted') <= board'.limit /\ InOrder(sorted', board'.ascending)
    BY <1>1, <2>1, <2>4, <2>8, <2>10
  <2> QED BY <2>11, <2>12, <2>13 DEF RanksOK, InOrder
<1> QED BY <1>5, <1>6

\* Rows may be told to go: those that stay rank as they did.
LEMMA TopDeleted ==
  ASSUME Basics, Alone, TopOK, NEW w \in Workers, DeleteRows(w)
  PROVE  TopOK'
<1>1. /\ jobs[w].step \in {"delete", "purge"}
      /\ Ends(w) \/ Moves(w, "unlink")
      /\ rows' = [k \in Keys |-> IF k \in jobs[w].keys THEN NoRow ELSE rows[k]]
      /\ UNCHANGED <<board, sorted, lookup, files, nextFile, now, sunk>>
  BY RowsDeleted
<1>2. GoesOn(w) /\ jobs'[w].step \in {"idle", "unlink"}
  BY <1>1, IdleJob DEF Ends, Moves
<1>3. \A k \in StoredKeys' : k \in StoredKeys /\ SameRank(Stored(k)', Stored(k))
  BY <1>1, SameRankAlways DEF StoredKeys, Stored
<1>4. \A i \in DOMAIN sorted : SameRank(sorted'[i], sorted[i])
  BY <1>1, SameRankAlways
<1>5. SetOK(jobs[w])'
  BY <1>2, NoSettings
<1>6. jobs[w].step \notin {"read", "load", "insert"} /\ jobs[w].step # "idle"
  BY <1>1
<1>7. disturbed \subseteq disturbed' /\ \A v \in Workers \ {w} : jobs'[v] = jobs[v]
  BY <1>2 DEF GoesOn
<1> QED BY <1>1, <1>3, <1>4, <1>5, <1>6, <1>7, TopFrame

\* A score that is recorded waits to be put in its place.
LEMMA TopRecorded ==
  ASSUME Basics, Alone, TopOK, NEW d \in Devices, RecordScore(d)
  PROVE  TopOK'
<1>0. d \in Workers
  BY DeviceWorks
<1>1. /\ jobs[d].step = "record"
      /\ Refused(d) \/ \E e \in Entry : Written(d, e)
      /\ UNCHANGED <<board, sorted, lookup, files, nextFile, sunk>>
  BY ScoreRecorded
<1>2. \A i \in DOMAIN sorted : SameRank(sorted'[i], sorted[i])
  BY <1>1, SameRankAlways
<1>3. CASE Refused(d)
  <2>1. GoesOn(d) /\ rows' = rows /\ jobs'[d].step = "idle"
    BY <1>3, IdleJob DEF Refused, Ends
  <2>2. SetOK(jobs[d])'
    BY <1>0, <2>1, NoSettings
  <2>3. disturbed \subseteq disturbed' /\ \A v \in Workers \ {d} : jobs'[v] = jobs[v]
    BY <2>1 DEF GoesOn
  <2> QED BY <1>0, <1>1, <2>1, <2>2, <2>3, TopRest
<1>4. ASSUME NEW e \in Entry, Written(d, e)
      PROVE  TopOK'
  <2>1. /\ GoesOn(d) /\ jobs[d].keys = {e.key} /\ jobs'[d].step = "insert"
        /\ jobs'[d].keys = jobs[d].keys /\ jobs'[d].cfg = jobs[d].cfg
        /\ rows' = [rows EXCEPT ![e.key] = RowOf(e)]
    BY <1>4 DEF Written
  <2>2. disturbed \subseteq disturbed' /\ \A v \in Workers \ {d} : jobs'[v] = jobs[v]
    BY <2>1 DEF GoesOn
  <2>3. SettingsOK => SetOK(jobs[d])'
    BY <1>0, <1>1, <2>1 DEF SettingsOK, SetOK
  <2>4. ASSUME NEW k \in StoredKeys'
        PROVE  Inserting(k)' \/ (k \in StoredKeys /\ SameRank(Stored(k)', Stored(k)))
    <3>1. CASE k = e.key
      BY <1>0, <2>1, <3>1 DEF Inserting
    <3>2. CASE k # e.key
      <4>1. rows'[k] = rows[k] /\ k \in Keys /\ rows'[k] # NoRow
        BY <2>1, <2>4, <3>2 DEF StoredKeys, Basics, RowsOK
      <4>2. Stored(k)' = Stored(k) /\ k \in StoredKeys
        BY <4>1 DEF Stored, StoredKeys
      <4> QED BY <4>2, SameRankAlways
    <3> QED BY <3>1, <3>2
  <2> QED BY <1>0, <1>1, <1>2, <2>2, <2>3, <2>4, TopFrame
<1> QED BY <1>1, <1>3, <1>4

\* Data that is attached does not count for the rank.
LEMMA TopAttached ==
  ASSUME Basics, Alone, TopOK, NEW d \in Devices, SetGameData(d)
  PROVE  TopOK'
<1>0. d \in Workers
  BY DeviceWorks
<1>1. /\ jobs[d].step = "attach" /\ jobs[d].entry \in Entry
      /\ Attached(d) \/ Unattached(d)
      /\ UNCHANGED <<board, rows, lookup, nextFile, now, sunk>>
  BY DataSet
<1>2. GoesOn(d) /\ jobs'[d].step \in {"idle", "link"}
  BY <1>1, IdleJob DEF Attached, Unattached, Ends, Moves
<1>3. disturbed \subseteq disturbed' /\ \A v \in Workers \ {d} : jobs'[v] = jobs[v]
  BY <1>2 DEF GoesOn
<1>4. SetOK(jobs[d])'
  BY <1>0, <1>2, NoSettings
<1>5. /\ Len(sorted') = Len(sorted) /\ DOMAIN sorted' = DOMAIN sorted
      /\ \A i \in DOMAIN sorted : SameRank(sorted'[i], sorted[i])
  <2>1. CASE sorted' = sorted
    BY <2>1, SameRankAlways
  <2>2. CASE Attached(d)
    <3>1. PICK e \in Entry : e = jobs[d].entry
      BY <1>1
    <3>2. PICK i \in DOMAIN sorted : i = lookup[e.key]
      BY <2>2, <3>1 DEF Attached
    <3>3. PICK f \in 0 .. MaxFiles : f = e.data
      BY DEF Entry
    <3>4. sorted' = [sorted EXCEPT ![i].data = f]
      BY <2>2, <3>1, <3>2, <3>3 DEF Attached
    <3>5. sorted \in Seq(Entry)
      BY DEF Basics, CacheOK
    <3>6. LET t == [sorted EXCEPT ![i].data = f] IN
          /\ DOMAIN t = DOMAIN sorted /\ Len(t) = Len(sorted)
          /\ \A j \in DOMAIN sorted : /\ t[j].key = sorted[j].key
                                      /\ t[j].score = sorted[j].score
                                      /\ t[j].time = sorted[j].time
      BY <3>5, DataTable
    <3> QED BY <3>4, <3>6 DEF SameRank
  <2> QED BY <1>1, <2>1, <2>2 DEF Unattached
<1>6. \A k \in StoredKeys' : k \in StoredKeys /\ SameRank(Stored(k)', Stored(k))
  BY <1>1, SameRankAlways DEF StoredKeys, Stored
<1> QED BY <1>0, <1>1, <1>3, <1>4, <1>5, <1>6, TopFrame

\* The same of the data that is linked to a row.
LEMMA TopLinked ==
  ASSUME Basics, Alone, TopOK, NEW d \in Devices, SetScoreDataId(d)
  PROVE  TopOK'
<1>0. d \in Workers
  BY DeviceWorks
<1>1. /\ jobs[d].step = "link" /\ jobs[d].entry \in Entry
      /\ Ends(d)
      /\ LET e == jobs[d].entry IN
         rows' = IF rows[e.key] # NoRow /\ rows[e.key].score = e.score
                 THEN [rows EXCEPT ![e.key].data = e.data] ELSE rows
      /\ UNCHANGED <<board, sorted, lookup, files, nextFile, now, sunk>>
  BY DataLinked
<1>2. GoesOn(d) /\ jobs'[d].step = "idle"
  BY <1>1, IdleJob DEF Ends
<1>3. disturbed \subseteq disturbed' /\ \A v \in Workers \ {d} : jobs'[v] = jobs[v]
  BY <1>2 DEF GoesOn
<1>4. SetOK(jobs[d])'
  BY <1>0, <1>2, NoSettings
<1>5. \A i \in DOMAIN sorted : SameRank(sorted'[i], sorted[i])
  BY <1>1, SameRankAlways
<1>6. ASSUME NEW k \in StoredKeys'
      PROVE  k \in StoredKeys /\ SameRank(Stored(k)', Stored(k))
  <2>1. CASE rows' = rows
    BY <1>6, <2>1, SameRankAlways DEF StoredKeys, Stored
  <2>2. CASE rows' # rows
    <3>1. PICK e \in Entry : e = jobs[d].entry
      BY <1>1
    <3>2. rows[e.key] # NoRow /\ rows' = [rows EXCEPT ![e.key].data = e.data]
      BY <1>1, <2>2, <3>1
    <3>3. PICK r \in Row : r = rows[e.key]
      BY <3>2 DEF Basics, RowsOK, Entry
    <3>4. PICK q : q = [r EXCEPT !.data = e.data]
      OBVIOUS
    <3>5. q.score = r.score /\ q.time = r.time
      BY <3>4 DEF Row
    <3>6. k \in Keys /\ rows'[k] # NoRow
      BY <1>6 DEF StoredKeys
    <3>7. rows'[k] = IF k = e.key THEN q ELSE rows[k]
      BY <3>2, <3>3, <3>4, <3>6 DEF Basics, RowsOK
    <3>8. k \in StoredKeys /\ rows'[k].score = rows[k].score /\ rows'[k].time = rows[k].time
      BY <3>2, <3>3, <3>5, <3>6, <3>7 DEF StoredKeys
    <3> QED BY <3>8 DEF SameRank, Stored
  <2> QED BY <2>1, <2>2
<1>7. jobs[d].step \notin {"read", "load", "insert"} /\ jobs[d].step # "idle"
  BY <1>1
<1> QED BY <1>0, <1>1, <1>3, <1>4, <1>5, <1>6, <1>7, TopFrame

\* A board that is created has nothing on it and nothing off it.
LEMMA TopCreated ==
  ASSUME Basics, BoardThere, Alone, TopOK, NEW d \in Devices, CreateBoard(d)
  PROVE  TopOK'
<1>0. d \in Workers
  BY DeviceWorks
<1>1. /\ jobs[d].step = "create" /\ Moves(d, "board")
      /\ board' = DefaultConfig
      /\ UNCHANGED <<rows, sorted, lookup, files, nextFile, now, sunk>>
  BY BoardCreated
<1>2. disturbed' = disturbed /\ \A v \in Workers \ {d} : jobs'[v] = jobs[v]
  BY <1>1 DEF Moves, GoesOn
<1>3. SetOK(jobs[d])' /\ jobs[d].step \notin {"read", "load", "insert"}
  BY <1>0, <1>1, NoSettings DEF Moves
<1>4. CASE board = DefaultConfig
  BY <1>0, <1>1, <1>2, <1>3, <1>4, TopRest
<1>5. CASE board = NoBoard
  <2>1. StoredKeys' = {} /\ sorted' = <<>>
    BY <1>1, <1>5 DEF BoardThere, StoredKeys
  <2>2. ASSUME NEW v \in Workers, v # d
        PROVE  SetOK(jobs[v])'
    <3>1. jobs[v].step \in {"idle", "create", "purge", "unlink", "evict"}
      BY <1>5 DEF BoardThere
    <3>2. jobs'[v] = jobs[v]
      BY <1>2, <2>2
    <3> QED BY <1>1, <3>1, <3>2 DEF SetOK
  <2>3. RanksOK'
    <3>1. DefaultConfig.limit \in Nat
      BY ScoreConstants DEF Config
    <3>2. Len(sorted') = 0 /\ DOMAIN sorted' = {}
      BY <2>1
    <3>3. Len(sorted') <= board'.limit
      BY <1>1, <3>1, <3>2
    <3> QED BY <2>1, <3>2, <3>3 DEF RanksOK, InOrder
  <2> QED BY <1>3, <2>2, <2>3 DEF TopOK, SettingsOK
<1>6. CASE board \notin {NoBoard, DefaultConfig}
  <2>1. disturbed = {} => SetOK(jobs[d])
    BY <1>0 DEF TopOK, SettingsOK
  <2>2. disturbed # {}
    BY <1>1, <1>6, <2>1 DEF SetOK
  <2> QED BY <1>2, <2>2 DEF TopOK
<1> QED BY <1>4, <1>5, <1>6

\* New settings keep everybody else out until the table is loaded.
LEMMA TopReloads ==
  ASSUME Basics, Alone, TopOK
  PROVE  /\ \A cfg \in Configs : SetBoard(cfg) => TopOK'
         /\ ReadScores => TopOK'
         /\ LoadTable => TopOK'
<1>1. PICK s \in Workers : s = "service"
  BY ServiceWorks
<1>2. ASSUME disturbed = {}, jobs[s].keys = Keys,
             \A v \in Workers \ {s} : jobs'[v] = jobs[v], SetOK(jobs[s])'
      PROVE  SettingsOK'
  <2>1. ASSUME NEW v \in Workers, v # s
        PROVE  SetOK(jobs[v])'
    <3>1. jobs'[v] = Idle
      BY <1>2, <2>1, OthersIdle
    <3> QED BY <3>1, IdleJob DEF SetOK
  <2> QED BY <1>2, <2>1 DEF SettingsOK
<1>3. ASSUME NEW cfg \in Configs, SetBoard(cfg)
      PROVE  TopOK'
  <2>1. /\ Basics' /\ Begins(s)
        /\ jobs'[s].step = "read" /\ jobs'[s].keys = Keys
        /\ jobs'[s].cfg = cfg /\ board' = cfg
    BY <1>1, <1>3, SettingsBegin
  <2>2. Alone'
    BY <2>1, AloneBegins
  <2>3. ASSUME disturbed' = {}, NEW v \in Workers, v # s
        PROVE  SetOK(jobs[v])'
    <3>1. jobs'[v] = jobs[v] /\ jobs'[s].keys \cap jobs'[v].keys \subseteq {}
      BY <2>2, <2>3, <2>1 DEF Begins, Alone
    <3>2. jobs'[v] \in Job /\ JobOK(jobs'[v])
      BY <2>1 DEF Basics
    <3>3. jobs'[v].keys = {}
      BY <2>1, <3>1, <3>2 DEF Job
    <3>4. jobs'[v].step = "idle"
      BY <3>2, <3>3 DEF JobOK
    <3> QED BY <3>4 DEF SetOK
  <2>4. SetOK(jobs[s])'
    BY <2>1 DEF SetOK
  <2>5. Reloading'
    BY <2>1 DEF Reloading
  <2> QED BY <2>3, <2>4, <2>5 DEF TopOK, SettingsOK
<1>4. ASSUME ReadScores
      PROVE  TopOK'
  <2>1. /\ jobs[s].step = "read" /\ GoesOn(s) /\ jobs'[s].step = "load"
        /\ jobs'[s].cfg = jobs[s].cfg
        /\ jobs'[s].loaded \in ScoresForBoard(jobs[s].cfg)
        /\ UNCHANGED <<board, rows>>
    BY <1>1, <1>4, ScoresRead
  <2>2. jobs[s].keys = Keys
    BY <2>1 DEF Basics, JobOK
  <2>3. ASSUME disturbed = {}
        PROVE  SetOK(jobs[s])'
    <3>1. jobs[s].cfg = board
      BY <2>1, <2>3 DEF TopOK, SettingsOK, SetOK
    <3>2. ScoresForBoard(board)' = ScoresForBoard(board)
      BY <2>1 DEF ScoresForBoard, StoredKeys, Stored
    <3> QED BY <2>1, <3>1, <3>2 DEF SetOK
  <2>4. disturbed' = disturbed /\ \A v \in Workers \ {s} : jobs'[v] = jobs[v]
    BY <2>1 DEF GoesOn
  <2>5. Reloading'
    BY <2>1 DEF Reloading
  <2> QED BY <1>2, <2>2, <2>3, <2>4, <2>5 DEF TopOK
<1>5. ASSUME LoadTable
      PROVE  TopOK'
  <2>1. /\ jobs[s].step = "load" /\ Ends(s)
        /\ sorted' = jobs[s].loaded
        /\ board' = board /\ rows' = rows
    BY <1>1, <1>5, TableLoaded
  <2>2. jobs[s].keys = Keys /\ jobs[s].cfg \in Config
    BY <2>1 DEF Basics, JobOK, Job
  <2>3. disturbed' = disturbed /\ \A v \in Workers \ {s} : jobs'[v] = jobs[v]
    BY <2>1 DEF Ends, GoesOn
  <2>4. SetOK(jobs[s])'
    BY <2>1, IdleJob DEF Ends, SetOK
  <2>5. ASSUME disturbed = {}
        PROVE  RanksOK'
    <3>1. SetOK(jobs[s])
      BY <2>5 DEF TopOK, SettingsOK
    <3>2. PICK cfg \in Config : cfg = board
      BY <2>1, <2>2, <3>1 DEF SetOK
    <3>3. PICK t \in ScoresForBoard(cfg) : t = jobs[s].loaded
      BY <2>1, <3>1, <3>2 DEF SetOK
    <3>4. sorted' = t /\ board' = cfg /\ rows' = rows /\ RowsOK
      BY <2>1, <3>2, <3>3 DEF Basics
    <3> QED BY <3>4, RanksRead
  <2> QED BY <1>2, <2>2, <2>3, <2>4, <2>5 DEF TopOK
<1> QED BY <1>3, <1>4, <1>5

\* The start of the server loads what the table has.
LEMMA TopRestarted ==
  ASSUME Basics, Restart
  PROVE  TopOK'
<1>1. /\ \A w \in Workers : jobs'[w] = Idle
      /\ board' \in Configs \cup {board}
      /\ IF board' = NoBoard THEN sorted' = <<>> ELSE sorted' \in ScoresForBoard(board')
      /\ rows' = rows
  BY Restarted
<1>2. SettingsOK'
  BY <1>1, IdleJob DEF SettingsOK, SetOK
<1>3. ASSUME board' # NoBoard
      PROVE  RanksOK'
  <2>1. PICK cfg \in Config : cfg = board'
    BY <1>1, <1>3, ScoreConstants DEF Basics
  <2>2. PICK t \in ScoresForBoard(cfg) : t = sorted'
    BY <1>1, <1>3, <2>1
  <2>3. RowsOK /\ sorted' = t /\ rows' = rows /\ board' = cfg
    BY <1>1, <2>1, <2>2 DEF Basics
  <2> QED BY <2>3, RanksRead
<1> QED BY <1>2, <1>3 DEF TopOK

\* A job that begins has the settings there are, or none.
LEMMA TopBegins ==
  ASSUME Basics, Alone, TopOK, NEW w \in Workers, Begins(w),
         UNCHANGED <<board, rows, sorted, sunk>>, SetOK(jobs[w])'
  PROVE  TopOK'
<1>1. /\ \A v \in Workers \ {w} : jobs'[v] = jobs[v]
      /\ disturbed \subseteq disturbed' /\ jobs[w].step = "idle"
  BY IdleJob DEF Begins
<1> QED BY <1>1, TopRest

\* So does one that goes on to a step without settings.
LEMMA TopMoves ==
  ASSUME Basics, Alone, TopOK, NEW w \in Workers, GoesOn(w),
         jobs[w].step \notin {"read", "load", "insert"},
         UNCHANGED <<board, rows, sorted, sunk>>, SetOK(jobs[w])'
  PROVE  TopOK'
<1>1. \A v \in Workers \ {w} : jobs'[v] = jobs[v]
  BY DEF GoesOn
<1>2. disturbed \subseteq disturbed'
  BY DEF GoesOn
<1> QED BY <1>1, <1>2, TopRest

\* Every step leaves the board the top of the table while nothing is disturbed.
LEMMA TopStep ==
  ASSUME SInv, Alone, KeysOK, TopOK, [Next]_vars
  PROVE  TopOK'
<1>0. Basics /\ BoardThere
  BY DEF SInv
<1>1. ASSUME NEW d \in Devices, NEW k \in Keys, CmdRecordScore(d, k)
      PROVE  TopOK'
  <2>1. /\ Begins(d)
        /\ jobs'[d].step = IF board = NoBoard THEN "create" ELSE "record"
        /\ jobs'[d].cfg = IF board = NoBoard THEN DefaultConfig ELSE board
        /\ UNCHANGED <<board, rows, sorted, lookup, files, nextFile, now, sunk>>
    BY <1>0, <1>1, RecordBegins
  <2>2. SetOK(jobs[d])'
    BY <2>1 DEF SetOK
  <2> QED BY <1>0, <2>1, <2>2, TopBegins, DeviceWorks
<1>2. ASSUME NEW d \in Devices, NEW k \in Keys, CmdRecordScoreData(d, k)
      PROVE  TopOK'
  <2>1. /\ Begins(d) /\ jobs'[d].step = "attach"
        /\ UNCHANGED <<board, rows, sorted, lookup, now, sunk>>
    BY <1>0, <1>2, DataBegins
  <2> QED BY <1>0, <2>1, TopBegins, NoSettings, DeviceWorks
<1>3. ASSUME NEW d \in Devices, CreateBoard(d)
      PROVE  TopOK'
  BY <1>0, <1>3, TopCreated
<1>4. ASSUME NEW d \in Devices, GetCreatedBoard(d)
      PROVE  TopOK'
  <2>1. board # NoBoard
    BY <1>0, <1>4, DeviceWorks DEF BoardThere, GetCreatedBoard, At
  <2>2. /\ jobs[d].step = "board" /\ GoesOn(d)
        /\ jobs'[d].step = "record" /\ jobs'[d].cfg = board
        /\ UNCHANGED <<board, rows, sorted, lookup, files, nextFile, now, sunk>>
    BY <1>0, <1>4, <2>1, CreatedBoardRead
  <2>3. SetOK(jobs[d])'
    BY <2>2 DEF SetOK
  <2>4. jobs[d].step \notin {"read", "load", "insert"}
    BY <2>2
  <2> QED BY <1>0, <2>2, <2>3, <2>4, TopMoves, DeviceWorks
<1>5. ASSUME NEW d \in Devices, RecordScore(d)
      PROVE  TopOK'
  BY <1>0, <1>5, TopRecorded
<1>6. ASSUME NEW d \in Devices, InsertScore(d)
      PROVE  TopOK'
  BY <1>6, TopInserted
<1>7. ASSUME NEW d \in Devices, SetGameData(d)
      PROVE  TopOK'
  BY <1>0, <1>7, TopAttached
<1>8. ASSUME NEW d \in Devices, SetScoreDataId(d)
      PROVE  TopOK'
  BY <1>0, <1>8, TopLinked
<1>9. ASSUME NEW k \in Keys, DeleteScore(k)
      PROVE  TopOK'
  <2>1. PICK w \in Workers : w = "admin"
    BY DEF Workers
  <2>2. /\ Begins(w) /\ jobs'[w].step = "delete"
        /\ UNCHANGED <<board, rows, sorted, lookup, files, nextFile, now, sunk>>
    BY <1>0, <1>9, <2>1, DeletionBegins DEF Removal
  <2> QED BY <1>0, <2>2, TopBegins, NoSettings
<1>10. ASSUME NEW w \in Workers, NEW k \in Keys, DeleteAccount(w, k[1])
       PROVE  TopOK'
  <2>1. /\ Begins(w) /\ jobs'[w].step = "purge"
        /\ UNCHANGED <<board, rows, sorted, lookup, files, nextFile, now, sunk>>
    BY <1>0, <1>10, PurgeBegins DEF Removal
  <2> QED BY <1>0, <2>1, TopBegins, NoSettings
<1>11. ASSUME NEW w \in Workers, DeleteRows(w)
       PROVE  TopOK'
  BY <1>0, <1>11, TopDeleted
<1>12. ASSUME NEW w \in Workers, RemoveFiles(w)
       PROVE  TopOK'
  <2>1. /\ jobs[w].step = "unlink" /\ Moves(w, "evict")
        /\ UNCHANGED <<board, rows, sorted, lookup, nextFile, now, sunk>>
    BY <1>0, <1>12, FilesRemoved
  <2>2. /\ GoesOn(w) /\ jobs'[w].step = "evict"
        /\ jobs[w].step \notin {"read", "load", "insert"}
    BY <2>1 DEF Moves
  <2> QED BY <1>0, <2>1, <2>2, TopMoves, NoSettings
<1>13. ASSUME NEW w \in Workers, RemoveEntries(w)
       PROVE  TopOK'
  BY <1>13, TopEvicted
<1>14. ASSUME NEW cfg \in Configs, SetBoard(cfg)
       PROVE  TopOK'
  BY <1>0, <1>14, TopReloads
<1>15. CASE ReadScores
  BY <1>0, <1>15, TopReloads
<1>16. CASE LoadTable
  BY <1>0, <1>16, TopReloads
<1>17. CASE Restart
  BY <1>0, <1>17, TopRestarted
<1>18. CASE UNCHANGED vars
  <2>1. PICK w \in Workers : w = "admin"
    BY DEF Workers
  <2>2. jobs' = jobs /\ disturbed' = disturbed
    BY <1>18 DEF vars
  <2>3. SettingsOK <=> SettingsOK'
    BY <1>18 DEF vars, SettingsOK, SetOK, ScoresForBoard, StoredKeys, Stored
  <2>4. RanksOK <=> RanksOK'
    BY <1>18 DEF vars, RanksOK, InOrder, Shown, Inserting, LeftOut, StoredKeys, Stored
  <2>5. Reloading <=> Reloading'
    BY <1>18 DEF vars, Reloading
  <2>6. board' = board
    BY <1>18 DEF vars
  <2> QED BY <2>2, <2>3, <2>4, <2>5, <2>6 DEF TopOK
<1> QED BY <1>1, <1>2, <1>3, <1>4, <1>5, <1>6, <1>7, <1>8, <1>9, <1>10, <1>11, <1>12,
           <1>13, <1>14, <1>15, <1>16, <1>17, <1>18 DEF Next

\* At the start there is no board.
LEMMA TopInit ==
  ASSUME Init
  PROVE  TopOK
<1>1. board = NoBoard /\ \A w \in Workers : jobs[w] = Idle
  BY DEF Init
<1>2. SettingsOK
  BY <1>1, IdleJob DEF SettingsOK, SetOK
<1> QED BY <1>1, <1>2 DEF TopOK

-----------------------------------------------------------------------------
(* The shared rank. *)

\* A set of the first positions 1 .. i that has, with each, all above it is
\* 1 .. n for the number n of its members.
LEMMA FirstPositions ==
  ASSUME NEW i \in Nat, NEW P \in SUBSET (1 .. i),
         \A m \in P : \A j \in 1 .. m : j \in P
  PROVE  Cardinality(P) \in 0 .. i /\ P = 1 .. Cardinality(P)
<1>1. IsFiniteSet(1 .. i)
  BY FS_Interval
<1>2. IsFiniteSet(P)
  BY <1>1, FS_Subset
<1>3. PICK n \in Nat : n = Cardinality(P)
  BY <1>2, FS_CardinalityType
<1>4. \A m \in Nat : IsFiniteSet(1 .. m) /\ Cardinality(1 .. m) = m
  <2>1. ASSUME NEW m \in Nat
        PROVE  IsFiniteSet(1 .. m) /\ Cardinality(1 .. m) = m
    <3>1. IsFiniteSet(1 .. m) /\ Cardinality(1 .. m) = IF 1 > m THEN 0 ELSE m - 1 + 1
      BY FS_Interval
    <3> QED BY <3>1
  <2> QED BY <2>1
<1>5. ASSUME NEW m \in P
      PROVE  m <= n
  <2>1. m \in Nat /\ 1 .. m \in SUBSET P
    OBVIOUS
  <2>2. Cardinality(1 .. m) <= Cardinality(P)
    BY <1>2, <2>1, FS_Subset
  <2> QED BY <1>3, <1>4, <2>1, <2>2
<1>6. ASSUME NEW m \in 1 .. n, m \notin P
      PROVE  FALSE
  <2>1. m - 1 \in Nat
    OBVIOUS
  <2>2. P \in SUBSET (1 .. m - 1)
    <3>1. ASSUME NEW x \in P
          PROVE  x \in 1 .. m - 1
      <4>1. x \in 1 .. i
        OBVIOUS
      <4>2. ~(m \in 1 .. x)
        BY <1>6, <3>1
      <4> QED BY <4>1, <4>2
    <3> QED BY <3>1
  <2>3. IsFiniteSet(1 .. m - 1) /\ Cardinality(1 .. m - 1) = m - 1
    BY <1>4, <2>1
  <2>4. Cardinality(P) <= Cardinality(1 .. m - 1)
    BY <2>2, <2>3, FS_Subset
  <2> QED BY <1>3, <2>3, <2>4
<1>7. P = 1 .. n
  <2>1. \A m \in P : m \in 1 .. n
    BY <1>5
  <2> QED BY <1>6, <2>1
<1>8. n \in 0 .. i
  <2>1. Cardinality(P) <= Cardinality(1 .. i)
    BY <1>1, FS_Subset
  <2> QED BY <1>3, <1>4, <2>1
<1> QED BY <1>3, <1>7, <1>8

\* Which score is better.
Better(x, y, ascending) == IF ascending THEN x < y ELSE x > y

\* On a board that is the top of the table the shared rank is one more than the
\* number of better scores that are stored.
LEMMA SharedRankCounts ==
  ASSUME CacheOK, RowsOK, NEW ascending \in BOOLEAN, InOrder(sorted, ascending),
         \A k \in Keys : ShownAsStored(k),
         \A k \in StoredKeys : Shown(k) \/
           \A i \in DOMAIN sorted : ~RanksBefore(Stored(k), sorted[i], ascending),
         NEW i \in DOMAIN sorted
  PROVE  SharedRank(i) = 1 + Cardinality({k \in StoredKeys :
           IF ascending THEN rows[k].score < sorted[i].score
                        ELSE rows[k].score > sorted[i].score})
<1>1. /\ Len(sorted) \in Nat /\ DOMAIN sorted = 1 .. Len(sorted)
      /\ \A j \in DOMAIN sorted : sorted[j] \in Entry
  BY TableTypes DEF CacheOK
<1>2. i \in Nat /\ 1 <= i /\ 1 .. i \subseteq DOMAIN sorted
  BY <1>1
<1>3. \A j \in DOMAIN sorted : sorted[j].score \in Int
  BY <1>1, EntryNumbers
<1>4. PICK score \in Int : score = sorted[i].score
  BY <1>3
<1>5. PICK P \in SUBSET (1 .. i) :
        P = {j \in 1 .. i : Better(sorted[j].score, score, ascending)}
  OBVIOUS
<1>6. \A j, m \in DOMAIN sorted : j < m =>
        ~Better(sorted[m].score, sorted[j].score, ascending)
  BY DEF InOrder, RanksBefore, Better
<1>7. \A m \in P : \A j \in 1 .. m : j \in P
  <2>1. ASSUME NEW m \in P, NEW j \in 1 .. m, j # m
        PROVE  j \in P
    <3>1. m \in 1 .. i /\ Better(sorted[m].score, score, ascending)
      BY <1>5, <2>1
    <3>2. j < m /\ j \in 1 .. i
      BY <1>2, <2>1, <3>1
    <3>3. j \in DOMAIN sorted /\ m \in DOMAIN sorted
      BY <1>2, <3>1, <3>2
    <3>4. ~Better(sorted[m].score, sorted[j].score, ascending)
      BY <1>6, <3>2, <3>3
    <3>5. sorted[j].score \in Int /\ sorted[m].score \in Int
      BY <1>3, <3>3
    <3>6. Better(sorted[j].score, score, ascending)
      BY <3>1, <3>4, <3>5 DEF Better
    <3> QED BY <1>5, <3>2, <3>6
  <2> QED BY <2>1
<1>8. PICK n \in 0 .. i : n = Cardinality(P) /\ P = 1 .. n
  BY <1>2, <1>7, FirstPositions
<1>18. n \in Nat /\ n <= i /\ P = 1 .. n
  <2>1. n \in 0 .. i
    OBVIOUS
  <2> QED BY <1>2, <1>8, <2>1
<1>9. i \notin P /\ n < i
  <2>1. i \notin P
    BY <1>4, <1>5 DEF Better
  <2> QED BY <1>2, <1>18, <2>1
<1>10. \A j \in 1 .. i : sorted[j].score = score <=> j \notin P
  <2>1. ASSUME NEW j \in 1 .. i
        PROVE  sorted[j].score = score <=> j \notin P
    <3>1. j \in DOMAIN sorted /\ sorted[j].score \in Int
      BY <1>2, <1>3
    <3>2. j < i => ~Better(score, sorted[j].score, ascending)
      BY <1>4, <1>6, <3>1
    <3>3. ~Better(score, sorted[j].score, ascending)
      BY <1>2, <1>4, <3>2 DEF Better
    <3>4. j \in P <=> Better(sorted[j].score, score, ascending)
      BY <1>5
    <3> QED BY <3>1, <3>3, <3>4 DEF Better
  <2> QED BY <2>1
<1>11. \A j \in 1 .. i : sorted[j].score = score <=> n < j
  BY <1>10, <1>18
<1>12. SharedRank(i) = n + 1
  <2> DEFINE First(j) == /\ \A m \in j .. i : sorted[m].score = sorted[i].score
                         /\ j = 1 \/ sorted[j - 1].score # sorted[i].score
  <2>1. n + 1 \in 1 .. i /\ First(n + 1)
    <3>1. \A m \in n + 1 .. i : sorted[m].score = score
      BY <1>8, <1>11
    <3>2. n + 1 = 1 \/ sorted[n + 1 - 1].score # score
      <4>1. CASE n = 0
        BY <4>1
      <4>2. CASE n # 0
        <5>1. n \in 1 .. i /\ ~(n < n) /\ n + 1 - 1 = n
          BY <1>8, <4>2
        <5> QED BY <1>11, <5>1
      <4> QED BY <4>1, <4>2
    <3>3. n + 1 \in 1 .. i
      BY <1>2, <1>9, <1>18
    <3> QED BY <1>4, <3>1, <3>2, <3>3
  <2>2. ASSUME NEW j \in 1 .. i, First(j)
        PROVE  j = n + 1
    <3>1. sorted[j].score = score
      BY <1>2, <1>4, <2>2
    <3>2. n < j
      BY <1>11, <3>1
    <3>3. ASSUME n + 1 < j
          PROVE  FALSE
      <4>1. j - 1 \in 1 .. i /\ n < j - 1 /\ j # 1
        BY <1>2, <1>18, <3>3
      <4>2. sorted[j - 1].score = score
        BY <1>11, <4>1
      <4> QED BY <1>4, <2>2, <4>1, <4>2
    <3> QED BY <1>18, <3>2, <3>3
  <2>3. SharedRank(i) = CHOOSE j \in 1 .. i : First(j)
    BY DEF SharedRank
  <2> HIDE DEF First
  <2> QED BY <2>1, <2>2, <2>3
<1>13. PICK B : B = {k \in StoredKeys : Better(rows[k].score, score, ascending)}
  OBVIOUS
<1>14. \A m \in P : sorted[m].key \in B
  <2>1. ASSUME NEW m \in P
        PROVE  sorted[m].key \in B
    <3>1. m \in DOMAIN sorted /\ Better(sorted[m].score, score, ascending)
      BY <1>2, <1>5
    <3>2. PICK k \in Keys : k = sorted[m].key
      BY <1>1, <3>1 DEF Entry
    <3>3. rows[k] # NoRow /\ sorted[m] = Stored(k)
      BY <3>1, <3>2 DEF ShownAsStored
    <3>4. rows[k].score = sorted[m].score
      BY <3>3 DEF Stored
    <3> QED BY <1>13, <3>1, <3>2, <3>3, <3>4 DEF StoredKeys
  <2> QED BY <2>1
<1>15. ASSUME NEW k \in B
       PROVE  \E m \in P : sorted[m].key = k
  <2>1. k \in StoredKeys /\ Better(rows[k].score, score, ascending)
    BY <1>13
  <2>2. Stored(k).score = rows[k].score
    BY DEF Stored
  <2>3. RanksBefore(Stored(k), sorted[i], ascending)
    BY <1>4, <2>1, <2>2 DEF RanksBefore, Better
  <2>4. PICK m \in DOMAIN sorted : sorted[m].key = k
    BY <2>1, <2>3 DEF Shown
  <2>5. sorted[m].score = rows[k].score
    BY <2>1, <2>2, <2>4 DEF ShownAsStored, StoredKeys
  <2>6. Better(sorted[m].score, score, ascending)
    BY <2>1, <2>5
  <2>7. m \in 1 .. i
    <3>1. ~(i < m)
      BY <1>4, <1>6, <2>6
    <3> QED BY <1>1, <1>2, <3>1
  <2> QED BY <1>5, <2>4, <2>6, <2>7
<1>16. Cardinality(B) = n
  <2>1. PICK f : f = [m \in P |-> sorted[m].key]
    OBVIOUS
  <2>2. f \in Surjection(P, B)
    BY <1>14, <1>15, <2>1 DEF Surjection
  <2>3. f \in Injection(P, B)
    <3>1. ASSUME NEW j \in P, NEW m \in P, f[j] = f[m]
          PROVE  j = m
      <4>1. j \in DOMAIN sorted /\ m \in DOMAIN sorted /\ sorted[j].key = sorted[m].key
        BY <1>2, <2>1, <3>1
      <4> QED BY <4>1 DEF CacheOK, Exact
    <3>2. f \in [P -> B]
      BY <1>14, <2>1
    <3> QED BY <3>1, <3>2 DEF Injection, IsInjective
  <2>4. IsFiniteSet(P)
    BY <1>8, FS_Interval
  <2> QED BY <1>8, <2>2, <2>3, <2>4, FS_Surjection
<1>17. B = {k \in StoredKeys : IF ascending THEN rows[k].score < sorted[i].score
                               ELSE rows[k].score > sorted[i].score}
  BY <1>4, <1>13 DEF Better
<1> QED BY <1>12, <1>16, <1>17, <1>18

\* When nobody is at work, nothing was disturbed and no entry has fallen since
\* rows were dropped, the cached board is the top of the table in order and
\* within its limit, and shared ranks count the better scores, however many
\* scores were put in their place one by one (ScoreCache::InsertScore, LoadTable).
THEOREM BoardAlwaysTop == Spec => []BoardIsTop
<1>1. ScoreInv /\ TopOK /\ [Next]_vars => TopOK'
  BY TopStep DEF ScoreInv
<1>2. Init => TopOK
  BY TopInit
<1>3. ASSUME ScoreInv, TopOK
      PROVE  BoardIsTop
  <2> SUFFICES ASSUME Settled
               PROVE  /\ Len(sorted) <= board.limit
                      /\ \A i, j \in DOMAIN sorted :
                           i < j => ~RanksBefore(sorted[j], sorted[i], board.ascending)
                      /\ \A k \in StoredKeys : lookup[k] = 0 =>
                           /\ Len(sorted) = board.limit
                           /\ \A i \in DOMAIN sorted :
                                ~RanksBefore(Stored(k), sorted[i], board.ascending)
                      /\ \A i \in DOMAIN sorted :
                           SharedRank(i) = 1 + Cardinality({k \in StoredKeys :
                             IF board.ascending THEN rows[k].score < sorted[i].score
                                                ELSE rows[k].score > sorted[i].score})
    BY DEF BoardIsTop
  <2>1. /\ \A w \in Workers : jobs[w].step = "idle" /\ jobs[w].keys = {}
        /\ disturbed = {} /\ ~sunk /\ board # NoBoard
    BY IdleJob DEF Settled
  <2>2. RanksOK /\ \A k \in StoredKeys : Shown(k) \/ LeftOut(k)
    BY <1>3, <2>1 DEF TopOK, Reloading, RanksOK, Inserting
  <2>3. CacheOK /\ RowsOK /\ board \in Config
    BY <1>3, <2>1 DEF ScoreInv, SInv, Basics
  <2>4. \A k \in Keys : ShownAsStored(k)
    BY <1>3, <2>1 DEF ScoreInv, KeysOK
  <2>5. \A k \in StoredKeys : lookup[k] = 0 => ~Shown(k)
    <3>1. \A m \in DOMAIN sorted : m # 0
      BY <2>3, TableTypes DEF CacheOK
    <3> QED BY <2>3, <3>1 DEF Shown, CacheOK, Exact
  <2>6. PICK ascending \in BOOLEAN : ascending = board.ascending
    BY <2>3 DEF Config
  <2>7. InOrder(sorted, ascending)
    BY <2>2, <2>6 DEF RanksOK
  <2>8. \A k \in StoredKeys : Shown(k) \/
          \A i \in DOMAIN sorted : ~RanksBefore(Stored(k), sorted[i], ascending)
    BY <2>2, <2>6 DEF LeftOut
  <2>9. ASSUME NEW i \in DOMAIN sorted
        PROVE  SharedRank(i) = 1 + Cardinality({k \in StoredKeys :
                 IF ascending THEN rows[k].score < sorted[i].score
                              ELSE rows[k].score > sorted[i].score})
    BY <2>3, <2>4, <2>7, <2>8, SharedRankCounts
  <2> QED BY <2>2, <2>5, <2>6, <2>9 DEF RanksOK, InOrder, LeftOut
<1>4. Spec => []TopOK
  BY <1>1, <1>2, ScoreInvAlways, PTL DEF Spec
<1> QED BY <1>3, <1>4, ScoreInvAlways, PTL
=============================================================================
