----------------------------- MODULE LeakProofs -----------------------------
(***************************************************************************)
(* The reader's verdict, for every snapshot, page size and client: the     *)
(* lists it makes of a file, its searches in them, what it marks, the      *)
(* groups it splits what is left into, and so what it reports.             *)
(*                                                                         *)
(* What the reader's operators make of a list is said without their folds  *)
(* first; then in terms of the headers that were sent, which is what the   *)
(* properties speak of; and the invariant of the reader's phases puts the  *)
(* two together.                                                           *)
(***************************************************************************)
EXTENDS AnalysisProofs

-----------------------------------------------------------------------------
(* Filtered: r takes from the first n members of s those in S, at the      *)
(* places in m.                                                            *)
Picks(r, m, s, S, T, n) ==
    /\ r \in Seq(T) /\ m \in [1 .. Len(r) -> 1 .. n]
    /\ \A j \in 1 .. Len(r) : r[j] = s[m[j]] /\ r[j] \in S
    /\ \A i, j \in 1 .. Len(r) : i < j => m[i] < m[j]
    /\ \A k \in 1 .. n : s[k] \in S => \E j \in 1 .. Len(r) : m[j] = k

LEMMA PicksMore ==
    ASSUME NEW T, NEW s \in Seq(T), NEW S, NEW n \in 1 .. Len(s), NEW r, NEW m,
           Picks(r, m, s, S, T, n - 1)
    PROVE  \E q : Picks(IF s[n] \in S THEN Append(r, s[n]) ELSE r, q, s, S, T, n)
<1>1. n \in Nat \ {0} /\ s[n] \in T
  OBVIOUS
<1>2. r \in Seq(T) /\ m \in [1 .. Len(r) -> 1 .. n - 1] /\ Len(r) \in Nat
  BY DEF Picks
<1>3. CASE s[n] \in S
  <2> DEFINE L == Len(r)
             a == Append(r, s[n])
             q == [j \in 1 .. L + 1 |-> IF j = L + 1 THEN n ELSE m[j]]
  <2>1. a \in Seq(T) /\ Len(a) = L + 1 /\ a[L + 1] = s[n] /\ \A j \in 1 .. L : a[j] = r[j]
    BY <1>1, <1>2
  <2> HIDE DEF a
  <2>2. L \in Nat /\ \A j \in 1 .. L : m[j] \in 1 .. n - 1
    BY <1>2
  <2> HIDE DEF L
  <2>3. q \in [1 .. L + 1 -> 1 .. n] /\ q[L + 1] = n /\ \A j \in 1 .. L : q[j] = m[j]
    BY <1>1, <2>2
  <2> HIDE DEF q
  <2>4. \A j \in 1 .. L + 1 : a[j] = s[q[j]] /\ a[j] \in S
    <3> TAKE j \in 1 .. L + 1
    <3>1. j \in 1 .. L \/ j = L + 1
      BY <2>2
    <3> QED
      BY <1>3, <2>1, <2>3, <3>1 DEF Picks, L
  <2>5. \A i, j \in 1 .. L + 1 : i < j => q[i] < q[j]
    <3> SUFFICES ASSUME NEW i \in 1 .. L + 1, NEW j \in 1 .. L + 1, i < j PROVE q[i] < q[j]
      OBVIOUS
    <3>1. i \in 1 .. L /\ q[i] = m[i] /\ m[i] \in 1 .. n - 1
      BY <2>2, <2>3
    <3>2. CASE j = L + 1
      BY <1>1, <2>3, <3>1, <3>2
    <3>3. CASE j # L + 1
      <4>1. j \in 1 .. L /\ q[j] = m[j]
        BY <2>2, <2>3, <3>3
      <4> QED
        BY <3>1, <4>1 DEF Picks, L
    <3> QED
      BY <3>2, <3>3
  <2>6. \A k \in 1 .. n : s[k] \in S => \E j \in 1 .. L + 1 : q[j] = k
    <3> SUFFICES ASSUME NEW k \in 1 .. n, s[k] \in S PROVE \E j \in 1 .. L + 1 : q[j] = k
      OBVIOUS
    <3>1. CASE k = n
      BY <2>2, <2>3, <3>1
    <3>2. CASE k # n
      <4>1. k \in 1 .. n - 1
        BY <1>1, <3>2
      <4>2. PICK j \in 1 .. L : m[j] = k
        BY <4>1 DEF Picks, L
      <4> QED
        BY <2>2, <2>3, <4>2
    <3> QED
      BY <3>1, <3>2
  <2>7. Picks(a, q, s, S, T, n)
    BY <2>1, <2>3, <2>4, <2>5, <2>6 DEF Picks
  <2> QED
    BY <1>3, <2>7 DEF a
<1>4. CASE s[n] \notin S
  <2>1. m \in [1 .. Len(r) -> 1 .. n]
    BY <1>1, <1>2
  <2>2. \A k \in 1 .. n : s[k] \in S => k \in 1 .. n - 1
    BY <1>1, <1>4
  <2>3. Picks(r, m, s, S, T, n)
    BY <1>2, <2>1, <2>2 DEF Picks
  <2> QED
    BY <1>4, <2>3
<1> QED
  BY <1>3, <1>4

LEMMA FilteredIs ==
    ASSUME NEW T, NEW s \in Seq(T), NEW S
    PROVE  \E m : Picks(Filtered(s, S), m, s, S, T, Len(s))
<1> DEFINE N == Len(s)
           More(r, n) == IF s[n] \in S THEN Append(r, s[n]) ELSE r
           step == [n \in 1 .. N |-> [r \in Seq(T) |-> More(r, n)]]
           Is(g) == g = [n \in 0 .. N |-> IF n = 0 THEN <<>> ELSE More(g[n - 1], n)]
           upTo == CHOOSE g : Is(g)
<1>1. N \in Nat /\ \A n \in 1 .. N : s[n] \in T
  OBVIOUS
<1>2. Filtered(s, S) = upTo[N]
  BY DEF Filtered
<1> HIDE DEF N
<1>3. step \in [1 .. N -> [Seq(T) -> Seq(T)]]
  BY <1>1
<1>4. \A n \in 1 .. N : \A r \in Seq(T) : step[n][r] = More(r, n)
  OBVIOUS
<1> HIDE DEF step, More
<1>5. PICK g \in [0 .. N -> Seq(T)] : Recurs(g, N, <<>>, step)
  <2>1. <<>> \in Seq(T)
    OBVIOUS
  <2> QED
    BY <1>1, <1>3, <2>1, Recursion
<1>6. \A n \in 1 .. N : step[n][g[n - 1]] = More(g[n - 1], n)
  <2> TAKE n \in 1 .. N
  <2>1. n - 1 \in 0 .. N
    BY <1>1
  <2> QED
    BY <1>4, <1>5, <2>1
<1>7. Is(g)
  <2>1. g = [n \in 0 .. N |-> IF n = 0 THEN <<>> ELSE step[n][g[n - 1]]]
    BY <1>5, Zenon DEF Recurs
  <2>2. \A n \in 0 .. N : n = 0 \/ n \in 1 .. N
    BY <1>1
  <2> QED
    BY <1>6, <2>1, <2>2
<1>8. Is(upTo)
  BY <1>7, Zenon
<1> HIDE DEF upTo
<1> DEFINE Have == {n \in 0 .. N : \E m : Picks(upTo[n], m, s, S, T, n)}
<1>9. 0 \in Have
  <2>1. upTo[0] = <<>>
    BY <1>1, <1>8
  <2>2. Picks(<<>>, [j \in 1 .. 0 |-> 0], s, S, T, 0)
    BY DEF Picks
  <2> QED
    BY <1>1, <2>1, <2>2
<1>10. \A n \in 1 .. N : n - 1 \in Have => n \in Have
  <2> SUFFICES ASSUME NEW n \in 1 .. N, n - 1 \in Have PROVE n \in Have
    OBVIOUS
  <2>1. PICK m : Picks(upTo[n - 1], m, s, S, T, n - 1)
    OBVIOUS
  <2>2. n \in 0 .. N /\ n # 0
    BY <1>1
  <2>3. upTo[n] = More(upTo[n - 1], n)
    BY <1>8, <2>2
  <2>4. \E q : Picks(More(upTo[n - 1], n), q, s, S, T, n)
    BY <2>1, PicksMore DEF More, N
  <2> QED
    BY <2>2, <2>3, <2>4
<1> HIDE DEF Have
<1>11. 0 .. N \subseteq Have
  BY <1>1, <1>9, <1>10, UpTo
<1>12. N \in Have
  BY <1>1, <1>11
<1> QED
  BY <1>2, <1>12 DEF Have, N

-----------------------------------------------------------------------------
(* The elements of the list.                                               *)
Attributes == {"mmap", "content"}

ListElement == [addr : Nat, size : Nat, special : BOOLEAN, backtraces : BOOLEAN,
                dataAttrib : SUBSET Attributes, userContent : Seq(Nat)]

(* The element that the reader makes of the record of a header.            *)
Elt(h) == HeapElement(Made(h))

LEMMA WordType ==
    ASSUME snapshot \in Snapshots, NEW a
    PROVE  Word(a) \in Nat
<1>1. a \in DOMAIN snapshot.words => snapshot.words[a] \in Nat
  BY SnapshotAssumption
<1> QED
  BY <1>1 DEF Word

LEMMA EltType ==
    ASSUME NEW h \in HeaderType, snapshot \in Snapshots
    PROVE  /\ Elt(h) \in ListElement
           /\ Elt(h).addr = h.addr /\ Elt(h).size = h.len
           /\ Elt(h).special = Root(h) /\ Elt(h).backtraces = (h.backtraces > 0)
           /\ Elt(h).dataAttrib = h.dataAttrib
           /\ ToSet(Elt(h).userContent) = Words(h)
<1> DEFINE n == IF "content" \in h.dataAttrib THEN h.len ELSE 0
           u == [i \in DOMAIN Content(h) |-> Word(h.addr + i - 1)]
<1>1. n \in Nat /\ h.addr \in Nat /\ h.len \in Nat /\ h.backtraces \in Int
      /\ h.dataAttrib \in SUBSET Attributes
  BY DEF HeaderType, Attributes
<1>2. DOMAIN Content(h) = 1 .. n
  BY DEF Content
<1>3. Made(h)[1][1] = h
  <2>1. Made(h)[1] = <<h>>
    BY HeaderTokens
  <2>2. <<h>>[1] = h
    OBVIOUS
  <2> QED
    BY <2>1, <2>2
<1>4. Elt(h) = [addr |-> h.addr, size |-> h.len, special |-> h.backtraces \in {THREAD, GLOBAL},
                backtraces |-> h.backtraces > 0, dataAttrib |-> h.dataAttrib, userContent |-> u]
  BY <1>3 DEF Elt, HeapElement
<1>5. u \in [1 .. n -> Nat]
  BY <1>2, WordType
<1>6. u \in Seq(Nat)
  BY <1>1, <1>5
<1>7. ToSet(u) = Words(h)
  <2>1. DOMAIN u = 1 .. n /\ \A i \in 1 .. n : u[i] = Word(h.addr + i - 1)
    BY <1>2
  <2> HIDE DEF u
  <2>2. CASE "content" \in h.dataAttrib
    <3>1. n = h.len /\ Words(h) = {Word(a) : a \in h.addr .. (h.addr + h.len - 1)}
      BY <2>2 DEF Words
    <3>2. \A i \in 1 .. n : h.addr + i - 1 \in h.addr .. (h.addr + h.len - 1)
      BY <1>1, <3>1
    <3>3. \A a \in h.addr .. (h.addr + h.len - 1) :
             a - h.addr + 1 \in 1 .. n /\ h.addr + (a - h.addr + 1) - 1 = a
      BY <1>1, <3>1
    <3> QED
      BY <2>1, <3>1, <3>2, <3>3 DEF ToSet
  <2>3. CASE "content" \notin h.dataAttrib
    <3>1. 1 .. n = {} /\ Words(h) = {}
      BY <2>3 DEF Words
    <3> QED
      BY <2>1, <3>1 DEF ToSet
  <2> QED
    BY <2>2, <2>3
<1> HIDE DEF u
<1>8. (h.backtraces > 0) \in BOOLEAN /\ (h.backtraces \in {THREAD, GLOBAL}) \in BOOLEAN
  OBVIOUS
<1> QED
  BY <1>1, <1>4, <1>6, <1>7, <1>8 DEF ListElement, Root

-----------------------------------------------------------------------------
(* Sorting.                                                                *)
Ascending(s) == \A i, j \in DOMAIN s : i < j => s[i].addr <= s[j].addr

LEMMA InsertAtIs ==
    ASSUME NEW T, NEW s \in Seq(T), NEW p \in 1 .. Len(s) + 1, NEW e \in T
    PROVE  LET r == InsertAt(s, p, e)
           IN  /\ r \in Seq(T) /\ Len(r) = Len(s) + 1 /\ r[p] = e
               /\ \A i \in 1 .. p - 1 : r[i] = s[i]
               /\ \A i \in p .. Len(s) : r[i + 1] = s[i]
<1> DEFINE a == SubSeq(s, 1, p - 1)
           b == SubSeq(s, p, Len(s))
           r == InsertAt(s, p, e)
<1>1. a \in Seq(T) /\ Len(a) = p - 1 /\ \A i \in 1 .. p - 1 : a[i] = s[i]
  OBVIOUS
<1>2. b \in Seq(T) /\ Len(b) = Len(s) + 1 - p /\ \A i \in 1 .. Len(b) : b[i] = s[p + i - 1]
  OBVIOUS
<1>3. r = a \o <<e>> \o b
  BY DEF InsertAt
<1>4. <<e>> \in Seq(T) /\ Len(<<e>>) = 1 /\ <<e>>[1] = e
  OBVIOUS
<1> HIDE DEF a, b, r
<1> DEFINE c == a \o <<e>>
<1>5. c \in Seq(T) /\ Len(c) = p /\ c[p] = e /\ \A i \in 1 .. p - 1 : c[i] = s[i]
  BY <1>1, <1>4
<1> HIDE DEF c
<1>6. r = c \o b
  BY <1>3 DEF c
<1>7. r \in Seq(T) /\ Len(r) = Len(s) + 1
  BY <1>2, <1>5, <1>6
<1>8. \A i \in 1 .. p : r[i] = c[i]
  BY <1>5, <1>2, <1>6
<1>9. \A i \in p .. Len(s) : r[i + 1] = s[i]
  <2> TAKE i \in p .. Len(s)
  <2>1. i + 1 - p \in 1 .. Len(b) /\ i + 1 = Len(c) + (i + 1 - p) /\ p + (i + 1 - p) - 1 = i
    BY <1>2, <1>5
  <2>2. r[Len(c) + (i + 1 - p)] = b[i + 1 - p]
    BY <1>2, <1>5, <1>6, <2>1
  <2> QED
    BY <1>2, <2>1, <2>2
<1> QED
  BY <1>5, <1>7, <1>8, <1>9 DEF r

(* An element goes behind those that do not have a greater address.        *)
LEMMA InsertIs ==
    ASSUME NEW s \in Seq(ListElement), Ascending(s), NEW e \in ListElement
    PROVE  /\ Insert(s, e) \in Seq(ListElement) /\ Len(Insert(s, e)) = Len(s) + 1
           /\ Ascending(Insert(s, e))
           /\ \E p \in 1 .. Len(s) + 1 :
                 /\ Insert(s, e)[p] = e
                 /\ \A i \in 1 .. p - 1 : Insert(s, e)[i] = s[i]
                 /\ \A i \in p .. Len(s) : Insert(s, e)[i + 1] = s[i]
<1> DEFINE B == {i \in DOMAIN s : s[i].addr <= e.addr}
           c == Cardinality(B)
           p == 1 + c
           r == InsertAt(s, p, e)
           n == Len(s)
<1>1. n \in Nat /\ DOMAIN s = 1 .. n /\ \A i \in 1 .. n : s[i] \in ListElement /\ s[i].addr \in Nat
  <2>1. \A x \in ListElement : x.addr \in Nat
    BY DEF ListElement
  <2> QED
    BY <2>1
<1>2. \A i, j \in 1 .. n : i < j => s[i].addr <= s[j].addr
  BY <1>1 DEF Ascending
<1>3. e.addr \in Nat
  BY DEF ListElement
<1>4. \E k \in 0 .. n : B = 1 .. k
  <2> DEFINE K == {k \in 0 .. n : \A i \in 1 .. n : i <= n - k => s[i].addr <= e.addr}
  <2>1. n \in K
    BY <1>1
  <2> HIDE DEF K
  <2>2. K \subseteq Nat
    BY DEF K
  <2>3. PICK k \in K : \A m \in K : k <= m
    BY <2>1, <2>2, LeastNat
  <2>4. k \in 0 .. n /\ \A i \in 1 .. n : i <= n - k => s[i].addr <= e.addr
    BY DEF K
  <2>5. \A i \in 1 .. n : i > n - k => ~(s[i].addr <= e.addr)
    <3> SUFFICES ASSUME NEW i \in 1 .. n, i > n - k, s[i].addr <= e.addr PROVE FALSE
      OBVIOUS
    <3>1. n - i \in 0 .. n /\ n - i < k
      BY <1>1, <2>4
    <3>2. \A j \in 1 .. n : j <= i => s[j].addr <= e.addr
      <4> TAKE j \in 1 .. n
      <4>1. j <= i => s[j].addr <= s[i].addr
        BY <1>1, <1>2
      <4> QED
        BY <1>1, <1>3, <4>1
    <3>3. \A j \in 1 .. n : j <= n - (n - i) => s[j].addr <= e.addr
      BY <1>1, <3>2
    <3>4. n - i \in K
      BY <3>1, <3>3 DEF K
    <3> QED
      BY <2>3, <2>4, <3>1, <3>4
  <2>6. B = 1 .. n - k
    BY <1>1, <2>4, <2>5
  <2>7. n - k \in 0 .. n
    BY <1>1, <2>4
  <2> HIDE DEF B
  <2> QED
    BY <2>6, <2>7, Zenon
<1>5. PICK k \in 0 .. n : B = 1 .. k
  BY <1>4
<1>6. c = k
  <2>1. 1 \in Int /\ k \in Int /\ k >= 0
    BY <1>1
  <2>2. Cardinality(1 .. k) = IF 1 > k THEN 0 ELSE k - 1 + 1
    BY <2>1, FS_Interval
  <2>3. Cardinality(1 .. k) = k
    BY <2>1, <2>2
  <2> QED
    BY <1>5, <2>3
<1>7. Insert(s, e) = r
  BY DEF Insert
<1> HIDE DEF c
<1>8. p \in 1 .. n + 1
  BY <1>1, <1>6
<1>9. /\ r \in Seq(ListElement) /\ Len(r) = n + 1 /\ r[p] = e
      /\ \A i \in 1 .. p - 1 : r[i] = s[i]
      /\ \A i \in p .. n : r[i + 1] = s[i]
  BY <1>8, InsertAtIs
<1> HIDE DEF r
<1>10. \A i \in 1 .. n : (i <= p - 1 => s[i].addr <= e.addr) /\ (i >= p => s[i].addr > e.addr)
  <2> TAKE i \in 1 .. n
  <2>1. i \in B <=> i <= k
    BY <1>1, <1>5
  <2>2. i \in B <=> s[i].addr <= e.addr
    BY <1>1
  <2> QED
    BY <1>1, <1>3, <1>5, <1>6, <2>1, <2>2
<1> HIDE DEF B, p, n
<1>11. Ascending(r)
  <2> SUFFICES ASSUME NEW i \in 1 .. n + 1, NEW j \in 1 .. n + 1, i < j
               PROVE  r[i].addr <= r[j].addr
    BY <1>9 DEF Ascending
  <2>1. CASE j < p
    <3>1. i \in 1 .. p - 1 /\ j \in 1 .. p - 1 /\ i \in 1 .. n /\ j \in 1 .. n
      BY <1>1, <1>8, <2>1
    <3> QED
      BY <1>2, <1>9, <3>1
  <2>2. CASE j = p
    <3>1. i \in 1 .. p - 1 /\ i \in 1 .. n
      BY <1>1, <1>8, <2>2
    <3> QED
      BY <1>9, <1>10, <2>2, <3>1
  <2>3. CASE j > p
    <3>1. j - 1 \in p .. n /\ j - 1 \in 1 .. n /\ r[j] = s[j - 1]
      <4>1. j - 1 \in p .. n /\ j - 1 \in 1 .. n /\ (j - 1) + 1 = j
        BY <1>1, <1>8, <2>3
      <4> QED
        BY <1>9, <4>1
    <3>2. CASE i < p
      <4>1. i \in 1 .. p - 1 /\ i \in 1 .. n /\ i < j - 1
        BY <1>1, <1>8, <2>3, <3>2
      <4> QED
        BY <1>2, <1>9, <3>1, <4>1
    <3>3. CASE i = p
      BY <1>1, <1>3, <1>9, <1>10, <3>1, <3>3
    <3>4. CASE i > p
      <4>1. i - 1 \in p .. n /\ i - 1 \in 1 .. n /\ (i - 1) + 1 = i /\ i - 1 < j - 1
        BY <1>1, <1>8, <2>3, <3>4
      <4>2. r[i] = s[i - 1]
        BY <1>9, <4>1
      <4> QED
        BY <1>2, <3>1, <4>1, <4>2
    <3> QED
      BY <1>8, <3>2, <3>3, <3>4
  <2> QED
    BY <1>8, <2>1, <2>2, <2>3
<1> QED
  BY <1>7, <1>8, <1>9, <1>11 DEF n

(* r has the first n members of s, each at the place q says.               *)
Permutes(r, q, s, n) ==
    /\ r \in Seq(ListElement) /\ Len(r) = n /\ q \in [1 .. n -> 1 .. n]
    /\ \A i \in 1 .. n : r[i] = s[q[i]]
    /\ \A i, j \in 1 .. n : q[i] = q[j] => i = j
    /\ \A k \in 1 .. n : \E i \in 1 .. n : q[i] = k

LEMMA InsertPermutes ==
    ASSUME NEW s \in Seq(ListElement), NEW n \in 1 .. Len(s), NEW r, NEW q,
           Permutes(r, q, s, n - 1), Ascending(r)
    PROVE  Ascending(Insert(r, s[n])) /\ \E t : Permutes(Insert(r, s[n]), t, s, n)
<1> DEFINE a == Insert(r, s[n])
           m == n - 1
<1>1. n \in Nat /\ m \in Nat /\ n = m + 1 /\ s[n] \in ListElement
  OBVIOUS
<1>2. /\ r \in Seq(ListElement) /\ Len(r) = m /\ q \in [1 .. m -> 1 .. m]
      /\ \A i \in 1 .. m : r[i] = s[q[i]]
      /\ \A i, j \in 1 .. m : q[i] = q[j] => i = j
      /\ \A k \in 1 .. m : \E i \in 1 .. m : q[i] = k
  BY Zenon DEF Permutes
<1> HIDE DEF m
<1> DEFINE e == s[n]
<1>0. r \in Seq(ListElement) /\ Ascending(r) /\ e \in ListElement
  BY <1>1, <1>2
<1> HIDE DEF e
<1>3. /\ a \in Seq(ListElement) /\ Len(a) = Len(r) + 1 /\ Ascending(a)
      /\ \E p \in 1 .. Len(r) + 1 :
            /\ a[p] = e
            /\ \A i \in 1 .. p - 1 : a[i] = r[i]
            /\ \A i \in p .. Len(r) : a[i + 1] = r[i]
  <2>1. a = Insert(r, e)
    BY DEF e
  <2> HIDE DEF a
  <2> QED
    BY <1>0, <2>1, InsertIs, Zenon
<1> USE DEF e
<1> HIDE DEF a
<1>4. a \in Seq(ListElement) /\ Len(a) = n /\ Ascending(a)
  BY <1>1, <1>2, <1>3
<1>13. PICK p \in 1 .. m + 1 :
           /\ a[p] = s[n]
           /\ \A i \in 1 .. p - 1 : a[i] = r[i]
           /\ \A i \in p .. m : a[i + 1] = r[i]
  BY <1>2, <1>3
<1> DEFINE t == [i \in 1 .. n |-> IF i < p THEN q[i] ELSE IF i = p THEN n ELSE q[i - 1]]
<1>5. \A i \in 1 .. n : /\ i < p => i \in 1 .. m /\ i \in 1 .. p - 1
                        /\ i > p => i - 1 \in 1 .. m /\ i - 1 \in p .. m /\ (i - 1) + 1 = i
  BY <1>1
<1>6. \A i \in 1 .. m : q[i] \in 1 .. m
  BY <1>2
<1>7. t \in [1 .. n -> 1 .. n]
  <2> SUFFICES ASSUME NEW i \in 1 .. n
               PROVE  (IF i < p THEN q[i] ELSE IF i = p THEN n ELSE q[i - 1]) \in 1 .. n
    OBVIOUS
  <2>1. 1 .. m \subseteq 1 .. n /\ n \in 1 .. n
    BY <1>1
  <2>2. i < p \/ i = p \/ i > p
    BY <1>1
  <2> QED
    BY <1>5, <1>6, <2>1, <2>2
<1>9. \A i \in 1 .. n : /\ i < p => t[i] = q[i] /\ t[i] \in 1 .. m
                        /\ i = p => t[i] = n
                        /\ i > p => t[i] = q[i - 1] /\ t[i] \in 1 .. m
  <2> TAKE i \in 1 .. n
  <2>1. i < p => ~(i = p) /\ ~(i > p)
    BY <1>1
  <2>2. i > p => ~(i = p) /\ ~(i < p)
    BY <1>1
  <2> QED
    BY <1>5, <1>6, <2>1, <2>2
<1>10. n \notin 1 .. m
  BY <1>1
<1> HIDE DEF t
<1>8. \A i \in 1 .. n : a[i] = s[t[i]]
  <2> TAKE i \in 1 .. n
  <2>1. i < p \/ i = p \/ i > p
    BY <1>1
  <2>2. CASE i < p
    <3>1. i \in 1 .. m /\ i \in 1 .. p - 1 /\ t[i] = q[i]
      BY <1>5, <1>9, <2>2
    <3> QED
      BY <1>2, <1>13, <3>1
  <2>3. CASE i = p
    BY <1>9, <1>13, <2>3
  <2>4. CASE i > p
    <3>1. i - 1 \in 1 .. m /\ i - 1 \in p .. m /\ (i - 1) + 1 = i /\ t[i] = q[i - 1]
      BY <1>5, <1>9, <2>4
    <3>2. \A k \in p .. m : k + 1 = i => a[i] = r[k]
      BY <1>13
    <3> QED
      BY <1>2, <3>1, <3>2
  <2> QED
    BY <2>1, <2>2, <2>3, <2>4
<1>11. \A i, j \in 1 .. n : t[i] = t[j] => i = j
  <2> SUFFICES ASSUME NEW i \in 1 .. n, NEW j \in 1 .. n, t[i] = t[j] PROVE i = j
    OBVIOUS
  <2>1. (i < p \/ i = p \/ i > p) /\ (j < p \/ j = p \/ j > p)
    BY <1>1
  <2>2. CASE i = p \/ j = p
    BY <1>9, <1>10, <2>1, <2>2
  <2>3. CASE i < p /\ j < p
    <3>1. q[i] = q[j] /\ i \in 1 .. m /\ j \in 1 .. m
      BY <1>5, <1>9, <2>3
    <3> QED
      BY <1>2, <3>1
  <2>4. CASE i < p /\ j > p
    <3>1. q[i] = q[j - 1] /\ i = j - 1
      BY <1>2, <1>5, <1>9, <2>4
    <3> QED
      BY <1>1, <2>4, <3>1
  <2>5. CASE i > p /\ j < p
    <3>1. q[i - 1] = q[j] /\ i - 1 = j
      BY <1>2, <1>5, <1>9, <2>5
    <3> QED
      BY <1>1, <2>5, <3>1
  <2>6. CASE i > p /\ j > p
    <3>1. q[i - 1] = q[j - 1] /\ i - 1 = j - 1
      BY <1>2, <1>5, <1>9, <2>6
    <3> QED
      BY <1>1, <3>1
  <2> QED
    BY <2>1, <2>2, <2>3, <2>4, <2>5, <2>6
<1>12. \A k \in 1 .. n : \E i \in 1 .. n : t[i] = k
  <2> SUFFICES ASSUME NEW k \in 1 .. n PROVE \E i \in 1 .. n : t[i] = k
    OBVIOUS
  <2>1. CASE k = n
    BY <1>1, <1>9, <2>1
  <2>2. CASE k # n
    <3>1. k \in 1 .. m
      BY <1>1, <2>2
    <3>2. PICK i \in 1 .. m : q[i] = k
      BY <1>2, <3>1
    <3>3. CASE i < p
      <4>1. i \in 1 .. n
        BY <1>1
      <4> QED
        BY <1>9, <3>2, <3>3, <4>1
    <3>4. CASE ~(i < p)
      <4>1. i + 1 \in 1 .. n /\ i + 1 > p /\ (i + 1) - 1 = i
        BY <1>1, <3>4
      <4> QED
        BY <1>9, <3>2, <4>1
    <3> QED
      BY <3>3, <3>4
  <2> QED
    BY <2>1, <2>2
<1>14. Permutes(a, t, s, n)
  BY <1>4, <1>7, <1>8, <1>11, <1>12 DEF Permutes
<1> QED
  BY <1>4, <1>14 DEF a

LEMMA SortedIs ==
    ASSUME NEW s \in Seq(ListElement)
    PROVE  Ascending(Sorted(s)) /\ \E q : Permutes(Sorted(s), q, s, Len(s))
<1> DEFINE N == Len(s)
           S == {r \in Seq(ListElement) : Ascending(r)}
           step == [n \in 1 .. N |-> [r \in S |-> Insert(r, s[n])]]
           Is(g) == g = [n \in 0 .. N |-> IF n = 0 THEN <<>> ELSE Insert(g[n - 1], s[n])]
           done == CHOOSE g : Is(g)
<1>1. N \in Nat /\ \A n \in 1 .. N : s[n] \in ListElement
  OBVIOUS
<1>2. Sorted(s) = done[N]
  BY DEF Sorted
<1>3. step \in [1 .. N -> [S -> S]]
  BY <1>1, InsertIs
<1>4. \A n \in 1 .. N : \A r \in S : step[n][r] = Insert(r, s[n])
  OBVIOUS
<1>5. <<>> \in S
  BY DEF Ascending
<1> HIDE DEF step, N, S
<1>6. PICK g \in [0 .. N -> S] : Recurs(g, N, <<>>, step)
  BY <1>1, <1>3, <1>5, Recursion
<1>7. \A n \in 1 .. N : step[n][g[n - 1]] = Insert(g[n - 1], s[n])
  <2> TAKE n \in 1 .. N
  <2>1. n - 1 \in 0 .. N
    BY <1>1
  <2> QED
    BY <1>4, <1>6, <2>1
<1>8. Is(g)
  <2>1. g = [n \in 0 .. N |-> IF n = 0 THEN <<>> ELSE step[n][g[n - 1]]]
    BY <1>6, Zenon DEF Recurs
  <2>2. \A n \in 0 .. N : n = 0 \/ n \in 1 .. N
    BY <1>1
  <2> QED
    BY <1>7, <2>1, <2>2
<1>9. Is(done)
  BY <1>8, Zenon
<1> HIDE DEF done
<1> DEFINE Have == {n \in 0 .. N : Ascending(done[n]) /\ \E q : Permutes(done[n], q, s, n)}
<1>10. 0 \in Have
  <2>1. done[0] = <<>>
    BY <1>1, <1>9
  <2>2. Ascending(<<>>) /\ Permutes(<<>>, [j \in 1 .. 0 |-> 0], s, 0)
    BY DEF Permutes, Ascending
  <2> QED
    BY <1>1, <2>1, <2>2
<1>11. \A n \in 1 .. N : n - 1 \in Have => n \in Have
  <2> SUFFICES ASSUME NEW n \in 1 .. N, n - 1 \in Have PROVE n \in Have
    OBVIOUS
  <2>1. PICK q : Permutes(done[n - 1], q, s, n - 1)
    OBVIOUS
  <2>2. n \in 0 .. N /\ n # 0
    BY <1>1
  <2>3. done[n] = Insert(done[n - 1], s[n])
    BY <1>9, <2>2
  <2>4. Ascending(Insert(done[n - 1], s[n])) /\ \E t : Permutes(Insert(done[n - 1], s[n]), t, s, n)
    BY <2>1, InsertPermutes DEF N
  <2> QED
    BY <2>2, <2>3, <2>4
<1> HIDE DEF Have
<1>12. 0 .. N \subseteq Have
  BY <1>1, <1>10, <1>11, UpTo
<1>13. N \in Have
  BY <1>1, <1>12
<1> QED
  BY <1>2, <1>13 DEF Have, N

-----------------------------------------------------------------------------
(* The search.                                                             *)
Between(N) == [lo : 0 .. N, hi : 0 .. N, candidate : 0 .. N]

Holds(e, x) == e.addr < x /\ x <= e.addr + e.size

(* The last element that does not start behind x holds it.                 *)
Before(a, x, p) ==
    Holds(a[p], x) /\ \A j \in 1 .. Len(a) : j > p => a[j].addr > x

Searching(a, x, n, lo, hi, c) ==
    /\ lo \in 0 .. Len(a) /\ hi \in 0 .. Len(a) /\ c \in 0 .. Len(a)
    /\ lo >= hi \/ hi - lo <= Len(a) - n
    /\ c # 0 => a[c].addr = x \/ Holds(a[c], x)
    /\ \/ lo >= hi /\ c # 0 /\ a[c].addr = x
       \/ \A j \in 1 .. Len(a) : a[j].addr = x => lo < j /\ j <= hi
    /\ \A p \in 1 .. Len(a) : Before(a, x, p) => (lo < p /\ p <= hi) \/ (p <= lo /\ c = p)

SearchInv(a, x, n, at) ==
    at \in Between(Len(a)) /\ Searching(a, x, n, at.lo, at.hi, at.candidate)

LEMMA SearchRoundIs ==
    ASSUME NEW N \in Nat, NEW at \in Between(N), NEW a, NEW x,
           NEW lo, lo = at.lo, NEW hi, hi = at.hi, NEW c, c = at.candidate,
           NEW mid, mid = ((lo + hi) \div 2) + 1
    PROVE  SearchRound(a, x, at) =
              IF lo >= hi THEN at
              ELSE IF a[mid].addr = x THEN [lo |-> hi, hi |-> hi, candidate |-> mid]
              ELSE IF a[mid].addr > x THEN [lo |-> lo, hi |-> mid - 1, candidate |-> c]
              ELSE IF a[mid].addr + a[mid].size >= x THEN [lo |-> mid, hi |-> hi, candidate |-> mid]
              ELSE [lo |-> mid, hi |-> hi, candidate |-> c]
<1>1. ASSUME NEW u
      PROVE  /\ [at EXCEPT !.hi = u] = [lo |-> lo, hi |-> u, candidate |-> c]
             /\ [at EXCEPT !.lo = u] = [lo |-> u, hi |-> hi, candidate |-> c]
  BY DEF Between
<1> QED
  BY <1>1 DEF SearchRound

LEMMA SearchRoundInv ==
    ASSUME NEW a \in Seq(ListElement), Ascending(a), NEW x \in Nat, NEW n \in 1 .. Len(a),
           NEW at, SearchInv(a, x, n - 1, at)
    PROVE  SearchInv(a, x, n, SearchRound(a, x, at))
<1> DEFINE N == Len(a)
           lo == at.lo
           hi == at.hi
           c == at.candidate
           mid == ((lo + hi) \div 2) + 1
           r == SearchRound(a, x, at)
<1>1. N \in Nat /\ n \in 1 .. N
  OBVIOUS
<1>2. \A i \in 1 .. N : a[i].addr \in Nat /\ a[i].size \in Nat
  <2>1. \A e \in ListElement : e.addr \in Nat /\ e.size \in Nat
    BY DEF ListElement
  <2> QED
    BY <2>1
<1>3. \A i, j \in 1 .. N : i < j => a[i].addr <= a[j].addr
  <2>1. DOMAIN a = 1 .. N
    OBVIOUS
  <2> QED
    BY <2>1 DEF Ascending
<1>4. /\ lo \in 0 .. N /\ hi \in 0 .. N /\ c \in 0 .. N
      /\ lo >= hi \/ hi - lo <= N - (n - 1)
      /\ c # 0 => a[c].addr = x \/ Holds(a[c], x)
      /\ \/ lo >= hi /\ c # 0 /\ a[c].addr = x
         \/ \A j \in 1 .. N : a[j].addr = x => lo < j /\ j <= hi
      /\ \A p \in 1 .. N : Before(a, x, p) => (lo < p /\ p <= hi) \/ (p <= lo /\ c = p)
  BY DEF SearchInv, Searching
<1>5. /\ at \in Between(N)
      /\ r = IF lo >= hi THEN at
             ELSE IF a[mid].addr = x THEN [lo |-> hi, hi |-> hi, candidate |-> mid]
             ELSE IF a[mid].addr > x THEN [lo |-> lo, hi |-> mid - 1, candidate |-> c]
             ELSE IF a[mid].addr + a[mid].size >= x THEN [lo |-> mid, hi |-> hi, candidate |-> mid]
             ELSE [lo |-> mid, hi |-> hi, candidate |-> c]
  <2>1. at \in Between(N)
    BY DEF SearchInv
  <2> HIDE DEF N, lo, hi, c, mid
  <2>2. lo = at.lo /\ hi = at.hi /\ c = at.candidate /\ mid = ((lo + hi) \div 2) + 1
    BY DEF lo, hi, c, mid
  <2> QED
    BY <1>1, <2>1, <2>2, SearchRoundIs
<1> HIDE DEF N, r
<1>6. ASSUME NEW t, NEW u, NEW v, r = [lo |-> t, hi |-> u, candidate |-> v],
             Searching(a, x, n, t, u, v)
      PROVE  SearchInv(a, x, n, r)
  <2>1. t \in 0 .. N /\ u \in 0 .. N /\ v \in 0 .. N
    BY <1>6 DEF Searching, N
  <2>2. r \in Between(N) /\ r.lo = t /\ r.hi = u /\ r.candidate = v
    BY <1>6, <2>1 DEF Between
  <2> QED
    BY <1>6, <2>2 DEF SearchInv, N
<1> HIDE DEF lo, hi, c
<1>7. CASE lo >= hi
  <2>1. r = at
    BY <1>5, <1>7
  <2>2. Searching(a, x, n, lo, hi, c)
    BY <1>4, <1>7 DEF Searching, N
  <2> QED
    BY <1>5, <2>1, <2>2 DEF SearchInv, lo, hi, c, N, r
<1>8. CASE lo < hi
  <2>1. mid \in 1 .. N /\ lo < mid /\ mid <= hi /\ ~(lo >= hi)
    BY <1>1, <1>4, <1>8
  <2> HIDE DEF mid
  <2>2. \A j \in 1 .. N : a[j].addr = x => lo < j /\ j <= hi
    BY <1>4, <2>1
  <2>4. \A p \in 1 .. N : Before(a, x, p) => /\ \A j \in 1 .. N : j > p => a[j].addr > x
                                             /\ a[p].addr < x /\ x <= a[p].addr + a[p].size
    BY DEF Before, Holds, N
  <2>5. CASE a[mid].addr = x
    <3>1. r = [lo |-> hi, hi |-> hi, candidate |-> mid]
      BY <1>5, <2>1, <2>5
    <3>3. \A p \in 1 .. N : ~Before(a, x, p)
      <4> SUFFICES ASSUME NEW p \in 1 .. N, Before(a, x, p) PROVE FALSE
        OBVIOUS
      <4>1. a[p].addr < x /\ a[p].addr \in Nat /\ (mid > p => a[mid].addr > x)
        BY <1>2, <2>1, <2>4
      <4>2. mid < p => a[mid].addr <= a[p].addr
        BY <1>3, <2>1
      <4> QED
        BY <2>1, <2>5, <4>1, <4>2
    <3>4. Searching(a, x, n, hi, hi, mid)
      BY <1>1, <1>4, <2>1, <2>5, <3>3 DEF Searching, N
    <3> QED
      BY <1>6, <3>1, <3>4 DEF r
  <2>6. CASE a[mid].addr > x
    <3>1. r = [lo |-> lo, hi |-> mid - 1, candidate |-> c]
      BY <1>2, <1>5, <2>1, <2>6
    <3>2. mid - 1 \in 0 .. N /\ (lo >= mid - 1 \/ mid - 1 - lo <= N - n)
      BY <1>1, <1>4, <1>8, <2>1
    <3>3. \A j \in 1 .. N : a[j].addr <= x => j <= mid - 1
      <4> TAKE j \in 1 .. N
      <4>1. mid < j => a[mid].addr <= a[j].addr
        BY <1>3, <2>1
      <4> QED
        BY <1>2, <2>1, <2>6, <4>1
    <3>4. \A j \in 1 .. N : a[j].addr = x => lo < j /\ j <= mid - 1
      BY <2>2, <3>3
    <3>5. \A p \in 1 .. N : Before(a, x, p) => p <= mid - 1
      BY <1>2, <2>4, <3>3
    <3>6. \A p \in 1 .. N : Before(a, x, p) => (lo < p /\ p <= mid - 1) \/ (p <= lo /\ c = p)
      BY <1>4, <3>5
    <3>7. Searching(a, x, n, lo, mid - 1, c)
      BY <1>4, <3>2, <3>4, <3>6 DEF Searching, N
    <3> QED
      BY <1>6, <3>1, <3>7 DEF r
  <2>7. CASE a[mid].addr < x
    <3>1. mid \in 0 .. N /\ (mid >= hi \/ hi - mid <= N - n)
      BY <1>1, <1>4, <1>8, <2>1
    <3>2. \A j \in 1 .. N : a[j].addr >= x => j > mid
      <4> TAKE j \in 1 .. N
      <4>1. j < mid => a[j].addr <= a[mid].addr
        BY <1>3, <2>1
      <4> QED
        BY <1>2, <2>1, <2>7, <4>1
    <3>3. \A j \in 1 .. N : a[j].addr = x => mid < j /\ j <= hi
      BY <1>2, <2>2, <3>2
    <3>4. \A p \in 1 .. N : Before(a, x, p) => mid <= p
      <4> TAKE p \in 1 .. N
      <4>1. Before(a, x, p) /\ mid > p => a[mid].addr > x
        BY <2>1, <2>4
      <4> QED
        BY <1>2, <2>1, <2>7, <4>1
    <3>5. CASE a[mid].addr + a[mid].size >= x
      <4>1. r = [lo |-> mid, hi |-> hi, candidate |-> mid]
        BY <1>2, <1>5, <2>1, <2>7, <3>5
      <4>2. Holds(a[mid], x)
        BY <1>2, <2>1, <2>7, <3>5 DEF Holds
      <4>3. \A p \in 1 .. N : Before(a, x, p) => (mid < p /\ p <= hi) \/ (p <= mid /\ mid = p)
        BY <1>4, <2>1, <3>4
      <4>4. Searching(a, x, n, mid, hi, mid)
        BY <1>4, <3>1, <3>3, <4>2, <4>3 DEF Searching, N
      <4> QED
        BY <1>6, <4>1, <4>4 DEF r
    <3>6. CASE ~(a[mid].addr + a[mid].size >= x)
      <4>1. r = [lo |-> mid, hi |-> hi, candidate |-> c]
        BY <1>2, <1>5, <2>1, <2>7, <3>6
      <4>2. \A p \in 1 .. N : Before(a, x, p) => mid < p
        <5> TAKE p \in 1 .. N
        <5>1. Before(a, x, p) => p # mid
          BY <1>2, <2>4, <3>6
        <5> QED
          BY <2>1, <3>4, <5>1
      <4>3. \A p \in 1 .. N : Before(a, x, p) => (mid < p /\ p <= hi) \/ (p <= mid /\ c = p)
        BY <1>4, <2>1, <4>2
      <4>4. Searching(a, x, n, mid, hi, c)
        BY <1>4, <3>1, <3>3, <4>3 DEF Searching, N
      <4> QED
        BY <1>6, <4>1, <4>4 DEF r
    <3> QED
      BY <3>5, <3>6
  <2> QED
    BY <1>2, <2>1, <2>5, <2>6, <2>7
<1> QED
  BY <1>1, <1>4, <1>7, <1>8

LEMMA SearchRoundType ==
    ASSUME NEW N \in Nat, NEW at \in Between(N), NEW a, NEW x
    PROVE  SearchRound(a, x, at) \in Between(N)
<1> DEFINE lo == at.lo
           hi == at.hi
           c == at.candidate
           mid == ((lo + hi) \div 2) + 1
<1>1. lo \in 0 .. N /\ hi \in 0 .. N /\ c \in 0 .. N
  BY DEF Between
<1>2. \A t, u, v \in 0 .. N : [lo |-> t, hi |-> u, candidate |-> v] \in Between(N)
  BY DEF Between
<1> HIDE DEF lo, hi, c, mid
<1>3. SearchRound(a, x, at) =
              IF lo >= hi THEN at
              ELSE IF a[mid].addr = x THEN [lo |-> hi, hi |-> hi, candidate |-> mid]
              ELSE IF a[mid].addr > x THEN [lo |-> lo, hi |-> mid - 1, candidate |-> c]
              ELSE IF a[mid].addr + a[mid].size >= x THEN [lo |-> mid, hi |-> hi, candidate |-> mid]
              ELSE [lo |-> mid, hi |-> hi, candidate |-> c]
  <2>1. lo = at.lo /\ hi = at.hi /\ c = at.candidate /\ mid = ((lo + hi) \div 2) + 1
    BY DEF lo, hi, c, mid
  <2> QED
    BY <2>1, SearchRoundIs
<1>4. lo < hi => mid \in 0 .. N /\ mid - 1 \in 0 .. N
  BY <1>1 DEF mid
<1>5. lo < hi \/ lo >= hi
  BY <1>1
<1> QED
  BY <1>1, <1>2, <1>3, <1>4, <1>5

LEMMA SearchIs ==
    ASSUME NEW a \in Seq(ListElement), Ascending(a), NEW x \in Nat
    PROVE  /\ searchInListLoose(a, x) \in 0 .. Len(a)
           /\ (\E j \in 1 .. Len(a) : a[j].addr = x) =>
                 searchInListLoose(a, x) # 0 /\ a[searchInListLoose(a, x)].addr = x
           /\ searchInListLoose(a, x) # 0 =>
                 \/ a[searchInListLoose(a, x)].addr = x
                 \/ Holds(a[searchInListLoose(a, x)], x)
           /\ \A p \in 1 .. Len(a) : Before(a, x, p) => searchInListLoose(a, x) = p
<1> DEFINE N == Len(a)
           base == [lo |-> 0, hi |-> N, candidate |-> NULL]
           step == [n \in 1 .. N |-> [at \in Between(N) |-> SearchRound(a, x, at)]]
           Is(g) == g = [n \in 0 .. N |-> IF n = 0 THEN base ELSE SearchRound(a, x, g[n - 1])]
           f == CHOOSE g : Is(g)
<1>1. N \in Nat
  OBVIOUS
<1>2. searchInListLoose(a, x) = f[N].candidate
  BY DEF searchInListLoose, Search
<1> HIDE DEF N
<1>3. base \in Between(N)
  BY <1>1 DEF Between, NULL
<1>4. step \in [1 .. N -> [Between(N) -> Between(N)]]
  BY <1>1, SearchRoundType
<1>5. \A n \in 1 .. N : \A at \in Between(N) : step[n][at] = SearchRound(a, x, at)
  OBVIOUS
<1> HIDE DEF base, step
<1>6. PICK g \in [0 .. N -> Between(N)] : Recurs(g, N, base, step)
  BY <1>1, <1>3, <1>4, Recursion
<1>7. \A n \in 1 .. N : step[n][g[n - 1]] = SearchRound(a, x, g[n - 1])
  <2> TAKE n \in 1 .. N
  <2>1. n - 1 \in 0 .. N
    BY <1>1
  <2> QED
    BY <1>5, <1>6, <2>1
<1>8. Is(g)
  <2>1. g = [n \in 0 .. N |-> IF n = 0 THEN base ELSE step[n][g[n - 1]]]
    BY <1>6, Zenon DEF Recurs
  <2>2. \A n \in 0 .. N : n = 0 \/ n \in 1 .. N
    BY <1>1
  <2> QED
    BY <1>7, <2>1, <2>2
<1>9. Is(f)
  BY <1>8, Zenon
<1> HIDE DEF f
<1> DEFINE Have == {n \in 0 .. N : SearchInv(a, x, n, f[n])}
<1>10. 0 \in Have
  <2>1. f[0] = base
    BY <1>1, <1>9
  <2>2. base.lo = 0 /\ base.hi = N /\ base.candidate = 0
    BY DEF base, NULL
  <2>3. \A p \in 1 .. N : 0 < p /\ p <= N
    BY <1>1
  <2>4. Searching(a, x, 0, 0, N, 0)
    <3>1. 0 \in 0 .. N /\ N \in 0 .. N /\ N - 0 <= N - 0
      BY <1>1
    <3> QED
      BY <2>3, <3>1 DEF Searching, N
  <2>5. SearchInv(a, x, 0, base)
    BY <1>3, <2>2, <2>4 DEF SearchInv, N
  <2> QED
    BY <1>1, <2>1, <2>5
<1>11. \A n \in 1 .. N : n - 1 \in Have => n \in Have
  <2> SUFFICES ASSUME NEW n \in 1 .. N, n - 1 \in Have PROVE n \in Have
    OBVIOUS
  <2>1. SearchInv(a, x, n - 1, f[n - 1])
    OBVIOUS
  <2>2. n \in 0 .. N /\ n # 0
    BY <1>1
  <2>3. f[n] = SearchRound(a, x, f[n - 1])
    BY <1>9, <2>2
  <2>4. SearchInv(a, x, n, SearchRound(a, x, f[n - 1]))
    BY <2>1, SearchRoundInv DEF N
  <2> QED
    BY <2>2, <2>3, <2>4
<1> HIDE DEF Have
<1>12. 0 .. N \subseteq Have
  BY <1>1, <1>10, <1>11, UpTo
<1>13. SearchInv(a, x, N, f[N])
  BY <1>1, <1>12 DEF Have
<1> DEFINE lo == f[N].lo
           hi == f[N].hi
           c == f[N].candidate
<1>14. Searching(a, x, N, lo, hi, c)
  BY <1>13 DEF SearchInv
<1> HIDE DEF lo, hi, c
<1>15. lo \in 0 .. N /\ hi \in 0 .. N /\ c \in 0 .. N /\ lo >= hi
  BY <1>1, <1>14 DEF Searching, N
<1>16. \A j \in 1 .. N : ~(lo < j /\ j <= hi)
  BY <1>1, <1>15
<1>17. \A p \in 1 .. N : Before(a, x, p) => c = p
  BY <1>14, <1>16 DEF Searching, N
<1>18. (\E j \in 1 .. N : a[j].addr = x) => c # 0 /\ a[c].addr = x
  BY <1>14, <1>16 DEF Searching, N
<1>19. c # 0 => a[c].addr = x \/ Holds(a[c], x)
  BY <1>14 DEF Searching
<1> QED
  BY <1>2, <1>15, <1>17, <1>18, <1>19 DEF N, c

-----------------------------------------------------------------------------
(* remove_collision.                                                       *)

(* The allocations that overlap element i.                                 *)
Overlappers(s, i) == {k \in 1 .. Len(s) : ~s[k].special /\ Overlap(s[k], s[i])}

CollidingAt(s, i) ==
    [lo : 0 .. Len(s), hi : 0 .. Len(s), found : {0} \cup Overlappers(s, i)]

LEMMA CollidingRoundType ==
    ASSUME NEW s \in Seq(ListElement), NEW i \in 1 .. Len(s), NEW at \in CollidingAt(s, i)
    PROVE  CollidingRound(s, i, at) \in CollidingAt(s, i)
<1> DEFINE N == Len(s)
           O == Overlappers(s, i)
           lo == at.lo
           hi == at.hi
           mid == ((lo + hi) \div 2) + 1
           e == s[mid]
           found == IF e.special THEN NULL ELSE mid
<1>1. N \in Nat /\ \A k \in 1 .. N : s[k].addr \in Nat /\ s[k].special \in BOOLEAN
  <2>1. \A x \in ListElement : x.addr \in Nat /\ x.special \in BOOLEAN
    BY DEF ListElement
  <2> QED
    BY <2>1
<1>2. lo \in 0 .. N /\ hi \in 0 .. N /\ at.found \in {0} \cup O
  BY DEF CollidingAt
<1>3. /\ \A t, u \in 0 .. N : \A v \in {0} \cup O : [lo |-> t, hi |-> u, found |-> v] \in CollidingAt(s, i)
      /\ \A t \in 0 .. N : [at EXCEPT !.lo = t] \in CollidingAt(s, i)
      /\ \A t \in 0 .. N : [at EXCEPT !.hi = t] \in CollidingAt(s, i)
  BY DEF CollidingAt
<1>4. CollidingRound(s, i, at) =
        IF lo >= hi THEN at
        ELSE IF e.addr = s[i].addr \/ (~e.special /\ Overlap(e, s[i]))
        THEN [lo |-> hi, hi |-> hi, found |-> found]
        ELSE IF e.addr < s[i].addr THEN [at EXCEPT !.lo = mid]
        ELSE [at EXCEPT !.hi = mid - 1]
  BY DEF CollidingRound
<1>5. \A k \in 1 .. N : k \in O <=> ~s[k].special /\ Overlap(s[k], s[i])
  BY DEF Overlappers
<1>6. \A k \in 1 .. N : s[k].addr = s[i].addr => Overlap(s[k], s[i])
  BY DEF Overlap
<1> HIDE DEF N, O, lo, hi
<1>7. CASE lo >= hi
  BY <1>4, <1>7
<1>8. CASE lo < hi
  <2>1. mid \in 1 .. N /\ mid \in 0 .. N /\ mid - 1 \in 0 .. N /\ ~(lo >= hi)
    BY <1>1, <1>2, <1>8
  <2> HIDE DEF mid
  <2>2. CASE e.addr = s[i].addr \/ (~e.special /\ Overlap(e, s[i]))
    <3>1. found \in {0} \cup O
      BY <1>5, <1>6, <2>1, <2>2 DEF NULL
    <3> QED
      BY <1>2, <1>3, <1>4, <2>1, <2>2, <3>1
  <2>3. CASE ~(e.addr = s[i].addr \/ (~e.special /\ Overlap(e, s[i])))
    <3> HIDE DEF e, found
    <3> QED
      BY <1>3, <1>4, <2>1, <2>3
  <2> QED
    BY <2>2, <2>3
<1> QED
  BY <1>1, <1>2, <1>7, <1>8

LEMMA CollidingIs ==
    ASSUME NEW s \in Seq(ListElement), NEW i \in 1 .. Len(s)
    PROVE  Colliding(s, i) \in {0} \cup Overlappers(s, i)
<1> DEFINE N == Len(s)
           T == CollidingAt(s, i)
           base == [lo |-> 0, hi |-> N, found |-> NULL]
           step == [n \in 1 .. N |-> [at \in T |-> CollidingRound(s, i, at)]]
           Is(g) == g = [n \in 0 .. N |-> IF n = 0 THEN base ELSE CollidingRound(s, i, g[n - 1])]
           f == CHOOSE g : Is(g)
<1>1. N \in Nat
  OBVIOUS
<1>2. Colliding(s, i) = f[N].found
  BY DEF Colliding
<1>3. base \in T
  BY <1>1 DEF CollidingAt, NULL
<1>4. step \in [1 .. N -> [T -> T]]
  BY <1>1, CollidingRoundType
<1>5. \A n \in 1 .. N : \A at \in T : step[n][at] = CollidingRound(s, i, at)
  OBVIOUS
<1> HIDE DEF base, step, T, N
<1>6. PICK g \in [0 .. N -> T] : Recurs(g, N, base, step)
  BY <1>1, <1>3, <1>4, Recursion
<1>7. \A n \in 1 .. N : step[n][g[n - 1]] = CollidingRound(s, i, g[n - 1])
  <2> TAKE n \in 1 .. N
  <2>1. n - 1 \in 0 .. N
    BY <1>1
  <2> QED
    BY <1>5, <1>6, <2>1
<1>8. Is(g)
  <2>1. g = [n \in 0 .. N |-> IF n = 0 THEN base ELSE step[n][g[n - 1]]]
    BY <1>6, Zenon DEF Recurs
  <2>2. \A n \in 0 .. N : n = 0 \/ n \in 1 .. N
    BY <1>1
  <2> QED
    BY <1>7, <2>1, <2>2
<1>9. Is(f)
  BY <1>8, Zenon
<1> HIDE DEF f
<1> DEFINE Have == {n \in 0 .. N : f[n] \in T}
<1>10. 0 \in Have
  <2>1. f[0] = base
    BY <1>1, <1>9
  <2> QED
    BY <1>1, <1>3, <2>1
<1>11. \A n \in 1 .. N : n - 1 \in Have => n \in Have
  <2> SUFFICES ASSUME NEW n \in 1 .. N, n - 1 \in Have PROVE n \in Have
    OBVIOUS
  <2>1. n \in 0 .. N /\ n # 0
    BY <1>1
  <2>2. f[n] = CollidingRound(s, i, f[n - 1])
    BY <1>9, <2>1
  <2>3. CollidingRound(s, i, f[n - 1]) \in T
    BY CollidingRoundType DEF T
  <2> QED
    BY <2>1, <2>2, <2>3
<1> HIDE DEF Have
<1>12. f[N] \in T
  <2>1. 0 .. N \subseteq Have
    BY <1>1, <1>10, <1>11, UpTo
  <2> QED
    BY <1>1, <2>1 DEF Have
<1> QED
  BY <1>2, <1>12 DEF T, CollidingAt

LEMMA RoundDownType ==
    ASSUME NEW x \in Nat
    PROVE  RoundDown(x) \in Nat
<1>1. x \div PageSize \in Nat /\ PageSize \in Nat
  BY PageSizeAssumption
<1> DEFINE q == x \div PageSize
<1> HIDE DEF q
<1>2. q * PageSize \in Nat
  BY <1>1 DEF q
<1> QED
  BY <1>2 DEF RoundDown, q

LEMMA ResizedIs ==
    ASSUME NEW e \in ListElement, NEW size \in Nat
    PROVE  /\ Resized(e, size) \in ListElement
           /\ Resized(e, size).addr = e.addr /\ Resized(e, size).special = e.special
<1> DEFINE shrunk == [e EXCEPT !.size = size]
           n == IF size < Len(e.userContent) THEN size ELSE Len(e.userContent)
           u == SubSeq(shrunk.userContent, 1, n)
           r == [shrunk EXCEPT !.userContent = u]
<1>1. e.userContent \in Seq(Nat)
  BY DEF ListElement
<1>2. shrunk \in ListElement /\ shrunk.addr = e.addr /\ shrunk.special = e.special
      /\ shrunk.userContent = e.userContent
  BY DEF ListElement
<1>3. n \in 0 .. Len(e.userContent)
  BY <1>1
<1> HIDE DEF shrunk, n
<1>4. u \in Seq(Nat)
  BY <1>1, <1>2, <1>3
<1>5. Resized(e, size) = r
  BY DEF Resized, shrunk, n
<1> HIDE DEF u
<1>6. r \in ListElement /\ r.addr = shrunk.addr /\ r.special = shrunk.special
  BY <1>2, <1>4 DEF ListElement
<1> QED
  BY <1>2, <1>5, <1>6

States == [list_ : Seq(ListElement), remove_list : Seq(ListElement), asserted : BOOLEAN]

(* A root that an allocation overlaps leaves the root a size that is not   *)
(* negative when what is before the allocation's page is kept.             *)
Shrinks(s) ==
    \A i \in 1 .. Len(s) : s[i].special =>
        \A a \in Overlappers(s, i) : s[a].addr > s[i].addr => RoundDown(s[a].addr) >= s[i].addr

(* What has become of s when its first i elements have been looked at, of  *)
(* which those that m says are to be removed.                              *)
Kept(s, u) ==
    /\ Len(u) = Len(s)
    /\ \A k \in 1 .. Len(s) :
          /\ u[k].addr = s[k].addr /\ u[k].special = s[k].special
          /\ ~s[k].special \/ Overlappers(s, k) = {} => u[k] = s[k]

CollisionInv(s, i, state, m) ==
    /\ state \in States /\ Kept(s, state.list_)
    /\ \A k \in 1 .. Len(s) : k > i => state.list_[k] = s[k]
    /\ m \in [1 .. Len(state.remove_list) -> 1 .. i]
    /\ \A k \in 1 .. Len(state.remove_list) :
          /\ state.remove_list[k] = s[m[k]] /\ state.list_[m[k]] = s[m[k]]
          /\ s[m[k]].special /\ Overlappers(s, m[k]) # {}
    /\ \A k, n \in 1 .. Len(state.remove_list) : m[k] = m[n] => k = n
    /\ Shrinks(s) => state.asserted

LEMMA CollisionIs ==
    ASSUME NEW state \in States, NEW i \in 1 .. Len(state.list_),
           NEW e, e = state.list_[i], NEW a, a = Colliding(state.list_, i),
           NEW size, size = NewSize(e, state.list_[a])
    PROVE  Collision(state, i) =
              IF ~e.special \/ a = 0 THEN state
              ELSE IF size = 0 THEN [state EXCEPT !.remove_list = Append(state.remove_list, e)]
              ELSE IF size < 0 THEN [state EXCEPT !.asserted = FALSE]
              ELSE [state EXCEPT !.list_ = [state.list_ EXCEPT ![i] = Resized(e, size)]]
  BY DEF Collision, NULL, States

LEMMA CollisionStep ==
    ASSUME NEW s \in Seq(ListElement), NEW i \in 1 .. Len(s), NEW state, NEW m,
           CollisionInv(s, i - 1, state, m)
    PROVE  \E q : CollisionInv(s, i, Collision(state, i), q)
<1> DEFINE N == Len(s)
           u == state.list_
           R == state.remove_list
           L == Len(R)
           e == u[i]
           a == Colliding(u, i)
           size == NewSize(e, u[a])
           r == Collision(state, i)
<1>1. N \in Nat /\ i \in 1 .. N /\ \A k \in 1 .. N : s[k] \in ListElement
  OBVIOUS
<1>2. /\ state \in States /\ Kept(s, u)
      /\ \A k \in 1 .. N : k > i - 1 => u[k] = s[k]
      /\ m \in [1 .. L -> 1 .. i - 1]
      /\ \A k \in 1 .. L : /\ R[k] = s[m[k]] /\ u[m[k]] = s[m[k]]
                           /\ s[m[k]].special /\ Overlappers(s, m[k]) # {}
      /\ \A k, n \in 1 .. L : m[k] = m[n] => k = n
      /\ Shrinks(s) => state.asserted
  BY DEF CollisionInv
<1>3. u \in Seq(ListElement) /\ R \in Seq(ListElement) /\ Len(u) = N /\ L \in Nat
  BY <1>2 DEF States, Kept
<1>4. e = s[i] /\ e \in ListElement
  BY <1>1, <1>2
<1>5. a = 0 \/ (a \in 1 .. N /\ ~u[a].special /\ Overlap(u[a], u[i]))
  <2>1. Colliding(u, i) \in {0} \cup Overlappers(u, i)
    BY <1>1, <1>3, CollidingIs
  <2> QED
    BY <1>3, <2>1 DEF Overlappers
<1>6. a # 0 => u[a] = s[a] /\ a \in Overlappers(s, i)
  BY <1>2, <1>4, <1>5 DEF Kept, Overlappers
<1>7. r = IF ~e.special \/ a = 0 THEN state
          ELSE IF size = 0 THEN [state EXCEPT !.remove_list = Append(R, e)]
          ELSE IF size < 0 THEN [state EXCEPT !.asserted = FALSE]
          ELSE [state EXCEPT !.list_ = [u EXCEPT ![i] = Resized(e, size)]]
  <2>1. i \in 1 .. Len(u)
    BY <1>1, <1>3
  <2> HIDE DEF N
  <2> QED
    BY <1>2, <2>1, CollisionIs
<1> HIDE DEF r, a, e
<1>8. a # 0 => /\ size \in Int
               /\ size < 0 => s[a].addr > s[i].addr /\ RoundDown(s[a].addr) < s[i].addr
  <2> SUFFICES ASSUME a # 0
               PROVE  size \in Int
                      /\ (size < 0 => s[a].addr > s[i].addr /\ RoundDown(s[a].addr) < s[i].addr)
    OBVIOUS
  <2>1. u[a] = s[a] /\ e = s[i] /\ s[a] \in ListElement /\ s[i] \in ListElement
    BY <1>1, <1>4, <1>5, <1>6
  <2>2. s[a].addr \in Nat /\ s[i].addr \in Nat
    BY <2>1 DEF ListElement
  <2>3. RoundDown(s[a].addr) \in Nat
    BY <2>2, RoundDownType
  <2> QED
    BY <2>1, <2>2, <2>3 DEF NewSize
<1> HIDE DEF size
<1>9. ASSUME NEW t, NEW q, NEW v, NEW w, NEW b,
             t = [list_ |-> v, remove_list |-> w, asserted |-> b],
             v \in Seq(ListElement), w \in Seq(ListElement), b \in BOOLEAN, Kept(s, v),
             \A k \in 1 .. N : k > i => v[k] = s[k],
             q \in [1 .. Len(w) -> 1 .. i],
             \A k \in 1 .. Len(w) : /\ w[k] = s[q[k]] /\ v[q[k]] = s[q[k]]
                                    /\ s[q[k]].special /\ Overlappers(s, q[k]) # {},
             \A k, n \in 1 .. Len(w) : q[k] = q[n] => k = n,
             Shrinks(s) => b
      PROVE  CollisionInv(s, i, t, q)
  <2>1. t \in States /\ t.list_ = v /\ t.remove_list = w /\ t.asserted = b
    BY <1>9 DEF States
  <2> QED
    BY <1>9, <2>1 DEF CollisionInv
<1>10. m \in [1 .. L -> 1 .. i] /\ \A k \in 1 .. L : m[k] \in 1 .. i - 1 /\ m[k] # i
  <2> HIDE DEF L, N
  <2>1. m \in [1 .. L -> 1 .. i - 1] /\ i \in Nat
    BY <1>1, <1>2
  <2>2. \A k \in 1 .. i - 1 : k \in 1 .. i /\ k # i
    BY <2>1
  <2> QED
    BY <2>1, <2>2
<1>11. \A k \in 1 .. N : k > i => u[k] = s[k]
  BY <1>1, <1>2
<1>12. CASE ~e.special \/ a = 0
  <2>1. r = state
    BY <1>7, <1>12
  <2>2. CollisionInv(s, i, state, m)
    BY <1>2, <1>10, <1>11 DEF CollisionInv
  <2> QED
    BY <2>1, <2>2 DEF r
<1>13. CASE e.special /\ a # 0 /\ size = 0
  <2> DEFINE w == Append(R, e)
             q == [k \in 1 .. L + 1 |-> IF k = L + 1 THEN i ELSE m[k]]
  <2>1. r = [state EXCEPT !.remove_list = w]
    BY <1>7, <1>13
  <2>2. w \in Seq(ListElement) /\ Len(w) = L + 1 /\ w[L + 1] = e /\ \A k \in 1 .. L : w[k] = R[k]
    BY <1>3, <1>4
  <2> HIDE DEF w, L
  <2>3. q \in [1 .. L + 1 -> 1 .. i] /\ q[L + 1] = i /\ \A k \in 1 .. L : q[k] = m[k]
    BY <1>1, <1>3, <1>10
  <2> HIDE DEF q
  <2>4. \A k \in 1 .. L + 1 : k \in 1 .. L \/ k = L + 1
    BY <1>3
  <2>5. \A k \in 1 .. L + 1 : /\ w[k] = s[q[k]] /\ u[q[k]] = s[q[k]]
                              /\ s[q[k]].special /\ Overlappers(s, q[k]) # {}
    <3> TAKE k \in 1 .. L + 1
    <3>1. CASE k \in 1 .. L
      BY <1>2, <2>2, <2>3, <3>1 DEF L
    <3>2. CASE k = L + 1
      <4>1. u[i] = s[i]
        BY <1>4 DEF e
      <4> QED
        BY <1>4, <1>6, <1>13, <2>2, <2>3, <3>2, <4>1
    <3> QED
      BY <2>4, <3>1, <3>2
  <2>6. \A k, n \in 1 .. L + 1 : q[k] = q[n] => k = n
    <3> SUFFICES ASSUME NEW k \in 1 .. L + 1, NEW n \in 1 .. L + 1, q[k] = q[n] PROVE k = n
      OBVIOUS
    <3>1. \A x \in 1 .. L : q[x] = m[x] /\ m[x] # i
      BY <1>10, <2>3 DEF L
    <3> QED
      BY <1>2, <2>3, <2>4, <3>1 DEF L
  <2>7. r = [list_ |-> u, remove_list |-> w, asserted |-> state.asserted] /\ state.asserted \in BOOLEAN
    BY <1>2, <2>1 DEF States
  <2>8. CollisionInv(s, i, r, q)
    BY <1>2, <1>3, <1>9, <1>11, <2>2, <2>3, <2>5, <2>6, <2>7
  <2> QED
    BY <2>8 DEF r
<1>14. CASE e.special /\ a # 0 /\ size < 0
  <2>1. r = [state EXCEPT !.asserted = FALSE]
    BY <1>7, <1>14
  <2>2. r = [list_ |-> u, remove_list |-> R, asserted |-> FALSE]
    BY <1>2, <2>1 DEF States
  <2>3. ~Shrinks(s)
    <3>1. s[i].special /\ s[a].addr > s[i].addr /\ RoundDown(s[a].addr) < s[i].addr
          /\ a \in Overlappers(s, i)
      BY <1>4, <1>6, <1>8, <1>14
    <3>2. s[i].addr \in Nat /\ s[a].addr \in Nat
      BY <1>1, <1>5, <1>14 DEF ListElement
    <3>3. RoundDown(s[a].addr) \in Nat
      BY <3>2, RoundDownType
    <3>4. ~(RoundDown(s[a].addr) >= s[i].addr)
      BY <3>1, <3>2, <3>3
    <3> QED
      BY <1>1, <3>1, <3>4 DEF Shrinks
  <2>4. CollisionInv(s, i, r, m)
    BY <1>2, <1>3, <1>9, <1>10, <1>11, <2>2, <2>3
  <2> QED
    BY <2>4 DEF r
<1>15. CASE e.special /\ a # 0 /\ size > 0
  <2> DEFINE x == Resized(e, size)
             v == [u EXCEPT ![i] = x]
  <2>1. r = [state EXCEPT !.list_ = v]
    BY <1>7, <1>8, <1>15
  <2>2. x \in ListElement /\ x.addr = e.addr /\ x.special = e.special
    <3>1. size \in Nat
      BY <1>8, <1>15
    <3> QED
      BY <1>4, <3>1, ResizedIs
  <2> HIDE DEF x
  <2>3. v \in Seq(ListElement) /\ Len(v) = N /\ v[i] = x /\ \A k \in 1 .. N : k # i => v[k] = u[k]
    BY <1>1, <1>3, <2>2
  <2> HIDE DEF v
  <2>4. r = [list_ |-> v, remove_list |-> R, asserted |-> state.asserted] /\ state.asserted \in BOOLEAN
    BY <1>2, <2>1 DEF States
  <2>5. Overlappers(s, i) # {} /\ s[i].special
    BY <1>4, <1>6, <1>15
  <2>6. Kept(s, v)
    <3> SUFFICES ASSUME NEW k \in 1 .. N
                 PROVE  /\ v[k].addr = s[k].addr /\ v[k].special = s[k].special
                        /\ ~s[k].special \/ Overlappers(s, k) = {} => v[k] = s[k]
      BY <2>3 DEF Kept
    <3>1. CASE k = i
      BY <1>4, <2>2, <2>3, <2>5, <3>1
    <3>2. CASE k # i
      BY <1>2, <2>3, <3>2 DEF Kept
    <3> QED
      BY <3>1, <3>2
  <2>7. \A k \in 1 .. N : k > i => v[k] = s[k]
    BY <1>1, <1>11, <2>3
  <2>8. \A k \in 1 .. L : v[m[k]] = s[m[k]]
    <3> TAKE k \in 1 .. L
    <3>1. m[k] \in 1 .. N /\ m[k] # i
      BY <1>1, <1>10
    <3> QED
      BY <1>2, <2>3, <3>1
  <2>9. CollisionInv(s, i, r, m)
    BY <1>2, <1>3, <1>9, <1>10, <2>3, <2>4, <2>6, <2>7, <2>8
  <2> QED
    BY <2>9 DEF r
<1>16. e.special \in BOOLEAN
  BY <1>4 DEF ListElement
<1> QED
  BY <1>8, <1>12, <1>13, <1>14, <1>15, <1>16

(* r is s without its element p.                                           *)
Drops(r, s, p) ==
    /\ r \in Seq(ListElement) /\ Len(r) = Len(s) - 1 /\ p \in 1 .. Len(s)
    /\ \A k \in 1 .. Len(r) : (k < p => r[k] = s[k]) /\ (k >= p => r[k] = s[k + 1])

LEMMA RemoveAtIs ==
    ASSUME NEW s \in Seq(ListElement)
    PROVE  RemoveAt(s, 0) = s /\ \A p \in 1 .. Len(s) : Drops(RemoveAt(s, p), s, p)
<1>1. RemoveAt(s, 0) = s
  <2> DEFINE a == SubSeq(s, 1, 0 - 1)
             b == SubSeq(s, 0 + 1, Len(s))
             x == a \o b
  <2>1. RemoveAt(s, 0) = x
    BY DEF RemoveAt
  <2>2. a \in Seq(ListElement) /\ Len(a) = 0
    OBVIOUS
  <2>3. b \in Seq(ListElement) /\ Len(b) = Len(s) /\ \A k \in 1 .. Len(s) : b[k] = s[k]
    OBVIOUS
  <2> HIDE DEF a, b
  <2>4. x \in Seq(ListElement) /\ Len(x) = Len(s) /\ \A k \in 1 .. Len(x) : x[k] = s[k]
    BY <2>2, <2>3
  <2> HIDE DEF x
  <2>5. x = s
    BY <2>4, SeqEqual, Zenon
  <2> QED
    BY <2>1, <2>5
<1>2. ASSUME NEW p \in 1 .. Len(s)
      PROVE  Drops(RemoveAt(s, p), s, p)
  <2> DEFINE a == SubSeq(s, 1, p - 1)
             b == SubSeq(s, p + 1, Len(s))
             x == a \o b
  <2>1. RemoveAt(s, p) = x
    BY DEF RemoveAt
  <2>2. a \in Seq(ListElement) /\ Len(a) = p - 1 /\ \A k \in 1 .. p - 1 : a[k] = s[k]
    OBVIOUS
  <2>3. b \in Seq(ListElement) /\ Len(b) = Len(s) - p /\ \A k \in 1 .. Len(s) - p : b[k] = s[p + k]
    OBVIOUS
  <2> HIDE DEF a, b
  <2>4. x \in Seq(ListElement) /\ Len(x) = Len(s) - 1
    <3>1. x \in Seq(ListElement) /\ Len(x) = Len(a) + Len(b)
      BY <2>2, <2>3, ConcatParts
    <3>2. Len(s) \in Nat /\ p \in Nat
      OBVIOUS
    <3> HIDE DEF x
    <3> QED
      BY <2>2, <2>3, <3>1, <3>2
  <2>5. \A k \in 1 .. Len(s) - 1 : k < p => x[k] = s[k]
    BY <2>2, <2>3
  <2>6. \A k \in 1 .. Len(s) - 1 : k >= p => x[k] = s[k + 1]
    <3> SUFFICES ASSUME NEW k \in 1 .. Len(s) - 1, k >= p PROVE x[k] = s[k + 1]
      OBVIOUS
    <3>1. k - (p - 1) \in 1 .. Len(s) - p /\ p + (k - (p - 1)) = k + 1
      OBVIOUS
    <3>2. x[k] = b[k - (p - 1)]
      BY <2>2, <2>3, <3>1
    <3> QED
      BY <2>3, <3>1, <3>2
  <2> HIDE DEF x
  <2> QED
    BY <2>1, <2>4, <2>5, <2>6 DEF Drops
<1> QED
  BY <1>1, <1>2

LEMMA RemovedIs ==
    ASSUME NEW s \in Seq(ListElement), NEW e
    PROVE  \/ Removed(s, e) = s
           \/ \E p \in 1 .. Len(s) : s[p].addr = e.addr /\ Drops(Removed(s, e), s, p)
<1> DEFINE I == {k \in 1 .. Len(s) : s[k].addr = e.addr}
<1>1. Removed(s, e) = RemoveAt(s, IF I # {} THEN Min(I) ELSE 0)
  BY DEF Removed, SelectInSeq
<1>2. CASE I = {}
  BY <1>1, <1>2, RemoveAtIs
<1>3. CASE I # {}
  <2>1. I \subseteq Nat
    OBVIOUS
  <2>2. Min(I) \in I
    <3> HIDE DEF I
    <3>1. \E x \in I : \A y \in I : x <= y
      BY <1>3, <2>1, LeastNat
    <3>2. Min(I) = CHOOSE x \in I : \A y \in I : x <= y
      BY DEF Min
    <3> QED
      BY <3>1, <3>2, Zenon
  <2>3. Min(I) \in 1 .. Len(s) /\ s[Min(I)].addr = e.addr
    BY <2>2
  <2>4. Drops(RemoveAt(s, Min(I)), s, Min(I))
    BY <2>3, RemoveAtIs
  <2> QED
    BY <1>1, <1>3, <2>3, <2>4
<1> QED
  BY <1>2, <1>3

(* Where what is left of s has gone.                                       *)
Moved(q, p) == IF q < p THEN q ELSE q - 1

LEMMA DropsMoves ==
    ASSUME NEW s \in Seq(ListElement), NEW p, NEW r, Drops(r, s, p)
    PROVE  /\ \A q \in 1 .. Len(s) : q # p => Moved(q, p) \in 1 .. Len(r) /\ r[Moved(q, p)] = s[q]
           /\ \A q, t \in 1 .. Len(s) : q # p /\ t # p /\ Moved(q, p) = Moved(t, p) => q = t
           /\ \A k \in 1 .. Len(r) : \E q \in 1 .. Len(s) : q # p /\ k = Moved(q, p)
           /\ \A q, t \in 1 .. Len(s) : q # p /\ t # p /\ q < t => Moved(q, p) < Moved(t, p)
<1> DEFINE N == Len(s)
<1>1. N \in Nat /\ p \in 1 .. N /\ Len(r) = N - 1
      /\ \A k \in 1 .. N - 1 : (k < p => r[k] = s[k]) /\ (k >= p => r[k] = s[k + 1])
  BY DEF Drops
<1> HIDE DEF N
<1>2. ASSUME NEW q \in 1 .. N, q # p
      PROVE  Moved(q, p) \in 1 .. N - 1 /\ r[Moved(q, p)] = s[q]
  <2>1. CASE q < p
    BY <1>1, <2>1 DEF Moved
  <2>2. CASE q > p
    <3>1. Moved(q, p) = q - 1 /\ q - 1 \in 1 .. N - 1 /\ q - 1 >= p /\ (q - 1) + 1 = q
      BY <1>1, <2>2 DEF Moved
    <3>2. \A k \in 1 .. N - 1 : k >= p /\ k + 1 = q => r[k] = s[q]
      BY <1>1
    <3> QED
      BY <3>1, <3>2
  <2> QED
    BY <1>1, <1>2, <2>1, <2>2
<1>3. \A q, t \in 1 .. N : q # p /\ t # p /\ Moved(q, p) = Moved(t, p) => q = t
  BY <1>1 DEF Moved
<1>4. \A q, t \in 1 .. N : q # p /\ t # p /\ q < t => Moved(q, p) < Moved(t, p)
  BY <1>1 DEF Moved
<1>5. ASSUME NEW k \in 1 .. N - 1
      PROVE  \E q \in 1 .. N : q # p /\ k = Moved(q, p)
  <2>1. CASE k < p
    <3>1. k \in 1 .. N /\ k # p /\ k = Moved(k, p)
      BY <1>1, <2>1 DEF Moved
    <3> QED
      BY <3>1
  <2>2. CASE k >= p
    <3>1. k + 1 \in 1 .. N /\ k + 1 # p /\ k = Moved(k + 1, p)
      BY <1>1, <2>2 DEF Moved
    <3> QED
      BY <3>1
  <2> QED
    BY <1>1, <2>1, <2>2
<1> QED
  BY <1>1, <1>2, <1>3, <1>4, <1>5 DEF N

Covers(e, R, W) == e.special /\ e.addr = R /\ W \subseteq ToSet(e.userContent)

(* There is one more element of u that covers W than there are from R to   *)
(* be removed.                                                             *)
ToRemove(w, j, R) == {0} \cup {k \in j + 1 .. Len(w) : w[k].addr = R}

Matched(u, w, j, R, W) ==
    \E v \in [ToRemove(w, j, R) -> 1 .. Len(u)] :
        /\ \A k \in ToRemove(w, j, R) : Covers(u[v[k]], R, W)
        /\ \A k, n \in ToRemove(w, j, R) : v[k] = v[n] => k = n

LEMMA MatchedStep ==
    ASSUME NEW u \in Seq(ListElement), NEW w \in Seq(ListElement), NEW j \in 1 .. Len(w),
           NEW R, NEW W, Matched(u, w, j - 1, R, W)
    PROVE  /\ Matched(u, w, j, R, W)
           /\ \A r, p : Drops(r, u, p) /\ u[p].addr = w[j].addr => Matched(r, w, j, R, W)
<1> DEFINE D == ToRemove(w, j - 1, R)
           E == ToRemove(w, j, R)
<1>1. PICK v \in [D -> 1 .. Len(u)] : /\ \A k \in D : Covers(u[v[k]], R, W)
                                      /\ \A k, n \in D : v[k] = v[n] => k = n
  BY Zenon DEF Matched
<1>2. E \subseteq D /\ 0 \in E /\ j \notin E /\ (w[j].addr = R => j \in D /\ D = E \cup {j})
      /\ j # 0
  BY DEF ToRemove
<1> HIDE DEF D, E
<1>3. Matched(u, w, j, R, W)
  <2> DEFINE x == [k \in E |-> v[k]]
  <2>1. x \in [E -> 1 .. Len(u)] /\ \A k \in E : x[k] = v[k] /\ k \in D
    BY <1>1, <1>2
  <2> HIDE DEF x
  <2>2. \A k \in E : Covers(u[x[k]], R, W)
    BY <1>1, <2>1
  <2>3. \A k, n \in E : x[k] = x[n] => k = n
    BY <1>1, <2>1
  <2> QED
    BY <2>1, <2>2, <2>3, Zenon DEF Matched, E
<1>4. ASSUME NEW r, NEW p, Drops(r, u, p), u[p].addr = w[j].addr
      PROVE  Matched(r, w, j, R, W)
  <2>1. /\ \A q \in 1 .. Len(u) : q # p => Moved(q, p) \in 1 .. Len(r) /\ r[Moved(q, p)] = u[q]
        /\ \A q, t \in 1 .. Len(u) : q # p /\ t # p /\ Moved(q, p) = Moved(t, p) => q = t
    BY <1>4, DropsMoves
  (* The one whose place is taken gets the place of the one removed.       *)
  <2> DEFINE y == [k \in E |-> IF v[k] = p THEN v[j] ELSE v[k]]
             x == [k \in E |-> Moved(y[k], p)]
  <2>2. \A k \in E : /\ y[k] \in 1 .. Len(u) /\ y[k] # p /\ Covers(u[y[k]], R, W)
                     /\ (y[k] = v[k] /\ v[k] # p) \/ (v[k] = p /\ y[k] = v[j] /\ j \in D)
    <3> TAKE k \in E
    <3>1. k \in D /\ k # j /\ v[k] \in 1 .. Len(u)
      BY <1>1, <1>2
    <3>2. CASE v[k] = p
      <4>1. u[p].addr = R
        BY <1>1, <3>1, <3>2 DEF Covers
      <4>2. j \in D
        BY <1>2, <1>4, <4>1
      <4>3. v[j] # p /\ v[j] \in 1 .. Len(u) /\ Covers(u[v[j]], R, W)
        BY <1>1, <3>1, <3>2, <4>2
      <4> QED
        BY <3>2, <4>2, <4>3
    <3>3. CASE v[k] # p
      BY <1>1, <3>1, <3>3
    <3> QED
      BY <3>2, <3>3
  <2>3. \A k, n \in E : y[k] = y[n] => k = n
    <3> SUFFICES ASSUME NEW k \in E, NEW n \in E, y[k] = y[n] PROVE k = n
      OBVIOUS
    <3>1. k \in D /\ n \in D /\ k # j /\ n # j
      BY <1>2
    <3> HIDE DEF y
    <3> QED
      BY <1>1, <2>2, <3>1
  <2> HIDE DEF y
  <2>4. x \in [E -> 1 .. Len(r)] /\ \A k \in E : x[k] = Moved(y[k], p) /\ r[x[k]] = u[y[k]]
    BY <2>1, <2>2
  <2> HIDE DEF x
  <2>5. \A k \in E : Covers(r[x[k]], R, W)
    BY <2>2, <2>4
  <2>6. \A k, n \in E : x[k] = x[n] => k = n
    BY <2>1, <2>2, <2>3, <2>4
  <2> QED
    BY <2>4, <2>5, <2>6, Zenon DEF Matched, E
<1> QED
  BY <1>3, <1>4

After(s) ==
    LET after[i \in 0 .. Len(s)] ==
            IF i = 0 THEN [list_ |-> s, remove_list |-> <<>>, asserted |-> TRUE]
            ELSE Collision(after[i - 1], i)
    IN  after[Len(s)]

Left(u, w) ==
    LET left[i \in 0 .. Len(w)] == IF i = 0 THEN u ELSE Removed(left[i - 1], w[i])
    IN  left[Len(w)]

LEMMA RemoveCollisionIs ==
    ASSUME NEW s
    PROVE  remove_collision(s) = [asserted |-> After(s).asserted,
                                  list_ |-> Left(After(s).list_, After(s).remove_list)]
  BY Zenon DEF remove_collision, After, Left

LEMMA AfterIs ==
    ASSUME NEW s \in Seq(ListElement)
    PROVE  \E m : CollisionInv(s, Len(s), After(s), m)
<1> DEFINE N == Len(s)
           base == [list_ |-> s, remove_list |-> <<>>, asserted |-> TRUE]
           T(i) == {state \in States : \E m : CollisionInv(s, i, state, m)}
           Is(g) == g = [i \in 0 .. N |-> IF i = 0 THEN base ELSE Collision(g[i - 1], i)]
           f == CHOOSE g : Is(g)
<1>1. N \in Nat
  OBVIOUS
<1>2. After(s) = f[N]
  BY DEF After
<1>3. base \in States /\ base.list_ = s /\ base.remove_list = <<>> /\ base.asserted = TRUE
  BY DEF States
<1>4. CollisionInv(s, 0, base, [k \in 1 .. 0 |-> 0])
  <2>1. Len(<<>>) = 0 /\ 1 .. 0 = {}
    OBVIOUS
  <2> HIDE DEF base
  <2> QED
    BY <1>3, <2>1 DEF CollisionInv, Kept
<1> HIDE DEF base, N
<1> DEFINE Have == {i \in 0 .. N : \E g \in [0 .. i -> States] :
                       /\ g = [k \in 0 .. i |-> IF k = 0 THEN base ELSE Collision(g[k - 1], k)]
                       /\ \A k \in 0 .. i : g[k] \in T(k)}
<1>5. 0 \in Have
  <2> DEFINE g == [k \in 0 .. 0 |-> base]
  <2>1. g \in [0 .. 0 -> States] /\ g[0] = base
    BY <1>3
  <2>2. base \in T(0)
    BY <1>3, <1>4
  <2> HIDE DEF T
  <2>3. g = [k \in 0 .. 0 |-> IF k = 0 THEN base ELSE Collision(g[k - 1], k)]
    OBVIOUS
  <2>4. \A k \in 0 .. 0 : g[k] \in T(k)
    BY <2>1, <2>2
  <2> HIDE DEF g
  <2> QED
    BY <1>1, <2>1, <2>3, <2>4
<1>6. \A i \in 1 .. N : i - 1 \in Have => i \in Have
  <2> SUFFICES ASSUME NEW i \in 1 .. N, i - 1 \in Have PROVE i \in Have
    OBVIOUS
  <2>1. PICK h \in [0 .. i - 1 -> States] :
              /\ h = [k \in 0 .. i - 1 |-> IF k = 0 THEN base ELSE Collision(h[k - 1], k)]
              /\ \A k \in 0 .. i - 1 : h[k] \in T(k)
    BY Zenon
  <2> DEFINE c == Collision(h[i - 1], i)
             g == [k \in 0 .. i |-> IF k = i THEN c ELSE h[k]]
  <2>2. i - 1 \in 0 .. i - 1 /\ i \in Nat /\ i # 0 /\ i \in 0 .. N
    BY <1>1
  <2>3. c \in T(i)
    <3>1. PICK m : CollisionInv(s, i - 1, h[i - 1], m)
      BY <2>1, <2>2
    <3>2. PICK q : CollisionInv(s, i, c, q)
      BY <3>1, CollisionStep DEF N
    <3>3. c \in States
      BY <3>2 DEF CollisionInv
    <3> HIDE DEF c
    <3> QED
      BY <3>2, <3>3
  <2>4. c \in States
    BY <2>3
  <2> HIDE DEF T, c
  <2>5. /\ g \in [0 .. i -> States] /\ g[i] = c
        /\ \A k \in 0 .. i : k # i => k \in 0 .. i - 1 /\ g[k] = h[k]
        /\ DOMAIN g = 0 .. i
    BY <2>1, <2>2, <2>4
  <2> HIDE DEF g
  <2>6. \A k \in 0 .. i : g[k] = IF k = 0 THEN base ELSE Collision(g[k - 1], k)
    <3> TAKE k \in 0 .. i
    <3>1. CASE k = i
      <4>1. g[i - 1] = h[i - 1]
        BY <2>2, <2>5
      <4> QED
        BY <2>2, <2>5, <3>1, <4>1 DEF c
    <3>2. CASE k # i
      <4>1. k \in 0 .. i - 1 /\ g[k] = h[k]
        BY <2>5, <3>2
      <4>2. h[k] = IF k = 0 THEN base ELSE Collision(h[k - 1], k)
        BY <2>1, <4>1
      <4>3. k # 0 => k - 1 \in 0 .. i /\ k - 1 # i
        BY <2>2, <4>1
      <4> QED
        BY <2>5, <4>1, <4>2, <4>3
    <3> QED
      BY <3>1, <3>2
  <2>7. g = [k \in 0 .. i |-> IF k = 0 THEN base ELSE Collision(g[k - 1], k)]
    BY <2>5, <2>6
  <2>8. \A k \in 0 .. i : g[k] \in T(k)
    BY <2>1, <2>3, <2>5
  <2> QED
    BY <2>2, <2>5, <2>7, <2>8
<1> HIDE DEF Have
<1>7. 0 .. N \subseteq Have
  BY <1>1, <1>5, <1>6, UpTo
<1>8. N \in Have
  BY <1>1, <1>7
<1>9. PICK g \in [0 .. N -> States] :
              /\ g = [k \in 0 .. N |-> IF k = 0 THEN base ELSE Collision(g[k - 1], k)]
              /\ \A k \in 0 .. N : g[k] \in T(k)
  BY <1>8, Zenon DEF Have
<1>10. Is(f)
  BY <1>9, Zenon
<1> HIDE DEF f
<1> DEFINE Same == {i \in 0 .. N : f[i] = g[i]}
<1>11. 0 \in Same
  <2>1. f[0] = base /\ g[0] = base
    BY <1>1, <1>9, <1>10
  <2> QED
    BY <1>1, <2>1
<1>12. \A i \in 1 .. N : i - 1 \in Same => i \in Same
  <2> SUFFICES ASSUME NEW i \in 1 .. N, f[i - 1] = g[i - 1] PROVE i \in Same
    OBVIOUS
  <2>1. i \in 0 .. N /\ i # 0
    BY <1>1
  <2>2. f[i] = Collision(f[i - 1], i)
    BY <1>10, <2>1
  <2>3. g[i] = Collision(g[i - 1], i)
    BY <1>9, <2>1
  <2> QED
    BY <2>1, <2>2, <2>3
<1> HIDE DEF Same
<1>13. f[N] = g[N]
  <2>1. 0 .. N \subseteq Same
    BY <1>1, <1>11, <1>12, UpTo
  <2> QED
    BY <1>1, <2>1 DEF Same
<1>14. f[N] \in T(N)
  <2> HIDE DEF T
  <2> QED
    BY <1>1, <1>9, <1>13
<1> QED
  BY <1>2, <1>14 DEF N

(* In the order of addresses, and only roots start together.               *)
Orderly(u) ==
    /\ Ascending(u)
    /\ \A i, j \in 1 .. Len(u) : u[i].addr = u[j].addr => i = j \/ (u[i].special /\ u[j].special)

(* What is left of u when roots are removed from it.                       *)
Remains(r, u) ==
    /\ r \in Seq(ListElement) /\ Orderly(r)
    /\ \A k \in 1 .. Len(u) : ~u[k].special => \E q \in 1 .. Len(r) : r[q] = u[k]
    /\ \A q \in 1 .. Len(r) : \E k \in 1 .. Len(u) : r[q] = u[k]

LEMMA DropOrderly ==
    ASSUME NEW u \in Seq(ListElement), Orderly(u), NEW s, Remains(s, u), NEW e,
           NEW z \in 1 .. Len(u), u[z].special, u[z].addr = e.addr
    PROVE  Remains(Removed(s, e), u)
<1> DEFINE r == Removed(s, e)
<1>1. s \in Seq(ListElement) /\ Orderly(s)
  BY DEF Remains
<1>2. r = s \/ \E p \in 1 .. Len(s) : s[p].addr = e.addr /\ Drops(r, s, p)
  BY <1>1, RemovedIs
<1> HIDE DEF r
<1>3. ASSUME NEW p \in 1 .. Len(s), s[p].addr = e.addr, Drops(r, s, p)
      PROVE  Remains(r, u)
  <2>1. /\ \A q \in 1 .. Len(s) : q # p => Moved(q, p) \in 1 .. Len(r) /\ r[Moved(q, p)] = s[q]
        /\ \A q, t \in 1 .. Len(s) : q # p /\ t # p /\ Moved(q, p) = Moved(t, p) => q = t
        /\ \A k \in 1 .. Len(r) : \E q \in 1 .. Len(s) : q # p /\ k = Moved(q, p)
        /\ \A q, t \in 1 .. Len(s) : q # p /\ t # p /\ q < t => Moved(q, p) < Moved(t, p)
    BY <1>1, <1>3, DropsMoves
  <2>2. r \in Seq(ListElement) /\ DOMAIN r = 1 .. Len(r) /\ DOMAIN s = 1 .. Len(s)
    BY <1>1, <1>3 DEF Drops
  <2>3. \A k \in 1 .. Len(r) : \E q \in 1 .. Len(s) : q # p /\ k = Moved(q, p) /\ r[k] = s[q]
    BY <2>1
  <2>4. s[p].special
    <3>1. PICK k \in 1 .. Len(u) : s[p] = u[k]
      BY <1>3 DEF Remains
    <3>2. k = z \/ u[k].special
      BY <1>3, <3>1 DEF Orderly
    <3> QED
      BY <3>1, <3>2
  <2>5. Ascending(r)
    <3> SUFFICES ASSUME NEW i \in 1 .. Len(r), NEW j \in 1 .. Len(r), i < j
                 PROVE  r[i].addr <= r[j].addr
      BY <2>2 DEF Ascending
    <3>1. PICK q \in 1 .. Len(s) : q # p /\ i = Moved(q, p) /\ r[i] = s[q]
      BY <2>3
    <3>2. PICK t \in 1 .. Len(s) : t # p /\ j = Moved(t, p) /\ r[j] = s[t]
      BY <2>3
    <3>3. q < t \/ q = t \/ t < q
      OBVIOUS
    <3>4. q # t /\ ~(t < q)
      BY <2>1, <3>1, <3>2
    <3>5. q < t
      BY <3>3, <3>4
    <3> QED
      BY <1>1, <2>2, <3>1, <3>2, <3>5 DEF Orderly, Ascending
  <2>6. \A i, j \in 1 .. Len(r) : r[i].addr = r[j].addr => i = j \/ (r[i].special /\ r[j].special)
    <3> SUFFICES ASSUME NEW i \in 1 .. Len(r), NEW j \in 1 .. Len(r), r[i].addr = r[j].addr
                 PROVE  i = j \/ (r[i].special /\ r[j].special)
      OBVIOUS
    <3>1. PICK q \in 1 .. Len(s) : q # p /\ i = Moved(q, p) /\ r[i] = s[q]
      BY <2>3
    <3>2. PICK t \in 1 .. Len(s) : t # p /\ j = Moved(t, p) /\ r[j] = s[t]
      BY <2>3
    <3> QED
      BY <1>1, <3>1, <3>2 DEF Orderly
  <2>7. \A k \in 1 .. Len(u) : ~u[k].special => \E q \in 1 .. Len(r) : r[q] = u[k]
    <3> SUFFICES ASSUME NEW k \in 1 .. Len(u), ~u[k].special PROVE \E q \in 1 .. Len(r) : r[q] = u[k]
      OBVIOUS
    <3>1. PICK q \in 1 .. Len(s) : s[q] = u[k]
      BY DEF Remains
    <3>2. q # p
      BY <2>4, <3>1
    <3> QED
      BY <2>1, <3>1, <3>2
  <2>8. \A k \in 1 .. Len(r) : \E q \in 1 .. Len(u) : r[k] = u[q]
    <3> TAKE k \in 1 .. Len(r)
    <3>1. PICK q \in 1 .. Len(s) : r[k] = s[q]
      BY <2>3
    <3> QED
      BY <3>1 DEF Remains
  <2> QED
    BY <2>2, <2>5, <2>6, <2>7, <2>8 DEF Remains, Orderly
<1> QED
  BY <1>2, <1>3 DEF r

LEMMA LeftSteps ==
    ASSUME NEW u \in Seq(ListElement), NEW w \in Seq(ListElement)
    PROVE  \E f \in [0 .. Len(w) -> Seq(ListElement)] :
              /\ f[0] = u /\ Left(u, w) = f[Len(w)]
              /\ \A j \in 1 .. Len(w) : f[j] = Removed(f[j - 1], w[j])
<1> DEFINE N == Len(w)
           S == Seq(ListElement)
           step == [j \in 1 .. N |-> [s \in S |-> Removed(s, w[j])]]
           Is(g) == g = [i \in 0 .. N |-> IF i = 0 THEN u ELSE Removed(g[i - 1], w[i])]
           f == CHOOSE g : Is(g)
<1>1. N \in Nat
  OBVIOUS
<1>2. Left(u, w) = f[N]
  BY DEF Left
<1>3. \A s \in S : \A e : Removed(s, e) \in S
  <2> SUFFICES ASSUME NEW s \in S, NEW e PROVE Removed(s, e) \in S
    OBVIOUS
  <2>1. Removed(s, e) = s \/ \E p \in 1 .. Len(s) : Drops(Removed(s, e), s, p)
    BY RemovedIs
  <2> QED
    BY <2>1 DEF Drops
<1>4. step \in [1 .. N -> [S -> S]]
  BY <1>3
<1>5. \A j \in 1 .. N : \A s \in S : step[j][s] = Removed(s, w[j])
  OBVIOUS
<1>6. u \in S
  OBVIOUS
<1> HIDE DEF N, S, step
<1>7. PICK g \in [0 .. N -> S] : Recurs(g, N, u, step)
  BY <1>1, <1>4, <1>6, Recursion
<1>8. \A j \in 1 .. N : step[j][g[j - 1]] = Removed(g[j - 1], w[j])
  <2> TAKE j \in 1 .. N
  <2>1. j - 1 \in 0 .. N
    BY <1>1
  <2> QED
    BY <1>5, <1>7, <2>1
<1>9. Is(g)
  <2>1. g = [j \in 0 .. N |-> IF j = 0 THEN u ELSE step[j][g[j - 1]]]
    BY <1>7, Zenon DEF Recurs
  <2>2. \A j \in 0 .. N : j = 0 \/ j \in 1 .. N
    BY <1>1
  <2> QED
    BY <1>8, <2>1, <2>2
<1>10. Is(f)
  BY <1>9, Zenon
<1> HIDE DEF f
<1>11. 0 \in 0 .. N /\ \A j \in 1 .. N : j \in 0 .. N /\ j # 0
  BY <1>1
<1>12. f[0] = u /\ \A j \in 1 .. N : f[j] = Removed(f[j - 1], w[j])
  BY <1>10, <1>11
<1>13. DOMAIN f = 0 .. N /\ f = [j \in DOMAIN f |-> f[j]]
  BY <1>10
<1> DEFINE Have == {j \in 0 .. N : f[j] \in S}
<1>14. 0 \in Have
  BY <1>6, <1>11, <1>12
<1>15. \A j \in 1 .. N : j - 1 \in Have => j \in Have
  BY <1>3, <1>11, <1>12
<1> HIDE DEF Have
<1>16. 0 .. N \subseteq Have
  BY <1>1, <1>14, <1>15, UpTo
<1>17. \A j \in 0 .. N : f[j] \in S
  BY <1>16 DEF Have
<1>18. f \in [0 .. N -> S]
  BY <1>13, <1>17
<1> QED
  BY <1>2, <1>12, <1>18 DEF N, S

LEMMA LeftIs ==
    ASSUME NEW u \in Seq(ListElement), NEW w \in Seq(ListElement), Orderly(u),
           \A k \in 1 .. Len(w) : \E z \in 1 .. Len(u) : u[z].special /\ u[z].addr = w[k].addr
    PROVE  /\ Remains(Left(u, w), u)
           /\ \A R, W : Matched(u, w, 0, R, W) =>
                 \E q \in 1 .. Len(Left(u, w)) : Covers(Left(u, w)[q], R, W)
<1> DEFINE N == Len(w)
<1>1. N \in Nat /\ \A j \in 1 .. N : j \in 0 .. N /\ j - 1 \in 0 .. N
  OBVIOUS
<1>2. PICK f \in [0 .. N -> Seq(ListElement)] :
              /\ f[0] = u /\ Left(u, w) = f[N]
              /\ \A j \in 1 .. N : f[j] = Removed(f[j - 1], w[j])
  BY LeftSteps
<1>3. Remains(f[N], u)
  <2> DEFINE Have == {j \in 0 .. N : Remains(f[j], u)}
  <2>1. 0 \in Have
    <3>1. Remains(u, u)
      BY DEF Remains
    <3> QED
      BY <1>1, <1>2, <3>1
  <2>2. \A j \in 1 .. N : j - 1 \in Have => j \in Have
    <3> SUFFICES ASSUME NEW j \in 1 .. N, Remains(f[j - 1], u) PROVE j \in Have
      OBVIOUS
    <3>1. PICK z \in 1 .. Len(u) : u[z].special /\ u[z].addr = w[j].addr
      OBVIOUS
    <3>2. Remains(Removed(f[j - 1], w[j]), u)
      BY <3>1, DropOrderly
    <3> QED
      BY <1>1, <1>2, <3>2
  <2> HIDE DEF Have, N
  <2>3. 0 .. N \subseteq Have
    BY <1>1, <2>1, <2>2, UpTo
  <2> QED
    BY <1>1, <2>3 DEF Have
<1>4. ASSUME NEW R, NEW W, Matched(u, w, 0, R, W)
      PROVE  \E q \in 1 .. Len(f[N]) : Covers(f[N][q], R, W)
  <2> DEFINE Have == {j \in 0 .. N : Matched(f[j], w, j, R, W)}
  <2>1. 0 \in Have
    BY <1>1, <1>2, <1>4
  <2>2. \A j \in 1 .. N : j - 1 \in Have => j \in Have
    <3> SUFFICES ASSUME NEW j \in 1 .. N, Matched(f[j - 1], w, j - 1, R, W) PROVE j \in Have
      OBVIOUS
    <3> DEFINE s == f[j - 1]
               r == f[j]
    <3>1. s \in Seq(ListElement) /\ r = Removed(s, w[j])
      BY <1>1, <1>2
    <3> HIDE DEF s, r
    <3>2. r = s \/ \E p \in 1 .. Len(s) : s[p].addr = w[j].addr /\ Drops(r, s, p)
      BY <3>1, RemovedIs
    <3>3. Matched(s, w, j, R, W) /\ \A t, p : Drops(t, s, p) /\ s[p].addr = w[j].addr
                                                 => Matched(t, w, j, R, W)
      BY <3>1, MatchedStep DEF s
    <3>4. Matched(r, w, j, R, W)
      BY <3>2, <3>3
    <3> QED
      BY <1>1, <3>4 DEF r
  <2> HIDE DEF Have
  <2>3. 0 .. N \subseteq Have
    BY <1>1, <2>1, <2>2, UpTo
  <2>4. Matched(f[N], w, N, R, W)
    BY <1>1, <2>3 DEF Have
  <2>5. PICK v \in [ToRemove(w, N, R) -> 1 .. Len(f[N])] :
              \A k \in ToRemove(w, N, R) : Covers(f[N][v[k]], R, W)
    BY <2>4, Zenon DEF Matched
  <2>6. 0 \in ToRemove(w, N, R)
    BY DEF ToRemove
  <2> QED
    BY <2>5, <2>6
<1> QED
  BY <1>2, <1>3, <1>4 DEF N

-----------------------------------------------------------------------------
(* remove_collision.                                                       *)
Genuine(s) ==
    \A k \in 1 .. Len(s) : s[k].special =>
        /\ Len(s[k].userContent) = s[k].size
        /\ \A i \in 1 .. s[k].size : s[k].userContent[i] = Word(s[k].addr + i - 1)

LEMMA CollisionsRemoved ==
    ASSUME NEW s \in Seq(ListElement)
    PROVE  /\ remove_collision(s).list_ \in Seq(ListElement)
           /\ Shrinks(s) => remove_collision(s).asserted
           /\ (\A i \in 1 .. Len(s) : s[i].special => Overlappers(s, i) = {}) =>
                 remove_collision(s).list_ = s
<1> DEFINE u == After(s).list_
           w == After(s).remove_list
           r == remove_collision(s)
<1>1. PICK m : CollisionInv(s, Len(s), After(s), m)
  BY AfterIs
<1>2. /\ After(s) \in States /\ Kept(s, u)
      /\ m \in [1 .. Len(w) -> 1 .. Len(s)]
      /\ \A k \in 1 .. Len(w) : s[m[k]].special /\ Overlappers(s, m[k]) # {}
      /\ Shrinks(s) => After(s).asserted
  BY <1>1, Zenon DEF CollisionInv
<1>3. u \in Seq(ListElement) /\ w \in Seq(ListElement)
  BY <1>2 DEF States
<1>4. r.asserted = After(s).asserted /\ r.list_ = Left(u, w)
  BY RemoveCollisionIs
<1> HIDE DEF u, w, r
<1>5. PICK f \in [0 .. Len(w) -> Seq(ListElement)] : f[0] = u /\ Left(u, w) = f[Len(w)]
  BY <1>3, LeftSteps
<1>6. Left(u, w) \in Seq(ListElement)
  BY <1>3, <1>5
<1>7. ASSUME \A i \in 1 .. Len(s) : s[i].special => Overlappers(s, i) = {}
      PROVE  r.list_ = s
  <2>1. Len(w) = 0
    <3>1. Len(w) \in Nat
      BY <1>3
    <3>2. 1 \notin 1 .. Len(w)
      BY <1>2, <1>7
    <3> QED
      BY <3>1, <3>2
  <2>2. Len(u) = Len(s) /\ \A k \in 1 .. Len(s) : u[k] = s[k]
    BY <1>2, <1>7 DEF Kept
  <2>3. u = s
    BY <1>3, <2>2
  <2> QED
    BY <1>4, <1>5, <2>1, <2>3
<1> QED
  BY <1>2, <1>4, <1>6, <1>7 DEF r

LEMMA Uncovered ==
    ASSUME NEW s \in Seq(ListElement), Genuine(s), NEW i \in 1 .. Len(s), NEW k \in 1 .. Len(s),
           s[i].special, s[k].special, s[i].addr = s[k].addr,
           Overlappers(s, i) = {}, Overlappers(s, k) # {}
    PROVE  ToSet(s[i].userContent) \subseteq ToSet(s[k].userContent)
<1>1. s[i] \in ListElement /\ s[k] \in ListElement
  OBVIOUS
<1>2. PICK a \in 1 .. Len(s) : ~s[a].special /\ Overlap(s[a], s[k])
  BY DEF Overlappers
<1>3. ~Overlap(s[a], s[i])
  BY <1>2 DEF Overlappers
<1>4. s[a] \in ListElement
  OBVIOUS
<1>5. s[i].size < s[k].size
  <2>1. /\ s[i].addr \in Nat /\ s[i].size \in Nat /\ s[k].size \in Nat
        /\ s[a].addr \in Nat /\ s[a].size \in Nat
    BY <1>1, <1>4 DEF ListElement
  <2> QED
    BY <1>2, <1>3, <2>1 DEF Overlap
<1>6. /\ Len(s[i].userContent) = s[i].size
      /\ \A n \in 1 .. s[i].size : s[i].userContent[n] = Word(s[i].addr + n - 1)
      /\ Len(s[k].userContent) = s[k].size
      /\ \A n \in 1 .. s[k].size : s[k].userContent[n] = Word(s[k].addr + n - 1)
  BY DEF Genuine
<1> DEFINE c == s[i].userContent
           d == s[k].userContent
<1>7. c \in Seq(Nat) /\ d \in Seq(Nat)
  BY <1>1 DEF ListElement
<1>8. s[i].size \in Nat /\ s[k].size \in Nat
  BY <1>1 DEF ListElement
<1>9. \A n \in 1 .. Len(c) : n \in 1 .. Len(d) /\ c[n] = d[n]
  BY <1>5, <1>6, <1>8
<1> HIDE DEF c, d
<1>10. DOMAIN c = 1 .. Len(c) /\ DOMAIN d = 1 .. Len(d)
  BY <1>7
<1>11. ToSet(c) \subseteq ToSet(d)
  BY <1>9, <1>10, Zenon DEF ToSet
<1> QED
  BY <1>11 DEF c, d

(* What is left of s without collisions: allocations are left as they      *)
(* were, and something still covers each root that none overlaps.          *)
Cleaned(r, s) ==
    /\ r \in Seq(ListElement) /\ Orderly(r)
    /\ \A k \in 1 .. Len(s) : ~s[k].special => \E q \in 1 .. Len(r) : r[q] = s[k]
    /\ \A q \in 1 .. Len(r) : ~r[q].special => \E k \in 1 .. Len(s) : r[q] = s[k]
    /\ \A i \in 1 .. Len(s) : s[i].special /\ Overlappers(s, i) = {} =>
          \E q \in 1 .. Len(r) : Covers(r[q], s[i].addr, ToSet(s[i].userContent))

LEMMA CollisionsCleaned ==
    ASSUME NEW s \in Seq(ListElement), Orderly(s), Genuine(s)
    PROVE  Cleaned(remove_collision(s).list_, s)
<1> DEFINE u == After(s).list_
           w == After(s).remove_list
           r == Left(u, w)
<1>1. PICK m : CollisionInv(s, Len(s), After(s), m)
  BY AfterIs
<1>2. /\ After(s) \in States /\ Kept(s, u)
      /\ m \in [1 .. Len(w) -> 1 .. Len(s)]
      /\ \A k \in 1 .. Len(w) : /\ w[k] = s[m[k]] /\ u[m[k]] = s[m[k]]
                                /\ s[m[k]].special /\ Overlappers(s, m[k]) # {}
      /\ \A k, n \in 1 .. Len(w) : m[k] = m[n] => k = n
  BY <1>1, Zenon DEF CollisionInv
<1>3. u \in Seq(ListElement) /\ w \in Seq(ListElement)
  BY <1>2 DEF States
<1>4. remove_collision(s).list_ = r
  BY RemoveCollisionIs
<1> HIDE DEF u, w
<1>5. /\ Len(u) = Len(s)
      /\ \A k \in 1 .. Len(s) :
            /\ u[k].addr = s[k].addr /\ u[k].special = s[k].special
            /\ ~s[k].special \/ Overlappers(s, k) = {} => u[k] = s[k]
  BY <1>2, Zenon DEF Kept
<1>6. Orderly(u)
  <2>1. DOMAIN s = 1 .. Len(s) /\ DOMAIN u = 1 .. Len(u)
    BY <1>3
  <2> QED
    BY <1>5, <2>1 DEF Orderly, Ascending
<1>7. \A k \in 1 .. Len(w) : \E z \in 1 .. Len(u) : u[z].special /\ u[z].addr = w[k].addr
  BY <1>2, <1>5
<1>8. /\ Remains(r, u)
      /\ \A R, W : Matched(u, w, 0, R, W) => \E q \in 1 .. Len(r) : Covers(r[q], R, W)
  BY <1>3, <1>6, <1>7, LeftIs
<1> HIDE DEF r
<1>9. ASSUME NEW i \in 1 .. Len(s), s[i].special, Overlappers(s, i) = {}
      PROVE  \E q \in 1 .. Len(r) : Covers(r[q], s[i].addr, ToSet(s[i].userContent))
  <2> DEFINE R == s[i].addr
             W == ToSet(s[i].userContent)
             K == ToRemove(w, 0, R)
             v == [k \in K |-> IF k = 0 THEN i ELSE m[k]]
  <2>1. \A k \in K : k = 0 \/ (k # 0 /\ k \in 1 .. Len(w) /\ w[k].addr = R)
    BY <1>3 DEF ToRemove
  <2>2. Covers(u[i], R, W)
    BY <1>5, <1>9 DEF Covers
  <2>3. ASSUME NEW k \in 1 .. Len(w), w[k].addr = R
        PROVE  m[k] \in 1 .. Len(s) /\ m[k] # i /\ Covers(u[m[k]], R, W)
    <3>1. m[k] \in 1 .. Len(s) /\ u[m[k]] = s[m[k]] /\ s[m[k]].special /\ s[m[k]].addr = R
      BY <1>2, <2>3
    <3>2. m[k] # i /\ Overlappers(s, m[k]) # {}
      BY <1>2, <1>9
    <3>3. W \subseteq ToSet(s[m[k]].userContent)
      BY <1>9, <3>1, <3>2, Uncovered
    <3> QED
      BY <3>1, <3>2, <3>3 DEF Covers
  <2> HIDE DEF K, R, W
  <2>4. /\ v \in [K -> 1 .. Len(u)]
        /\ \A k \in K : Covers(u[v[k]], R, W)
        /\ \A k, n \in K : v[k] = v[n] => k = n
    BY <1>2, <1>5, <2>1, <2>2, <2>3
  <2>5. Matched(u, w, 0, R, W)
    BY <2>4, Zenon DEF Matched, K
  <2> QED
    BY <1>8, <2>5 DEF R, W
<1>10. /\ r \in Seq(ListElement) /\ Orderly(r)
       /\ \A k \in 1 .. Len(u) : ~u[k].special => \E q \in 1 .. Len(r) : r[q] = u[k]
       /\ \A q \in 1 .. Len(r) : \E k \in 1 .. Len(u) : r[q] = u[k]
  BY <1>8, Zenon DEF Remains
<1>11. /\ \A k \in 1 .. Len(s) : ~s[k].special => \E q \in 1 .. Len(r) : r[q] = s[k]
       /\ \A q \in 1 .. Len(r) : ~r[q].special => \E k \in 1 .. Len(s) : r[q] = s[k]
  <2>1. \A k \in 1 .. Len(u) : k \in 1 .. Len(s) /\ (~u[k].special => u[k] = s[k])
    BY <1>5
  <2>2. \A k \in 1 .. Len(s) : k \in 1 .. Len(u) /\ (~s[k].special => u[k] = s[k])
    BY <1>5
  <2> QED
    BY <1>10, <2>1, <2>2, Zenon
<1> QED
  BY <1>4, <1>9, <1>10, <1>11 DEF Cleaned

-----------------------------------------------------------------------------
(* The headers that are sent: the ledger's entries come first, and there   *)
(* is one of each address.                                                 *)
Distinct(hs) ==
    \A i, j \in 1 .. Len(hs) :
        ~Root(hs[i]) /\ ~Root(hs[j]) /\ hs[i].addr = hs[j].addr => i = j

SentInv ==
    /\ Distinct(sent)
    /\ \A i \in 1 .. Len(sent) : Root(sent[i]) => sent[i].dataAttrib = {"content"}
    /\ pc = "walk" =>
          \A i \in 1 .. Len(sent) : \E k \in 1 .. Len(snapshot.chunks) :
              k < next /\ sent[i].addr = snapshot.chunks[k].addr

LEMMA Appended ==
    ASSUME NEW hs \in Seq(HeaderType), NEW h \in HeaderType
    PROVE  /\ Len(Append(hs, h)) = Len(hs) + 1
           /\ Append(hs, h)[Len(hs) + 1] = h
           /\ \A i \in 1 .. Len(hs) : Append(hs, h)[i] = hs[i]
           /\ \A i \in 1 .. Len(hs) + 1 : i \in 1 .. Len(hs) \/ i = Len(hs) + 1
  OBVIOUS

LEMMA RootSent ==
    ASSUME SenderInv, SendStack \/ SendData \/ SendBss
    PROVE  \/ UNCHANGED sent
           \/ \E h \in HeaderType :
                 sent' = Append(sent, h) /\ Root(h) /\ h.dataAttrib = {"content"}
<1>1. sent \in Seq(HeaderType)
  BY DEF SenderInv
<1>2. \/ UNCHANGED sent
      \/ \E h \in HeaderType : Send(h) /\ h.backtraces \in Kinds(pc)
  BY ChildSends DEF Child
<1>3. ASSUME NEW h \in HeaderType, Send(h), h.backtraces \in Kinds(pc), ~UNCHANGED sent
      PROVE  sent' = Append(sent, h) /\ Root(h) /\ h.dataAttrib = {"content"}
  <2>1. pc \in {"stacks", "globals", "bss"}
    BY DEF SendStack, SendData, SendBss, Sends
  <2>2. Root(h)
    BY <1>3, <2>1 DEF Kinds, Root
  <2>3. sent' = Append(sent, h)
    BY <1>3 DEF Send
  <2>4. PICK addr, len, kind : sent' = Append(sent, Header(addr, len, kind, {"content"}))
    <3>1. CASE SendStack
      BY <1>3, <3>1, Zenon DEF SendStack, Send
    <3>2. CASE SendData
      <4>1. SendElement(list[next])
        BY <1>3, <3>2, Zenon DEF SendData
      <4> QED
        BY <4>1, Zenon DEF SendElement, Send
    <3>3. CASE SendBss
      BY <3>3, Zenon DEF SendBss, SendElement, Send
    <3> QED
      BY <3>1, <3>2, <3>3
  <2> DEFINE g == Header(addr, len, kind, {"content"})
  <2>5. g.dataAttrib = {"content"}
    BY DEF Header
  <2> HIDE DEF g
  <2>6. Append(sent, g)[Len(sent) + 1] = g
    BY <1>1
  <2>7. Append(sent, h)[Len(sent) + 1] = h
    BY <1>1
  <2>8. g = h
    BY <2>3, <2>4, <2>6, <2>7 DEF g
  <2> QED
    BY <2>2, <2>3, <2>5, <2>8
<1> QED
  BY <1>2, <1>3

LEMMA SentInvInit == Init => SentInv
  BY DEF Init, SentInv, Distinct

LEMMA SentInvStep ==
    ASSUME SenderInv, SentInv, [Next]_vars
    PROVE  SentInv'
<1> DEFINE chunks == snapshot.chunks
           L == Len(sent)
<1>1. /\ snapshot \in Snapshots /\ chunks \in Seq(Chunks) /\ sent \in Seq(HeaderType)
      /\ next \in Nat \ {0} /\ L \in Nat /\ Len(chunks) \in Nat
      /\ \A i, j \in 1 .. Len(chunks) : chunks[i].addr = chunks[j].addr => i = j
  BY SnapshotAssumption DEF SenderInv
<1>2. CASE UNCHANGED vars
  BY <1>2 DEF vars, SentInv
<1>3. CASE SendSome \/ SendLost \/ Killed \/ HangUp
  BY <1>3 DEF SendSome, SendLost, Killed, HangUp, SentInv
<1>4. CASE WalkEnds \/ ParseMaps \/ StacksEnd \/ Finish
  <2>1. UNCHANGED sent /\ pc' # "walk"
    BY <1>4 DEF WalkEnds, ParseMaps, StacksEnd, Finish, GoTo
  <2> QED
    BY <2>1 DEF SentInv
<1>5. CASE SendStack \/ SendData \/ SendBss
  <2>1. pc' # "walk"
    BY <1>5 DEF SendStack, SendData, SendBss, GoTo
  <2>2. CASE UNCHANGED sent
    BY <2>1, <2>2 DEF SentInv
  <2>3. ASSUME NEW h \in HeaderType, sent' = Append(sent, h), Root(h), h.dataAttrib = {"content"}
        PROVE  SentInv'
    <3>1. /\ Len(sent') = L + 1 /\ sent'[L + 1] = h
          /\ \A i \in 1 .. L : sent'[i] = sent[i]
          /\ \A i \in 1 .. L + 1 : i \in 1 .. L \/ i = L + 1
      BY <1>1, <2>3, Appended
    <3> QED
      BY <2>1, <2>3, <3>1 DEF SentInv, Distinct
  <2> QED
    BY <1>5, <2>2, <2>3, RootSent
<1>6. CASE NotifyChunk
  <2>1. pc = "walk" /\ next \in 1 .. Len(chunks) /\ next' = next + 1 /\ UNCHANGED snapshot
    BY <1>1, <1>6 DEF NotifyChunk, Sends, GoTo
  <2>2. \A i \in 1 .. L : \E k \in 1 .. Len(chunks) : k < next /\ sent[i].addr = chunks[k].addr
    BY <2>1 DEF SentInv
  <2>3. CASE UNCHANGED sent
    <3>1. \A k \in 1 .. Len(chunks) : k < next => k < next'
      BY <1>1, <2>1
    <3> QED
      BY <2>1, <2>2, <2>3, <3>1 DEF SentInv
  <2>4. CASE ~UNCHANGED sent
    <3>1. PICK h \in HeaderType : Send(h) /\ h.backtraces \in Kinds(pc)
      BY <1>6, <2>4, ChildSends DEF Child
    <3>2. ~Root(h)
      BY <2>1, <3>1 DEF Kinds, Root, THREAD, GLOBAL
    <3>3. sent' = Append(sent, h)
      BY <3>1 DEF Send
    <3>4. PICK len, kind, attrib : sent' = Append(sent, Header(chunks[next].addr, len, kind, attrib))
      BY <1>6, <2>4, Zenon DEF NotifyChunk, Send
    <3> DEFINE g == Header(chunks[next].addr, len, kind, attrib)
    <3>5. g.addr = chunks[next].addr
      BY DEF Header
    <3> HIDE DEF g
    <3>6. Append(sent, g)[L + 1] = g
      BY <1>1
    <3>7. /\ Len(sent') = L + 1 /\ sent'[L + 1] = h
          /\ \A i \in 1 .. L : sent'[i] = sent[i]
          /\ \A i \in 1 .. L + 1 : i \in 1 .. L \/ i = L + 1
      BY <1>1, <3>3, Appended
    <3>8. h.addr = chunks[next].addr
      BY <3>4, <3>5, <3>6, <3>7 DEF g
    <3> HIDE DEF chunks, L
    <3>9. \A i \in 1 .. L : sent[i].addr # h.addr
      BY <1>1, <2>1, <2>2, <3>8
    <3>10. \A i, j \in 1 .. L : ~Root(sent[i]) /\ ~Root(sent[j]) /\ sent[i].addr = sent[j].addr => i = j
      BY DEF SentInv, Distinct, L
    <3>11. Distinct(sent')
      BY <3>7, <3>9, <3>10, Zenon DEF Distinct
    <3>12. \A k \in 1 .. Len(chunks) : (k < next => k < next') /\ (k = next => k < next')
      BY <1>1, <2>1
    <3>13. \A i \in 1 .. L : \E k \in 1 .. Len(chunks) : k < next' /\ sent'[i].addr = chunks[k].addr
      BY <2>2, <3>7, <3>12
    <3>14. \E k \in 1 .. Len(chunks) : k < next' /\ sent'[L + 1].addr = chunks[k].addr
      BY <2>1, <3>7, <3>8, <3>12
    <3>15. \A i \in 1 .. L : Root(sent[i]) => sent[i].dataAttrib = {"content"}
      BY DEF SentInv, L
    <3>16. \A i \in 1 .. L + 1 : Root(sent'[i]) => sent'[i].dataAttrib = {"content"}
      BY <3>2, <3>7, <3>15
    <3>17. chunks = snapshot'.chunks
      BY <2>1 DEF chunks
    <3> QED
      BY <3>7, <3>11, <3>13, <3>14, <3>16, <3>17 DEF SentInv
  <2> QED
    BY <2>3, <2>4
<1> QED
  BY <1>2, <1>3, <1>4, <1>5, <1>6 DEF Next, Sending, Child

LEMMA SentAlways == AnalysisSpec => []SentInv
<1>1. Init => SentInv
  BY SentInvInit
<1>2. SenderInv /\ SentInv /\ [Next]_vars => SentInv'
  BY SentInvStep
<1> QED
  BY <1>1, <1>2, AnalysisSends, SenderAlways, PTL DEF Spec

-----------------------------------------------------------------------------
(* The list that is read from the records of hs, before collisions are     *)
(* removed.                                                                *)
Lists(s, hs, q) ==
    /\ s \in Seq(ListElement) /\ Len(s) = Len(hs) /\ Ascending(s)
    /\ q \in [1 .. Len(hs) -> 1 .. Len(hs)]
    /\ \A i \in 1 .. Len(hs) : s[i] = Elt(hs[q[i]])
    /\ \A i, j \in 1 .. Len(hs) : q[i] = q[j] => i = j
    /\ \A k \in 1 .. Len(hs) : \E i \in 1 .. Len(hs) : q[i] = k

LEMMA ListRead ==
    ASSUME snapshot \in Snapshots, NEW hs \in Seq(HeaderType)
    PROVE  \E q : Lists(Sorted([i \in 1 .. Len(hs) |-> Elt(hs[i])]), hs, q)
<1> DEFINE e == [i \in 1 .. Len(hs) |-> Elt(hs[i])]
           s == Sorted(e)
           N == Len(hs)
<1>1. N \in Nat
  OBVIOUS
<1>2. \A i \in 1 .. N : Elt(hs[i]) \in ListElement
  BY EltType
<1> HIDE DEF N
<1>3. e \in Seq(ListElement) /\ Len(e) = N
  BY <1>1, <1>2 DEF N
<1>4. \A i \in 1 .. N : e[i] = Elt(hs[i])
  BY DEF N
<1> HIDE DEF e
<1>5. Ascending(s) /\ \E q : Permutes(s, q, e, N)
  BY <1>3, SortedIs
<1> HIDE DEF s
<1>6. PICK q : Permutes(s, q, e, N)
  BY <1>5
<1>7. /\ s \in Seq(ListElement) /\ Len(s) = N /\ q \in [1 .. N -> 1 .. N]
      /\ \A i \in 1 .. N : s[i] = e[q[i]]
      /\ \A i, j \in 1 .. N : q[i] = q[j] => i = j
      /\ \A k \in 1 .. N : \E i \in 1 .. N : q[i] = k
  BY <1>6, Zenon DEF Permutes
<1>8. \A i \in 1 .. N : s[i] = Elt(hs[q[i]])
  BY <1>4, <1>7
<1>9. Lists(s, hs, q)
  BY <1>5, <1>7, <1>8, Zenon DEF Lists, N
<1> QED
  BY <1>9 DEF s, e

LEMMA ListedElement ==
    ASSUME snapshot \in Snapshots, NEW hs \in Seq(HeaderType), NEW s, NEW q, Lists(s, hs, q),
           NEW i \in 1 .. Len(s)
    PROVE  /\ hs[q[i]] \in HeaderType /\ q[i] \in 1 .. Len(hs)
           /\ s[i] = Elt(hs[q[i]]) /\ s[i] \in ListElement
           /\ s[i].addr = hs[q[i]].addr /\ s[i].size = hs[q[i]].len
           /\ s[i].special <=> Root(hs[q[i]])
<1>1. q[i] \in 1 .. Len(hs) /\ s[i] = Elt(hs[q[i]])
  BY DEF Lists
<1>2. hs[q[i]] \in HeaderType
  BY <1>1
<1> QED
  BY <1>1, <1>2, EltType

LEMMA ListGenuine ==
    ASSUME snapshot \in Snapshots, NEW hs \in Seq(HeaderType), NEW s, NEW q, Lists(s, hs, q),
           \A i \in 1 .. Len(hs) : Root(hs[i]) => hs[i].dataAttrib = {"content"}
    PROVE  Genuine(s)
<1> SUFFICES ASSUME NEW k \in 1 .. Len(s), s[k].special
             PROVE  /\ Len(s[k].userContent) = s[k].size
                    /\ \A i \in 1 .. s[k].size : s[k].userContent[i] = Word(s[k].addr + i - 1)
  BY DEF Genuine
<1> DEFINE h == hs[q[k]]
<1>1. /\ h \in HeaderType /\ q[k] \in 1 .. Len(hs) /\ s[k] = Elt(h)
      /\ s[k].addr = h.addr /\ s[k].size = h.len /\ (s[k].special <=> Root(h))
  BY ListedElement
<1>2. h.dataAttrib = {"content"}
  BY <1>1
<1> HIDE DEF h
<1>3. h.len \in Nat
  BY <1>1 DEF HeaderType
<1>4. DOMAIN Content(h) = 1 .. h.len
  BY <1>2 DEF Content
<1>5. Made(h)[1] = <<h>>
  BY <1>1, HeaderTokens
<1>6. Elt(h).userContent = [i \in 1 .. h.len |-> Word(h.addr + i - 1)]
  BY <1>4, <1>5 DEF Elt, HeapElement
<1> QED
  BY <1>1, <1>3, <1>6

LEMMA ListShrinks ==
    ASSUME snapshot \in Snapshots, NEW hs \in Seq(HeaderType), NEW s, NEW q, Lists(s, hs, q),
           \A i \in 1 .. Len(hs) : hs[i] \in Headers, RootsShrink
    PROVE  Shrinks(s)
<1> SUFFICES ASSUME NEW i \in 1 .. Len(s), s[i].special, NEW a \in Overlappers(s, i),
                    s[a].addr > s[i].addr
             PROVE  RoundDown(s[a].addr) >= s[i].addr
  BY DEF Shrinks
<1>1. a \in 1 .. Len(s) /\ ~s[a].special /\ Overlap(s[a], s[i])
  BY DEF Overlappers
<1> DEFINE r == hs[q[i]]
           h == hs[q[a]]
<1>2. /\ r \in HeaderType /\ q[i] \in 1 .. Len(hs)
      /\ s[i].addr = r.addr /\ s[i].size = r.len /\ (s[i].special <=> Root(r))
  BY ListedElement
<1>3. /\ h \in HeaderType /\ q[a] \in 1 .. Len(hs)
      /\ s[a].addr = h.addr /\ s[a].size = h.len /\ (s[a].special <=> Root(h))
  BY <1>1, ListedElement
<1>4. r \in Roots /\ h \in Headers \ Roots
  BY <1>1, <1>2, <1>3 DEF Roots
<1> HIDE DEF r, h
<1>5. r.addr \in Nat /\ r.len \in Nat /\ h.addr \in Nat /\ h.len \in Nat
  BY <1>2, <1>3 DEF HeaderType
<1>6. r.addr < h.addr /\ h.addr < r.addr + r.len
  BY <1>1, <1>2, <1>3, <1>5 DEF Overlap
<1>7. RoundDown(h.addr) >= r.addr
  BY <1>4, <1>6 DEF RootsShrink
<1> QED
  BY <1>2, <1>3, <1>7

LEMMA ListOrderly ==
    ASSUME snapshot \in Snapshots, NEW hs \in Seq(HeaderType), NEW s, NEW q, Lists(s, hs, q),
           Distinct(hs),
           \A i, j \in 1 .. Len(hs) : Root(hs[i]) /\ ~Root(hs[j]) => hs[i].addr # hs[j].addr
    PROVE  Orderly(s)
<1>1. Ascending(s) /\ \A i, j \in 1 .. Len(hs) : q[i] = q[j] => i = j
  BY DEF Lists
<1>2. Len(s) = Len(hs)
  BY DEF Lists
<1>3. ASSUME NEW i \in 1 .. Len(s), NEW j \in 1 .. Len(s), s[i].addr = s[j].addr
      PROVE  i = j \/ (s[i].special /\ s[j].special)
  <2>1. q[i] \in 1 .. Len(hs) /\ s[i].addr = hs[q[i]].addr /\ (s[i].special <=> Root(hs[q[i]]))
    BY ListedElement
  <2>2. q[j] \in 1 .. Len(hs) /\ s[j].addr = hs[q[j]].addr /\ (s[j].special <=> Root(hs[q[j]]))
    BY ListedElement
  <2>3. CASE Root(hs[q[i]])
    BY <1>3, <2>1, <2>2, <2>3
  <2>4. CASE ~Root(hs[q[i]])
    <3>1. q[i] = q[j]
      BY <1>3, <2>1, <2>2, <2>4 DEF Distinct
    <3> QED
      BY <1>1, <1>2, <3>1
  <2> QED
    BY <2>3, <2>4
<1> QED
  BY <1>1, <1>3 DEF Orderly

(* Of a root that no allocation of Headers overlaps, none in the list does.*)
LEMMA ListUncovered ==
    ASSUME snapshot \in Snapshots, NEW hs \in Seq(HeaderType), NEW s, NEW q, Lists(s, hs, q),
           \A i \in 1 .. Len(hs) : hs[i] \in Headers,
           NEW i \in 1 .. Len(s), ~Collides(Headers, hs[q[i]])
    PROVE  Overlappers(s, i) = {}
<1> SUFFICES ASSUME NEW a \in 1 .. Len(s), ~s[a].special, Overlap(s[a], s[i]) PROVE FALSE
  BY DEF Overlappers
<1> DEFINE r == hs[q[i]]
           h == hs[q[a]]
<1>1. r \in HeaderType /\ s[i].addr = r.addr /\ s[i].size = r.len
  BY ListedElement
<1>2. /\ h \in HeaderType /\ q[a] \in 1 .. Len(hs)
      /\ s[a].addr = h.addr /\ s[a].size = h.len /\ (s[a].special <=> Root(h))
  BY ListedElement
<1>3. h \in Headers /\ ~Root(h)
  BY <1>2
<1>4. ~Collides(Headers, r)
  OBVIOUS
<1> HIDE DEF r, h
<1>5. r.addr \in Nat /\ r.len \in Nat /\ h.addr \in Nat /\ h.len \in Nat
  BY <1>1, <1>2 DEF HeaderType
<1>6. Overlapping(h, r)
  BY <1>1, <1>2, <1>5 DEF Overlap, Overlapping
<1> QED
  BY <1>3, <1>4, <1>6 DEF Collides

(* The list of a complete file, when collisions have been removed.         *)
StartApart == \A r \in Roots, h \in Headers \ Roots : h.addr # r.addr

Holding(a, headers) ==
    /\ \A i \in 1 .. Len(a) : \E h \in headers : a[i] = Elt(h)
    /\ \A h \in headers : \E i \in 1 .. Len(a) : a[i] = Elt(h)

Complete(a) ==
    /\ NoCollision => Orderly(a) /\ Holding(a, Headers)
    /\ StartApart =>
          /\ Orderly(a)
          /\ \A h \in Headers \ Roots : \E i \in 1 .. Len(a) : a[i] = Elt(h)
          /\ \A i \in 1 .. Len(a) : ~a[i].special => \E h \in Headers \ Roots : a[i] = Elt(h)
          /\ \A r \in Whole \cap Roots : \E i \in 1 .. Len(a) : Covers(a[i], r.addr, Words(r))

LEMMA SentHeaders ==
    ASSUME sent \in Seq(HeaderType)
    PROVE  /\ Headers \subseteq HeaderType /\ IsFiniteSet(Headers)
           /\ \A h : h \in Headers <=> \E k \in 1 .. Len(sent) : sent[k] = h
<1>1. DOMAIN sent = 1 .. Len(sent) /\ Len(sent) \in Nat
  OBVIOUS
<1>2. Headers = {sent[k] : k \in 1 .. Len(sent)}
  BY <1>1 DEF Headers, ToSet
<1>3. IsFiniteSet(1 .. Len(sent))
  BY <1>1, FS_Interval
<1>4. sent \in Surjection(1 .. Len(sent), Headers)
  BY <1>1, <1>2 DEF Surjection
<1>5. IsFiniteSet(Headers)
  BY <1>3, <1>4, FS_Surjection
<1> QED
  BY <1>2, <1>5

LEMMA NothingOverlaps ==
    ASSUME NoCollision
    PROVE  StartApart /\ \A r \in Roots : ~Collides(Headers, r)
<1>1. ASSUME NEW r \in Roots, NEW h \in Headers \ Roots, Overlapping(h, r)
      PROVE  FALSE
  <2>1. r \in Headers /\ Root(r) /\ h \in Headers /\ ~Root(h)
    BY DEF Roots
  <2> QED
    BY <1>1, <2>1 DEF NoCollision
<1>2. StartApart
  BY <1>1 DEF StartApart, Overlapping
<1>3. \A r \in Roots : ~Collides(Headers, r)
  BY <1>1 DEF Collides, Roots
<1> QED
  BY <1>2, <1>3

LEMMA ListComplete ==
    ASSUME snapshot \in Snapshots, sent \in Seq(HeaderType), SentInv,
           NEW s, NEW q, Lists(s, sent, q)
    PROVE  Complete(remove_collision(s).list_)
<1> DEFINE r == remove_collision(s).list_
           L == Len(sent)
<1>1. /\ s \in Seq(ListElement) /\ Len(s) = L
      /\ q \in [1 .. L -> 1 .. L]
      /\ \A i \in 1 .. L : s[i] = Elt(sent[q[i]])
      /\ \A k \in 1 .. L : \E i \in 1 .. L : q[i] = k
  BY DEF Lists
<1>2. \A h : h \in Headers <=> \E k \in 1 .. L : sent[k] = h
  BY SentHeaders
<1> HIDE DEF L
<1>3. \A i \in 1 .. L : sent[i] \in Headers
  BY <1>2
<1>4. \A i \in 1 .. L : sent[q[i]] \in Headers /\ (s[i].special <=> Root(sent[q[i]]))
  <2> SUFFICES ASSUME NEW i \in 1 .. L PROVE sent[q[i]] \in Headers /\ (s[i].special <=> Root(sent[q[i]]))
    OBVIOUS
  <2>1. q[i] \in 1 .. L
    BY <1>1
  <2>2. s[i].special <=> Root(sent[q[i]])
    BY <1>1, ListedElement
  <2> QED
    BY <1>3, <2>1, <2>2
<1>5. \A h \in Headers : \E i \in 1 .. L : h = sent[q[i]] /\ s[i] = Elt(h) /\ (s[i].special <=> Root(h))
  <2> SUFFICES ASSUME NEW h \in Headers
               PROVE  \E i \in 1 .. L : h = sent[q[i]] /\ s[i] = Elt(h) /\ (s[i].special <=> Root(h))
    OBVIOUS
  <2>1. PICK k \in 1 .. L : sent[k] = h
    BY <1>2
  <2>2. PICK i \in 1 .. L : q[i] = k
    BY <1>1
  <2> QED
    BY <1>1, <1>4, <2>1, <2>2
<1>6. Genuine(s)
  BY ListGenuine DEF SentInv, L
<1>7. ASSUME StartApart PROVE Orderly(s)
  <2>1. \A i, j \in 1 .. L : Root(sent[i]) /\ ~Root(sent[j]) => sent[i].addr # sent[j].addr
    BY <1>3, <1>7 DEF StartApart, Roots
  <2> QED
    BY <2>1, ListOrderly DEF SentInv, L
<1>8. ASSUME NoCollision PROVE Orderly(r) /\ Holding(r, Headers)
  <2>1. Orderly(s) /\ \A h \in Roots : ~Collides(Headers, h)
    BY <1>7, <1>8, NothingOverlaps
  <2>2. \A i \in 1 .. Len(s) : s[i].special => Overlappers(s, i) = {}
    <3> SUFFICES ASSUME NEW i \in 1 .. Len(s), s[i].special PROVE Overlappers(s, i) = {}
      OBVIOUS
    <3>1. ~Collides(Headers, sent[q[i]])
      BY <1>1, <1>4, <2>1 DEF Roots
    <3> QED
      BY <1>3, <3>1, ListUncovered DEF L
  <2>3. r = s
    BY <1>1, <2>2, CollisionsRemoved
  <2>4. Holding(s, Headers)
    BY <1>1, <1>4, <1>5 DEF Holding
  <2> QED
    BY <2>1, <2>3, <2>4
<1>9. ASSUME StartApart
      PROVE  /\ Orderly(r)
             /\ \A h \in Headers \ Roots : \E i \in 1 .. Len(r) : r[i] = Elt(h)
             /\ \A i \in 1 .. Len(r) : ~r[i].special => \E h \in Headers \ Roots : r[i] = Elt(h)
             /\ \A h \in Whole \cap Roots : \E i \in 1 .. Len(r) : Covers(r[i], h.addr, Words(h))
  <2>1. Cleaned(r, s)
    BY <1>1, <1>6, <1>7, <1>9, CollisionsCleaned
  <2> HIDE DEF r
  <2>2. /\ Orderly(r)
        /\ \A k \in 1 .. Len(s) : ~s[k].special => \E x \in 1 .. Len(r) : r[x] = s[k]
        /\ \A x \in 1 .. Len(r) : ~r[x].special => \E k \in 1 .. Len(s) : r[x] = s[k]
        /\ \A i \in 1 .. Len(s) : s[i].special /\ Overlappers(s, i) = {} =>
              \E x \in 1 .. Len(r) : Covers(r[x], s[i].addr, ToSet(s[i].userContent))
    BY <2>1, Zenon DEF Cleaned
  <2>3. ASSUME NEW h \in Headers \ Roots PROVE \E i \in 1 .. Len(r) : r[i] = Elt(h)
    <3>1. ~Root(h)
      BY <2>3 DEF Roots
    <3> QED
      BY <1>1, <1>5, <2>2, <3>1
  <2>4. ASSUME NEW i \in 1 .. Len(r), ~r[i].special
        PROVE  \E h \in Headers \ Roots : r[i] = Elt(h)
    <3>1. PICK k \in 1 .. Len(s) : r[i] = s[k]
      BY <2>2, <2>4
    <3>2. ~s[k].special
      BY <2>4, <3>1
    <3>3. sent[q[k]] \in Headers /\ ~Root(sent[q[k]]) /\ s[k] = Elt(sent[q[k]])
      BY <1>1, <1>4, <3>2
    <3> QED
      BY <3>1, <3>3 DEF Roots
  <2>5. ASSUME NEW h \in Whole \cap Roots
        PROVE  \E i \in 1 .. Len(r) : Covers(r[i], h.addr, Words(h))
    <3>1. h \in Headers /\ Root(h) /\ ~Collides(Headers, h)
      BY DEF Whole, Roots
    <3>2. PICK i \in 1 .. L : h = sent[q[i]] /\ s[i] = Elt(h) /\ s[i].special
      BY <1>5, <3>1
    <3>3. Overlappers(s, i) = {}
      BY <1>1, <1>3, <3>1, <3>2, ListUncovered DEF L
    <3>4. h \in HeaderType
      BY <3>1, SentHeaders
    <3>5. s[i].addr = h.addr /\ ToSet(s[i].userContent) = Words(h)
      BY <3>2, <3>4, EltType
    <3>6. \E x \in 1 .. Len(r) : Covers(r[x], s[i].addr, ToSet(s[i].userContent))
      BY <1>1, <2>2, <3>2, <3>3
    <3> QED
      BY <3>5, <3>6
  <2> QED
    BY <2>2, <2>3, <2>4, <2>5
<1> QED
  BY <1>8, <1>9 DEF Complete, r

(* What the reader makes of the stream when its writer has gone.           *)
LEMMA Reads ==
    ASSUME SenderInv, FrameInv, pc \in {"end", "killed"}
    PROVE  \/ ParseError \in ToSet(parse(stream))
           \/ /\ {ParseError, Misread} \cap ToSet(parse(stream)) = {}
              /\ \E n \in 0 .. Len(sent) :
                    /\ [i \in DOMAIN parse(stream) |-> HeapElement(parse(stream)[i])]
                          = [i \in 1 .. n |-> Elt(sent[i])]
                    /\ client => n = Len(sent)
<1> DEFINE made == [k \in DOMAIN sent |-> Made(sent[k])]
           L == Len(sent)
           records == parse(stream)
           T == Seq(Tokens) \cup {ParseError}
<1>1. sent \in Seq(HeaderType) /\ stream \in Seq(Tokens) /\ L \in Nat /\ DOMAIN sent = 1 .. L
  BY DEF SenderInv
<1>2. /\ \E n \in 0 .. L : records = SubSeq(made, 1, n) \/ records = Append(SubSeq(made, 1, n), ParseError)
      /\ client => records = made
  <2>1. Framed /\ (client => pc = "end")
    BY FramedInv DEF SenderInv
  <2> QED
    BY <2>1 DEF Framed
<1> HIDE DEF records
<1>3. \A k \in 1 .. L : Made(sent[k]) \in Seq(Tokens) /\ Made(sent[k]) # <<>>
  <2> SUFFICES ASSUME NEW k \in 1 .. L PROVE Made(sent[k]) \in Seq(Tokens) /\ Made(sent[k]) # <<>>
    OBVIOUS
  <2>1. sent[k] \in HeaderType
    BY <1>1
  <2>2. Made(sent[k]) \in Seq(Tokens) /\ Len(Made(sent[k])) \in Nat \ {0}
    BY <2>1, HeaderTokens
  <2> QED
    BY <2>2
<1>4. made \in Seq(T) /\ Len(made) = L /\ \A k \in 1 .. L : made[k] = Made(sent[k])
  <2> HIDE DEF L
  <2>1. made \in [1 .. L -> T]
    BY <1>1, <1>3
  <2> QED
    BY <1>1, <2>1
<1> HIDE DEF made
<1>5. ASSUME NEW n \in 0 .. L, records = Append(SubSeq(made, 1, n), ParseError)
      PROVE  ParseError \in ToSet(records)
  <2>1. SubSeq(made, 1, n) \in Seq(T) /\ ParseError \in T
    BY <1>1, <1>4
  <2> HIDE DEF T
  <2>2. Len(records) \in DOMAIN records /\ records[Len(records)] = ParseError
    BY <1>5, <2>1
  <2> QED
    BY <2>2 DEF ToSet
<1>6. ASSUME NEW n \in 0 .. L, records = SubSeq(made, 1, n), ParseError \notin ToSet(records)
      PROVE  /\ {ParseError, Misread} \cap ToSet(records) = {}
             /\ [i \in DOMAIN records |-> HeapElement(records[i])] = [i \in 1 .. n |-> Elt(sent[i])]
  <2>1. DOMAIN records = 1 .. n /\ \A i \in 1 .. n : i \in 1 .. L /\ records[i] = made[i]
    BY <1>1, <1>4, <1>6
  <2>2. Misread \notin ToSet(records)
    BY <1>3, <1>4, <2>1 DEF ToSet, Misread
  <2>3. \A i \in 1 .. n : HeapElement(records[i]) = Elt(sent[i])
    BY <1>4, <2>1 DEF Elt
  <2> HIDE DEF L
  <2>4. [i \in DOMAIN records |-> HeapElement(records[i])] = [i \in 1 .. n |-> Elt(sent[i])]
    BY <2>1, <2>3
  <2> QED
    BY <1>6, <2>2, <2>4
<1>7. made = SubSeq(made, 1, L)
  BY <1>4
<1> HIDE DEF L
<1>8. PICK n \in 0 .. L : /\ records = SubSeq(made, 1, n) \/ records = Append(SubSeq(made, 1, n), ParseError)
                          /\ client => n = L \/ ParseError \in ToSet(records)
  <2>1. CASE client
    BY <1>1, <1>2, <1>7, <2>1
  <2> QED
    BY <1>2, <2>1
<1> QED
  BY <1>5, <1>6, <1>8 DEF records, L

(* ReadFile ends with a list or gives up, on a file that is cut or because *)
(* of an allocation in a root.                                             *)
LEMMA ReadFileReads ==
    ASSUME SenderInv, FrameInv, SentInv, ReadFile
    PROVE  \/ /\ phase' = "raised" /\ UNCHANGED <<option, l, refCount>>
              /\ RootsShrink => ParseError \in ToSet(parse(stream))
           \/ /\ phase' = "read" /\ l' \in Seq(ListElement)
              /\ client => Complete(l')
              /\ option' \in {"zero", "mark_and_sweep"}
<1> DEFINE records == parse(stream)
           elements == [i \in DOMAIN records |-> HeapElement(records[i])]
           s == Sorted(elements)
           result == remove_collision(s)
<1>1. /\ pc \in {"end", "killed"}
      /\ IF {ParseError, Misread} \cap ToSet(records) # {}
         THEN phase' = "raised" /\ UNCHANGED <<option, l, refCount>>
         ELSE IF result.asserted
              THEN /\ phase' = "read" /\ l' = result.list_
                   /\ option' \in {"zero", "mark_and_sweep"}
              ELSE phase' = "raised" /\ UNCHANGED <<option, l, refCount>>
  BY Zenon DEF ReadFile
<1> HIDE DEF records, elements, result
<1>2. CASE ParseError \in ToSet(records)
  BY <1>1, <1>2 DEF records
<1>3. CASE ParseError \notin ToSet(records)
  <2>1. PICK n \in 0 .. Len(sent) : /\ {ParseError, Misread} \cap ToSet(records) = {}
                                    /\ elements = [i \in 1 .. n |-> Elt(sent[i])]
                                    /\ client => n = Len(sent)
    BY <1>1, <1>3, Reads DEF records, elements
  <2> DEFINE hs == SubSeq(sent, 1, n)
  <2>2. sent \in Seq(HeaderType) /\ snapshot \in Snapshots
    BY DEF SenderInv
  <2>3. hs \in Seq(HeaderType) /\ Len(hs) = n /\ \A i \in 1 .. n : hs[i] = sent[i] /\ i \in 1 .. Len(sent)
    BY <2>1, <2>2
  <2>4. n = Len(sent) => hs = sent
    BY <2>2
  <2> HIDE DEF hs
  <2>5. elements = [i \in 1 .. Len(hs) |-> Elt(hs[i])]
    BY <2>1, <2>3
  <2>6. PICK q : Lists(s, hs, q)
    BY <2>2, <2>3, <2>5, ListRead
  <2> HIDE DEF s
  <2>7. s \in Seq(ListElement)
    BY <2>6 DEF Lists
  <2>8. result.list_ \in Seq(ListElement) /\ (Shrinks(s) => result.asserted)
    BY <2>7, CollisionsRemoved DEF result
  <2>9. RootsShrink => result.asserted
    <3>1. \A i \in 1 .. Len(hs) : hs[i] \in Headers
      BY <2>2, <2>3, SentHeaders
    <3> QED
      BY <2>2, <2>3, <2>6, <2>8, <3>1, ListShrinks
  <2>10. client => Complete(result.list_)
    <3> SUFFICES ASSUME client PROVE Complete(result.list_)
      OBVIOUS
    <3>1. hs = sent
      BY <2>1, <2>4
    <3> QED
      BY <2>2, <2>6, <3>1, ListComplete DEF result
  <2>11. IF result.asserted
         THEN /\ phase' = "read" /\ l' = result.list_
              /\ option' \in {"zero", "mark_and_sweep"}
         ELSE phase' = "raised" /\ UNCHANGED <<option, l, refCount>>
    BY <1>1, <2>1
  <2> HIDE DEF result
  <2>12. CASE result.asserted
    BY <2>8, <2>10, <2>11, <2>12
  <2>13. CASE ~result.asserted
    BY <2>9, <2>11, <2>13
  <2> QED
    BY <2>12, <2>13
<1> QED
  BY <1>2, <1>3

-----------------------------------------------------------------------------
(* The pointers between the elements of a list.                            *)
TargetIn(a, x) == IF x < a[1].addr \/ x > Last(a).addr THEN NULL ELSE searchInListLoose(a, x)

RefsOf(a, i) ==
    Filtered([k \in DOMAIN a[i].userContent |-> TargetIn(a, a[i].userContent[k])], DOMAIN a)

LEMMA ReferencesAre == \A i : References(i) = RefsOf(l, i)
  BY DEF References, RefsOf, TargetIn

LEMMA FilteredSet ==
    ASSUME NEW T, NEW s \in Seq(T), NEW S
    PROVE  Filtered(s, S) \in Seq(S) /\ ToSet(Filtered(s, S)) = ToSet(s) \cap S
<1> DEFINE r == Filtered(s, S)
<1>1. PICK m : Picks(r, m, s, S, T, Len(s))
  BY FilteredIs
<1>2. /\ r \in Seq(T) /\ m \in [1 .. Len(r) -> 1 .. Len(s)]
      /\ \A j \in 1 .. Len(r) : r[j] = s[m[j]] /\ r[j] \in S
      /\ \A k \in 1 .. Len(s) : s[k] \in S => \E j \in 1 .. Len(r) : m[j] = k
  BY <1>1, Zenon DEF Picks
<1> HIDE DEF r
<1>3. DOMAIN r = 1 .. Len(r) /\ DOMAIN s = 1 .. Len(s) /\ Len(r) \in Nat
  BY <1>2
<1>4. r \in Seq(S)
  BY <1>2
<1>5. ToSet(r) = ToSet(s) \cap S
  <2>1. \A x : x \in ToSet(r) <=> \E j \in 1 .. Len(r) : r[j] = x
    BY <1>3 DEF ToSet
  <2>2. \A x : x \in ToSet(s) <=> \E j \in 1 .. Len(s) : s[j] = x
    BY <1>3 DEF ToSet
  <2>3. ASSUME NEW x \in ToSet(r) PROVE x \in ToSet(s) /\ x \in S
    BY <1>2, <2>1, <2>2
  <2>4. ASSUME NEW x \in ToSet(s), x \in S PROVE x \in ToSet(r)
    <3>1. PICK k \in 1 .. Len(s) : s[k] = x
      BY <2>2
    <3>2. PICK j \in 1 .. Len(r) : m[j] = k
      BY <1>2, <2>4, <3>1
    <3> QED
      BY <1>2, <2>1, <3>1, <3>2
  <2> QED
    BY <2>3, <2>4
<1> QED
  BY <1>4, <1>5 DEF r

LEMMA RefsType ==
    ASSUME NEW a \in Seq(ListElement), NEW i \in 1 .. Len(a)
    PROVE  /\ RefsOf(a, i) \in Seq(1 .. Len(a))
           /\ \A k : k \in ToSet(RefsOf(a, i)) <=>
                        /\ k \in 1 .. Len(a)
                        /\ \E x \in ToSet(a[i].userContent) : TargetIn(a, x) = k
<1> DEFINE u == a[i].userContent
           t == [k \in DOMAIN u |-> TargetIn(a, u[k])]
           T == {TargetIn(a, u[k]) : k \in DOMAIN u}
<1>1. u \in Seq(Nat)
  <2>1. a[i] \in ListElement
    OBVIOUS
  <2> QED
    BY <2>1 DEF ListElement
<1> HIDE DEF u
<1>2. DOMAIN u = 1 .. Len(u) /\ Len(u) \in Nat
  BY <1>1
<1>3. t \in Seq(T)
  <2>1. t \in [1 .. Len(u) -> T]
    BY <1>2
  <2> HIDE DEF T, t
  <2> QED
    BY <1>2, <2>1
<1>4. ToSet(t) = {TargetIn(a, x) : x \in ToSet(u)}
  BY DEF ToSet
<1> HIDE DEF T, t
<1>5. DOMAIN a = 1 .. Len(a)
  OBVIOUS
<1>6. Filtered(t, 1 .. Len(a)) \in Seq(1 .. Len(a)) /\ ToSet(Filtered(t, 1 .. Len(a))) = ToSet(t) \cap (1 .. Len(a))
  BY <1>3, FilteredSet
<1>7. RefsOf(a, i) = Filtered(t, 1 .. Len(a))
  BY <1>5 DEF RefsOf, t, u
<1> QED
  BY <1>4, <1>6, <1>7 DEF u

LEMMA TargetExact ==
    ASSUME NEW a \in Seq(ListElement), Orderly(a), NEW x \in Nat, NEW k \in 1 .. Len(a),
           ~a[k].special, a[k].addr = x
    PROVE  TargetIn(a, x) = k
<1>1. Ascending(a)
  BY DEF Orderly
<1>2. 1 \in 1 .. Len(a) /\ Len(a) \in 1 .. Len(a) /\ Last(a) = a[Len(a)] /\ 1 <= k /\ k <= Len(a)
  BY DEF Last
<1>3. \A i \in 1 .. Len(a) : a[i].addr \in Nat
  <2>1. \A i \in 1 .. Len(a) : a[i] \in ListElement
    OBVIOUS
  <2> QED
    BY <2>1 DEF ListElement
<1>4. \A i, j \in 1 .. Len(a) : i <= j => a[i].addr <= a[j].addr
  <2> SUFFICES ASSUME NEW i \in 1 .. Len(a), NEW j \in 1 .. Len(a), i <= j PROVE a[i].addr <= a[j].addr
    OBVIOUS
  <2>1. i < j \/ i = j
    OBVIOUS
  <2> QED
    BY <1>1, <1>3, <2>1 DEF Ascending
<1>5. a[1].addr <= x /\ x <= Last(a).addr
  BY <1>2, <1>4
<1>6. TargetIn(a, x) = searchInListLoose(a, x)
  BY <1>2, <1>3, <1>5 DEF TargetIn
<1> DEFINE f == searchInListLoose(a, x)
<1>7. f \in 0 .. Len(a) /\ f # 0 /\ a[f].addr = x
  BY <1>1, SearchIs
<1> HIDE DEF f
<1>8. f = k
  BY <1>7 DEF Orderly
<1> QED
  BY <1>6, <1>8 DEF f

(* What a word refers to in a set of headers, as in Refers.                *)
AimsAt(headers, x, b) ==
    /\ \E h \in headers : h.addr >= x
    /\ IF \E h \in headers : h.addr = x THEN b.addr = x
       ELSE b.addr < x /\ x <= b.addr + b.len

LEMMA RefersIs ==
    ASSUME NEW H, NEW a, NEW b
    PROVE  Refers(H, a, b) <=> \E x \in Words(a) : AimsAt(H, x, b)
  BY DEF Refers, AimsAt

Separate(headers) ==
    \A b, c \in headers : Overlapping(b, c) => b = c \/ (Root(b) /\ Root(c))

LEMMA TargetIs ==
    ASSUME snapshot \in Snapshots, NEW H, H \subseteq HeaderType, Separate(H),
           NEW a \in Seq(ListElement), Orderly(a), Holding(a, H), NEW x \in Nat,
           NEW k \in 1 .. Len(a), NEW b \in H, a[k] = Elt(b), ~Root(b)
    PROVE  TargetIn(a, x) = k <=> AimsAt(H, x, b)
<1> DEFINE N == Len(a)
           f == searchInListLoose(a, x)
<1>1. Ascending(a) /\ N \in Nat /\ 1 \in 1 .. N /\ N \in 1 .. N /\ Last(a) = a[N]
  BY DEF Orderly, Last
<1>2. \A i \in 1 .. N : a[i] \in ListElement
  OBVIOUS
<1>3. \A i \in 1 .. N : a[i].addr \in Nat /\ a[i].size \in Nat
  BY <1>2 DEF ListElement
<1>4. \A i, j \in 1 .. N : i <= j => a[i].addr <= a[j].addr
  <2> SUFFICES ASSUME NEW i \in 1 .. N, NEW j \in 1 .. N, i <= j PROVE a[i].addr <= a[j].addr
    OBVIOUS
  <2>1. i < j \/ i = j
    OBVIOUS
  <2> QED
    BY <1>1, <1>3, <2>1 DEF Ascending
<1>5. ASSUME NEW h \in H
      PROVE  /\ h.addr \in Nat /\ h.len \in Nat /\ Elt(h).addr = h.addr /\ Elt(h).size = h.len
             /\ (Elt(h).special <=> Root(h))
  <2>1. h \in HeaderType
    OBVIOUS
  <2> QED
    BY <2>1, EltType DEF HeaderType
<1>6. /\ \A i \in 1 .. N : \E h \in H : a[i].addr = h.addr /\ a[i] = Elt(h)
      /\ \A h \in H : \E i \in 1 .. N : a[i].addr = h.addr
  <2>1. /\ \A i \in 1 .. N : \E h \in H : a[i] = Elt(h)
        /\ \A h \in H : \E i \in 1 .. N : a[i] = Elt(h)
    BY DEF Holding
  <2> HIDE DEF N
  <2>2. ASSUME NEW i \in 1 .. N PROVE \E h \in H : a[i].addr = h.addr /\ a[i] = Elt(h)
    <3>1. PICK h \in H : a[i] = Elt(h)
      BY <2>1
    <3>2. a[i].addr = h.addr
      BY <1>5, <3>1
    <3> QED
      BY <3>1, <3>2
  <2>3. ASSUME NEW h \in H PROVE \E i \in 1 .. N : a[i].addr = h.addr
    <3>1. PICK i \in 1 .. N : a[i] = Elt(h)
      BY <2>1
    <3>2. a[i].addr = h.addr
      BY <1>5, <3>1
    <3> QED
      BY <3>2
  <2> QED
    BY <2>2, <2>3
<1>7. a[k].addr = b.addr /\ a[k].size = b.len /\ ~a[k].special
  BY <1>5
<1>8. /\ f \in 0 .. N
      /\ (\E j \in 1 .. N : a[j].addr = x) => f # 0 /\ a[f].addr = x
      /\ f # 0 => a[f].addr = x \/ Holds(a[f], x)
      /\ \A p \in 1 .. N : Before(a, x, p) => f = p
  BY <1>1, SearchIs
<1>9. k \in 1 .. N /\ k # 0
  OBVIOUS
<1> HIDE DEF N, f
<1>10. TargetIn(a, x) = IF x < a[1].addr \/ x > a[N].addr THEN 0 ELSE f
  BY <1>1 DEF TargetIn, f, NULL
<1>11. 1 <= k /\ k <= N /\ \A j \in 1 .. N : 1 <= j /\ j <= N
  BY <1>1, <1>9
<1>12. CASE x > a[N].addr
  <2>1. \A h \in H : h.addr < x
    <3> SUFFICES ASSUME NEW h \in H PROVE h.addr < x
      OBVIOUS
    <3>1. PICK i \in 1 .. N : a[i].addr = h.addr
      BY <1>6
    <3>2. a[i].addr <= a[N].addr
      BY <1>1, <1>4, <1>11
    <3> QED
      BY <1>1, <1>3, <1>12, <3>1, <3>2
  <2>2. ~\E h \in H : h.addr >= x
    BY <1>5, <2>1
  <2> QED
    BY <1>9, <1>10, <1>12, <2>2 DEF AimsAt
<1>13. CASE x < a[1].addr
  <2>1. \A h \in H : h.addr > x
    <3> SUFFICES ASSUME NEW h \in H PROVE h.addr > x
      OBVIOUS
    <3>1. PICK i \in 1 .. N : a[i].addr = h.addr
      BY <1>6
    <3>2. a[1].addr <= a[i].addr
      BY <1>1, <1>4, <1>11
    <3> QED
      BY <1>1, <1>3, <1>13, <3>1, <3>2
  <2>2. ~AimsAt(H, x, b)
    BY <1>5, <2>1 DEF AimsAt
  <2> QED
    BY <1>9, <1>10, <1>13, <2>2
<1>14. CASE ~(x < a[1].addr) /\ ~(x > a[N].addr)
  <2>1. TargetIn(a, x) = f
    BY <1>10, <1>14
  <2>2. \E h \in H : h.addr >= x
    <3>1. a[N].addr >= x
      BY <1>1, <1>3, <1>14
    <3> QED
      BY <1>1, <1>6, <3>1
  <2>3. CASE \E h \in H : h.addr = x
    <3>1. f # 0 /\ a[f].addr = x /\ f \in 1 .. N
      <4>1. \E j \in 1 .. N : a[j].addr = x
        BY <1>6, <2>3
      <4> QED
        BY <1>1, <1>8, <4>1
    <3>2. AimsAt(H, x, b) <=> b.addr = x
      BY <2>2, <2>3 DEF AimsAt
    <3>3. b.addr = x => f = k
      BY <1>7, <1>9, <3>1 DEF Orderly, N
    <3> QED
      BY <1>7, <2>1, <3>1, <3>2, <3>3
  <2>4. CASE ~\E h \in H : h.addr = x
    <3>1. AimsAt(H, x, b) <=> b.addr < x /\ x <= b.addr + b.len
      BY <2>2, <2>4 DEF AimsAt
    <3>2. ASSUME f = k PROVE AimsAt(H, x, b)
      <4>1. a[k].addr # x
        BY <1>7, <2>4
      <4>2. Holds(a[k], x)
        BY <1>8, <1>9, <3>2, <4>1
      <4> QED
        BY <1>7, <3>1, <4>2 DEF Holds
    <3>3. ASSUME AimsAt(H, x, b) PROVE f = k
      <4>1. b.addr < x /\ x <= b.addr + b.len
        BY <3>1, <3>3
      <4>2. ASSUME NEW j \in 1 .. N, j > k PROVE a[j].addr > x
        <5>1. PICK c \in H : a[j].addr = c.addr /\ a[j] = Elt(c)
          BY <1>6
        <5>2. a[k].addr <= a[j].addr
          BY <1>4, <1>9, <1>11, <4>2
        <5>3. c.addr # x /\ c.addr \in Nat /\ c.len \in Nat /\ b.addr \in Nat /\ b.len \in Nat
          BY <1>5, <2>4
        <5>4. ASSUME c.addr < x PROVE FALSE
          <6>1. Overlapping(b, c)
            BY <1>7, <4>1, <5>1, <5>2, <5>3, <5>4 DEF Overlapping
          <6>2. b = c
            BY <6>1 DEF Separate
          <6>3. a[j].addr = a[k].addr
            BY <1>7, <5>1, <6>2
          <6>4. j = k
            BY <1>7, <1>9, <6>3 DEF Orderly, N
          <6> QED
            BY <1>1, <4>2, <6>4
        <5> QED
          BY <5>1, <5>3, <5>4
      <4>3. Before(a, x, k)
        BY <1>7, <4>1, <4>2 DEF Before, Holds, N
      <4> QED
        BY <1>8, <1>9, <4>3
    <3> QED
      BY <2>1, <3>2, <3>3
  <2> QED
    BY <2>3, <2>4
<1> QED
  BY <1>12, <1>13, <1>14

-----------------------------------------------------------------------------
(* Reached is the least set that has the headers one starts from and is    *)
(* closed under the relation.                                              *)
Grown(R, B) == B \cup {p[2] : p \in {p \in R : p[1] \in B}}

Closed(R, B) == \A p \in R : p[1] \in B => p[2] \in B

LEMMA GrownIs ==
    ASSUME NEW H, NEW R, R \subseteq H \X H, NEW B, B \subseteq H
    PROVE  /\ Grown(R, B) \subseteq H /\ B \subseteq Grown(R, B)
           /\ Closed(R, B) => Grown(R, B) = B
           /\ Grown(R, B) = B => Closed(R, B)
           /\ \A S : B \subseteq S /\ Closed(R, S) => Grown(R, B) \subseteq S
<1>1. \A p \in R : p[1] \in H /\ p[2] \in H
  OBVIOUS
<1> QED
  BY <1>1 DEF Grown, Closed

ReachesBy(f, H, from, R) ==
    /\ f \in [0 .. Cardinality(H) -> SUBSET H]
    /\ f[0] = from /\ Reached(H, from, R) = f[Cardinality(H)]
    /\ \A n \in 1 .. Cardinality(H) : f[n] = Grown(R, f[n - 1])

LEMMA ReachedSteps ==
    ASSUME NEW H, IsFiniteSet(H), NEW from, from \subseteq H, NEW R, R \subseteq H \X H
    PROVE  \E f : ReachesBy(f, H, from, R)
<1> DEFINE N == Cardinality(H)
           S == SUBSET H
           Is(g) == g = [n \in 0 .. N |->
                           IF n = 0 THEN from
                           ELSE g[n - 1] \cup {p[2] : p \in {p \in R : p[1] \in g[n - 1]}}]
           f == CHOOSE g : Is(g)
           step == [n \in 1 .. N |-> [B \in S |-> Grown(R, B)]]
<1>1. N \in Nat
  BY FS_CardinalityType
<1>2. Reached(H, from, R) = f[N]
  BY Zenon DEF Reached
<1>3. \A B \in S : Grown(R, B) \in S
  BY GrownIs
<1>4. step \in [1 .. N -> [S -> S]]
  BY <1>3
<1>5. \A n \in 1 .. N : \A B \in S : step[n][B] = Grown(R, B)
  OBVIOUS
<1>6. from \in S
  OBVIOUS
<1> HIDE DEF N, S, step
<1>7. PICK g \in [0 .. N -> S] : Recurs(g, N, from, step)
  BY <1>1, <1>4, <1>6, Recursion
<1>8. \A n \in 1 .. N : step[n][g[n - 1]] = Grown(R, g[n - 1])
  <2> TAKE n \in 1 .. N
  <2>1. n - 1 \in 0 .. N
    BY <1>1
  <2> QED
    BY <1>5, <1>7, <2>1
<1>9. Is(g)
  <2>1. g = [n \in 0 .. N |-> IF n = 0 THEN from ELSE step[n][g[n - 1]]]
    BY <1>7, Zenon DEF Recurs
  <2>2. \A n \in 0 .. N : n = 0 \/ n \in 1 .. N
    BY <1>1
  <2>3. g = [n \in 0 .. N |-> IF n = 0 THEN from ELSE Grown(R, g[n - 1])]
    BY <1>8, <2>1, <2>2
  <2> QED
    BY <2>3, Zenon DEF Grown
<1>10. Is(f)
  BY <1>9, Zenon
<1>11. f = [n \in 0 .. N |-> IF n = 0 THEN from ELSE Grown(R, f[n - 1])]
  BY <1>10, Zenon DEF Grown
<1> HIDE DEF f
<1>12. 0 \in 0 .. N /\ \A n \in 1 .. N : n \in 0 .. N /\ n # 0
  BY <1>1
<1>13. f[0] = from /\ \A n \in 1 .. N : f[n] = Grown(R, f[n - 1])
  BY <1>11, <1>12
<1>14. DOMAIN f = 0 .. N /\ f = [n \in DOMAIN f |-> f[n]]
  BY <1>11
<1> DEFINE Have == {n \in 0 .. N : f[n] \in S}
<1>15. 0 \in Have
  BY <1>6, <1>12, <1>13
<1>16. \A n \in 1 .. N : n - 1 \in Have => n \in Have
  BY <1>3, <1>12, <1>13
<1> HIDE DEF Have
<1>17. 0 .. N \subseteq Have
  BY <1>1, <1>15, <1>16, UpTo
<1>18. f \in [0 .. N -> S]
  BY <1>14, <1>17 DEF Have
<1>19. ReachesBy(f, H, from, R)
  BY <1>2, <1>13, <1>18 DEF N, S, ReachesBy
<1> QED
  BY <1>19

LEMMA ReachedIs ==
    ASSUME NEW H, IsFiniteSet(H), NEW from, from \subseteq H, NEW R, R \subseteq H \X H
    PROVE  /\ Reached(H, from, R) \subseteq H /\ from \subseteq Reached(H, from, R)
           /\ Closed(R, Reached(H, from, R))
           /\ \A S : from \subseteq S /\ Closed(R, S) => Reached(H, from, R) \subseteq S
<1> DEFINE N == Cardinality(H)
           r == Reached(H, from, R)
<1>1. N \in Nat
  BY FS_CardinalityType
<1>0. PICK f : ReachesBy(f, H, from, R)
  BY ReachedSteps
<1>2. /\ f \in [0 .. N -> SUBSET H] /\ f[0] = from /\ r = f[N]
      /\ \A n \in 1 .. N : f[n] = Grown(R, f[n - 1])
  BY <1>0 DEF ReachesBy
<1> HIDE DEF r
<1>3. \A n \in 0 .. N : f[n] \subseteq H /\ IsFiniteSet(f[n])
  BY <1>2, FS_Subset
<1>4. 0 \in 0 .. N /\ N \in 0 .. N /\ \A n \in 1 .. N : n \in 0 .. N /\ n - 1 \in 0 .. N
  BY <1>1
<1> HIDE DEF N
<1>5. from \subseteq r
  <2> DEFINE Have == {n \in 0 .. N : from \subseteq f[n]}
  <2>1. 0 \in Have
    BY <1>2, <1>4
  <2>2. \A n \in 1 .. N : n - 1 \in Have => n \in Have
    <3> SUFFICES ASSUME NEW n \in 1 .. N, from \subseteq f[n - 1] PROVE from \subseteq f[n]
      BY <1>4
    <3> QED
      BY <1>2, <1>3, <1>4, GrownIs
  <2> HIDE DEF Have
  <2>3. 0 .. N \subseteq Have
    BY <1>1, <2>1, <2>2, UpTo
  <2> QED
    BY <1>2, <1>4, <2>3 DEF Have
<1>6. ASSUME NEW S, from \subseteq S, Closed(R, S) PROVE r \subseteq S
  <2> DEFINE Have == {n \in 0 .. N : f[n] \subseteq S}
  <2>1. 0 \in Have
    BY <1>2, <1>4, <1>6
  <2>2. \A n \in 1 .. N : n - 1 \in Have => n \in Have
    <3> SUFFICES ASSUME NEW n \in 1 .. N, f[n - 1] \subseteq S PROVE f[n] \subseteq S
      BY <1>4
    <3> QED
      BY <1>2, <1>3, <1>4, <1>6, GrownIs
  <2> HIDE DEF Have
  <2>3. 0 .. N \subseteq Have
    BY <1>1, <2>1, <2>2, UpTo
  <2> QED
    BY <1>2, <1>4, <2>3 DEF Have
<1>7. Closed(R, r)
  <2> DEFINE Have == {n \in 0 .. N : Closed(R, f[n]) \/ Cardinality(f[n]) >= n}
  <2>1. 0 \in Have
    BY <1>3, <1>4, FS_CardinalityType
  <2>2. \A n \in 1 .. N : n - 1 \in Have => n \in Have
    <3> SUFFICES ASSUME NEW n \in 1 .. N, Closed(R, f[n - 1]) \/ Cardinality(f[n - 1]) >= n - 1
                 PROVE  Closed(R, f[n]) \/ Cardinality(f[n]) >= n
      BY <1>4
    <3> DEFINE B == f[n - 1]
               C == f[n]
    <3>1. B \subseteq H /\ IsFiniteSet(C) /\ C = Grown(R, B)
      BY <1>2, <1>3, <1>4
    <3>2. CASE Closed(R, B)
      BY <3>1, <3>2, GrownIs
    <3>3. CASE ~Closed(R, B)
      <4>1. B \subseteq C /\ B # C
        BY <3>1, <3>3, GrownIs
      <4>2. Cardinality(B) <= Cardinality(C) /\ Cardinality(C) # Cardinality(B)
        BY <3>1, <4>1, FS_Subset
      <4>3. Cardinality(B) \in Nat /\ Cardinality(C) \in Nat
        BY <3>1, <4>1, FS_Subset, FS_CardinalityType
      <4>4. Cardinality(B) >= n - 1
        BY <3>3
      <4> HIDE DEF B, C
      <4>5. Cardinality(C) >= n
        BY <4>2, <4>3, <4>4
      <4> QED
        BY <4>5 DEF C
    <3> QED
      BY <3>2, <3>3
  <2> HIDE DEF Have
  <2>3. 0 .. N \subseteq Have
    BY <1>1, <2>1, <2>2, UpTo
  <2>4. Closed(R, r) \/ Cardinality(r) >= N
    BY <1>2, <1>4, <2>3 DEF Have
  <2>5. ASSUME Cardinality(r) >= N PROVE Closed(R, r)
    <3>1. r \subseteq H
      BY <1>2, <1>4
    <3>2. Cardinality(r) <= N /\ (N = Cardinality(r) => H = r)
      BY <3>1, FS_Subset DEF N
    <3>3. Cardinality(r) \in Nat
      BY <3>1, FS_Subset, FS_CardinalityType
    <3>4. r = H
      BY <1>1, <2>5, <3>2, <3>3
    <3> QED
      BY <3>4 DEF Closed
  <2> QED
    BY <2>4, <2>5
<1>8. r \subseteq H
  BY <1>2, <1>4
<1> QED
  BY <1>5, <1>6, <1>7, <1>8 DEF r

-----------------------------------------------------------------------------
(* Without options: an element's count is 0 if nothing points to it.       *)
LEMMA CountIs ==
    ASSUME l \in Seq(ListElement), NEW i
    PROVE  /\ ReferenceCount(i) \in Nat
           /\ ReferenceCount(i) = 0 <=> \A j \in 1 .. Len(l) : i \notin ToSet(RefsOf(l, j))
<1> DEFINE N == Len(l)
           T(j) == {<<j, k>> : k \in {k \in DOMAIN RefsOf(l, j) : RefsOf(l, j)[k] = i}}
           F == {T(j) : j \in 1 .. N}
           f == [j \in 1 .. N |-> T(j)]
<1>1. N \in Nat /\ DOMAIN l = 1 .. N
  OBVIOUS
<1>2. ReferenceCount(i) = Cardinality(UNION F)
  <2>1. ReferenceCount(i) = Cardinality(UNION {T(j) : j \in DOMAIN l})
    BY DEF ReferenceCount, References, RefsOf, TargetIn
  <2> QED
    BY <1>1, <2>1
<1>3. ASSUME NEW j \in 1 .. N
      PROVE  /\ IsFiniteSet(T(j)) /\ (T(j) = {} <=> i \notin ToSet(RefsOf(l, j)))
  <2> DEFINE r == RefsOf(l, j)
  <2>1. r \in Seq(1 .. N)
    BY RefsType
  <2>2. DOMAIN r = 1 .. Len(r) /\ Len(r) \in Nat
    BY <2>1
  <2> HIDE DEF r
  <2>3. IsFiniteSet({j}) /\ IsFiniteSet(1 .. Len(r))
    <3>1. IsFiniteSet({j})
      BY FS_Singleton
    <3>2. IsFiniteSet(1 .. Len(r))
      BY <2>2, FS_Interval
    <3> QED
      BY <3>1, <3>2
  <2>4. IsFiniteSet({j} \X (1 .. Len(r)))
    BY <2>3, FS_Product
  <2>5. T(j) \subseteq {j} \X (1 .. Len(r))
    BY <2>2 DEF r
  <2>6. IsFiniteSet(T(j))
    BY <2>4, <2>5, FS_Subset
  <2>7. T(j) = {} <=> ~\E k \in DOMAIN r : r[k] = i
    BY DEF r
  <2>8. i \in ToSet(r) <=> \E k \in DOMAIN r : r[k] = i
    BY DEF ToSet
  <2> QED
    BY <2>6, <2>7, <2>8 DEF r
<1> HIDE DEF T, N
<1>4. IsFiniteSet(F)
  <2>1. f \in Surjection(1 .. N, F)
    BY DEF Surjection
  <2>2. IsFiniteSet(1 .. N)
    BY <1>1, FS_Interval
  <2> QED
    BY <2>1, <2>2, FS_Surjection
<1>5. IsFiniteSet(UNION F)
  BY <1>3, <1>4, FS_UNION
<1>6. UNION F = {} <=> \A j \in 1 .. N : T(j) = {}
  OBVIOUS
<1> HIDE DEF F
<1>7. Cardinality(UNION F) \in Nat /\ (Cardinality(UNION F) = 0 <=> UNION F = {})
  BY <1>5, FS_CardinalityType, FS_EmptySet
<1> QED
  BY <1>2, <1>3, <1>6, <1>7 DEF N

-----------------------------------------------------------------------------
(* Marking.                                                                *)
LEMMA InOrderIs ==
    ASSUME l \in Seq(ListElement), NEW S, S \subseteq 1 .. Len(l)
    PROVE  /\ InOrder(S) \in Seq(S) /\ ToSet(InOrder(S)) = S
           /\ \A i, j \in 1 .. Len(InOrder(S)) : i < j => InOrder(S)[i] < InOrder(S)[j]
<1> DEFINE s == [i \in DOMAIN l |-> i]
           N == Len(l)
           r == Filtered(s, S)
<1>1. N \in Nat /\ DOMAIN l = 1 .. N
  OBVIOUS
<1>2. s \in Seq(1 .. N) /\ Len(s) = N /\ \A i \in 1 .. N : s[i] = i
  <2> HIDE DEF N
  <2> QED
    BY <1>1
<1>3. InOrder(S) = r
  BY DEF InOrder
<1> HIDE DEF s, N
<1>4. r \in Seq(S) /\ ToSet(r) = ToSet(s) \cap S
  BY <1>2, FilteredSet
<1>5. ToSet(s) = 1 .. N
  <2>1. DOMAIN s = 1 .. N
    BY <1>1, <1>2
  <2> QED
    BY <1>2, <2>1 DEF ToSet
<1>6. PICK m : Picks(r, m, s, S, 1 .. N, Len(s))
  BY <1>2, FilteredIs
<1>7. /\ m \in [1 .. Len(r) -> 1 .. N]
      /\ \A j \in 1 .. Len(r) : r[j] = s[m[j]]
      /\ \A i, j \in 1 .. Len(r) : i < j => m[i] < m[j]
  BY <1>2, <1>6 DEF Picks
<1> HIDE DEF r
<1>8. \A j \in 1 .. Len(r) : r[j] = m[j]
  BY <1>2, <1>7
<1> QED
  BY <1>3, <1>4, <1>5, <1>7, <1>8 DEF N

MarkStates(N) == [refCount : [1 .. N -> {0, 1}], stack : Seq(1 .. N)]

Marks(state, called) ==
    LET after[n \in 0 .. Len(called)] ==
            IF n = 0 THEN state ELSE Marking(after[n - 1], called[n])
    IN  after[Len(called)]

LEMMA MarkingIs ==
    ASSUME NEW N \in Nat, NEW state \in MarkStates(N), NEW k \in 1 .. N
    PROVE  /\ Marking(state, k) \in MarkStates(N)
           /\ Marking(state, k).refCount = [state.refCount EXCEPT ![k] = 1]
           /\ state.refCount[k] = 1 => Marking(state, k).stack = state.stack
           /\ state.refCount[k] # 1 => Marking(state, k).stack = Append(state.stack, k)
<1> DEFINE c == state.refCount
           s == state.stack
<1>1. c \in [1 .. N -> {0, 1}] /\ s \in Seq(1 .. N) /\ state = [refCount |-> c, stack |-> s]
  BY DEF MarkStates
<1>2. Marking(state, k) = IF c[k] # 0 THEN state
                          ELSE [refCount |-> [c EXCEPT ![k] = 1], stack |-> Append(s, k)]
  BY DEF Marking
<1> HIDE DEF c, s
<1>3. c[k] \in {0, 1}
  BY <1>1
<1>4. CASE c[k] = 1
  <2>1. [c EXCEPT ![k] = 1] = c
    BY <1>1, <1>4
  <2> QED
    BY <1>2, <1>4, <2>1 DEF c, s
<1>5. CASE c[k] = 0
  <2>1. [c EXCEPT ![k] = 1] \in [1 .. N -> {0, 1}] /\ Append(s, k) \in Seq(1 .. N)
    BY <1>1
  <2>2. Marking(state, k) = [refCount |-> [c EXCEPT ![k] = 1], stack |-> Append(s, k)]
    BY <1>2, <1>5
  <2> QED
    BY <1>5, <2>1, <2>2 DEF MarkStates, c, s
<1> QED
  BY <1>3, <1>4, <1>5

LEMMA SetOfSeq ==
    ASSUME NEW T, NEW s \in Seq(T)
    PROVE  /\ ToSet(s) \subseteq T /\ DOMAIN s = 1 .. Len(s)
           /\ \A x : x \in ToSet(s) <=> \E i \in 1 .. Len(s) : s[i] = x
<1>1. DOMAIN s = 1 .. Len(s) /\ \A i \in 1 .. Len(s) : s[i] \in T
  OBVIOUS
<1>2. \A x : x \in ToSet(s) <=> \E i \in 1 .. Len(s) : s[i] = x
  BY <1>1, Zenon DEF ToSet
<1> QED
  BY <1>1, <1>2

LEMMA SetOfAppend ==
    ASSUME NEW T, NEW s \in Seq(T), NEW e \in T
    PROVE  Append(s, e) \in Seq(T) /\ ToSet(Append(s, e)) = ToSet(s) \cup {e}
<1> DEFINE r == Append(s, e)
           N == Len(s)
<1>1. /\ r \in Seq(T) /\ Len(r) = N + 1 /\ r[N + 1] = e /\ \A i \in 1 .. N : r[i] = s[i]
      /\ N \in Nat /\ DOMAIN s = 1 .. N /\ DOMAIN r = 1 .. N + 1
  OBVIOUS
<1> HIDE DEF r, N
<1>2. \A i : i \in 1 .. N + 1 <=> i \in 1 .. N \/ i = N + 1
  BY <1>1
<1>3. \A x : x \in ToSet(r) <=> \E i \in 1 .. N + 1 : r[i] = x
  BY <1>1 DEF ToSet
<1>4. \A x : x \in ToSet(s) <=> \E i \in 1 .. N : s[i] = x
  BY <1>1 DEF ToSet
<1>5. ToSet(r) = ToSet(s) \cup {e}
  BY <1>1, <1>2, <1>3, <1>4
<1> QED
  BY <1>1, <1>5 DEF r

LEMMA SetOfFront ==
    ASSUME NEW T, NEW s \in Seq(T), s # <<>>
    PROVE  /\ Front(s) \in Seq(T) /\ Last(s) \in T /\ Len(Front(s)) = Len(s) - 1
           /\ ToSet(s) = ToSet(Front(s)) \cup {Last(s)}
<1> DEFINE L == Len(s)
           f == SubSeq(s, 1, L - 1)
           e == s[L]
<1>1. L \in Nat /\ L # 0 /\ e \in T
  OBVIOUS
<1>2. f \in Seq(T)
  <2>1. L - 1 \in 0 .. L
    BY <1>1
  <2> QED
    BY <2>1, CutInTwo
<1>3. s = Append(f, e) /\ Len(f) = L - 1
  <2>1. L \in 1 .. L
    BY <1>1
  <2>2. SubSeq(s, 1, L) = Append(f, e)
    BY <2>1, PrefixGrows
  <2>3. SubSeq(s, 1, L) = s
    OBVIOUS
  <2> HIDE DEF f, e
  <2>4. Len(Append(f, e)) = Len(f) + 1 /\ Len(f) \in Nat
    BY <1>1, <1>2
  <2>5. s = Append(f, e)
    BY <2>2, <2>3
  <2>6. Len(s) = Len(f) + 1
    BY <2>4, <2>5, Zenon
  <2> QED
    BY <1>1, <2>4, <2>5, <2>6
<1>4. Front(s) = f /\ Last(s) = e
  BY DEF Front, Last
<1> HIDE DEF f, e
<1>5. ToSet(s) = ToSet(f) \cup {e}
  BY <1>1, <1>2, <1>3, SetOfAppend
<1> QED
  BY <1>1, <1>2, <1>3, <1>4, <1>5 DEF L

(* What n of the calls have marked and pushed.                             *)
MarkedTo(N, state, called, n, now) ==
    /\ now \in MarkStates(N)
    /\ \A k \in 1 .. N :
          now.refCount[k] = 1 <=> state.refCount[k] = 1 \/ \E m \in 1 .. n : called[m] = k
    /\ \A k \in 1 .. N :
          k \in ToSet(now.stack) <=>
             k \in ToSet(state.stack) \/ (state.refCount[k] = 0 /\ \E m \in 1 .. n : called[m] = k)

LEMMA MarkingMore ==
    ASSUME NEW N \in Nat, NEW state \in MarkStates(N), NEW called \in Seq(1 .. N),
           NEW n \in 1 .. Len(called), NEW now, MarkedTo(N, state, called, n - 1, now)
    PROVE  MarkedTo(N, state, called, n, Marking(now, called[n]))
<1> DEFINE e == called[n]
           next_ == Marking(now, e)
           Upto(m, k) == \E j \in 1 .. m : called[j] = k
<1>1. e \in 1 .. N /\ n \in Nat
  OBVIOUS
<1>2. /\ now \in MarkStates(N)
      /\ \A k \in 1 .. N : now.refCount[k] = 1 <=> state.refCount[k] = 1 \/ Upto(n - 1, k)
      /\ \A k \in 1 .. N : k \in ToSet(now.stack) <=>
                              k \in ToSet(state.stack) \/ (state.refCount[k] = 0 /\ Upto(n - 1, k))
  BY DEF MarkedTo
<1>3. \A k : Upto(n, k) <=> Upto(n - 1, k) \/ k = e
  <2>1. \A j : j \in 1 .. n <=> j \in 1 .. n - 1 \/ j = n
    BY <1>1
  <2> QED
    BY <2>1
<1> HIDE DEF Upto, e
<1>4. /\ next_ \in MarkStates(N)
      /\ next_.refCount = [now.refCount EXCEPT ![e] = 1]
      /\ now.refCount[e] = 1 => next_.stack = now.stack
      /\ now.refCount[e] # 1 => next_.stack = Append(now.stack, e)
  BY <1>1, <1>2, MarkingIs
<1> HIDE DEF next_
<1>5. /\ now.refCount \in [1 .. N -> {0, 1}] /\ state.refCount \in [1 .. N -> {0, 1}]
      /\ now.stack \in Seq(1 .. N)
  BY <1>2 DEF MarkStates
<1>6. \A k \in 1 .. N : next_.refCount[k] = 1 <=> now.refCount[k] = 1 \/ k = e
  BY <1>1, <1>4, <1>5
<1>7. \A k \in 1 .. N : k \in ToSet(next_.stack) <=>
                           k \in ToSet(now.stack) \/ (now.refCount[e] # 1 /\ k = e)
  <2>1. \A s \in Seq(1 .. N) : ToSet(Append(s, e)) = ToSet(s) \cup {e}
    BY <1>1, SetOfAppend
  <2> QED
    BY <1>4, <1>5, <2>1
<1>8. \A k \in 1 .. N : state.refCount[k] = 0 \/ state.refCount[k] = 1
  BY <1>5
<1>9. \A k \in 1 .. N : k \in ToSet(next_.stack) <=>
                           k \in ToSet(state.stack) \/ (state.refCount[k] = 0 /\ Upto(n, k))
  BY <1>1, <1>2, <1>3, <1>7, <1>8
<1>10. \A k \in 1 .. N : next_.refCount[k] = 1 <=> state.refCount[k] = 1 \/ Upto(n, k)
  BY <1>2, <1>3, <1>6
<1> QED
  BY <1>4, <1>9, <1>10 DEF MarkedTo, next_, Upto, e

LEMMA MarksIs ==
    ASSUME NEW N \in Nat, NEW state \in MarkStates(N), NEW called \in Seq(1 .. N)
    PROVE  MarkedTo(N, state, called, Len(called), Marks(state, called))
<1> DEFINE L == Len(called)
           S == MarkStates(N)
           Is(g) == g = [n \in 0 .. L |-> IF n = 0 THEN state ELSE Marking(g[n - 1], called[n])]
           f == CHOOSE g : Is(g)
           step == [n \in 1 .. L |-> [s \in S |-> Marking(s, called[n])]]
<1>1. L \in Nat
  OBVIOUS
<1>2. Marks(state, called) = f[L]
  BY DEF Marks
<1>3. \A n \in 1 .. L : \A s \in S : Marking(s, called[n]) \in S
  <2> SUFFICES ASSUME NEW n \in 1 .. L, NEW s \in S PROVE Marking(s, called[n]) \in S
    OBVIOUS
  <2>1. called[n] \in 1 .. N
    OBVIOUS
  <2> QED
    BY <2>1, MarkingIs
<1>4. step \in [1 .. L -> [S -> S]]
  BY <1>3
<1>5. \A n \in 1 .. L : \A s \in S : step[n][s] = Marking(s, called[n])
  OBVIOUS
<1> HIDE DEF L, S, step
<1>6. state \in S
  BY DEF S
<1>7. PICK g \in [0 .. L -> S] : Recurs(g, L, state, step)
  BY <1>1, <1>4, <1>6, Recursion
<1>8. \A n \in 1 .. L : step[n][g[n - 1]] = Marking(g[n - 1], called[n])
  <2> TAKE n \in 1 .. L
  <2>1. n - 1 \in 0 .. L
    BY <1>1
  <2> QED
    BY <1>5, <1>7, <2>1
<1>9. Is(g)
  <2>1. g = [n \in 0 .. L |-> IF n = 0 THEN state ELSE step[n][g[n - 1]]]
    BY <1>7, Zenon DEF Recurs
  <2>2. \A n \in 0 .. L : n = 0 \/ n \in 1 .. L
    BY <1>1
  <2> QED
    BY <1>8, <2>1, <2>2
<1>10. Is(f)
  BY <1>9, Zenon
<1> HIDE DEF f
<1>11. 0 \in 0 .. L /\ L \in 0 .. L /\ \A n \in 1 .. L : n \in 0 .. L /\ n # 0
  BY <1>1
<1>12. f[0] = state /\ \A n \in 1 .. L : f[n] = Marking(f[n - 1], called[n])
  BY <1>10, <1>11
<1> DEFINE Have == {n \in 0 .. L : MarkedTo(N, state, called, n, f[n])}
<1>13. 0 \in Have
  <2>1. state.refCount \in [1 .. N -> {0, 1}] /\ ~\E m \in 1 .. 0 : TRUE
    BY DEF MarkStates
  <2>2. MarkedTo(N, state, called, 0, state)
    BY <2>1 DEF MarkedTo
  <2> QED
    BY <1>11, <1>12, <2>2
<1>14. \A n \in 1 .. L : n - 1 \in Have => n \in Have
  <2> SUFFICES ASSUME NEW n \in 1 .. L, n - 1 \in Have PROVE n \in Have
    OBVIOUS
  <2>1. MarkedTo(N, state, called, n - 1, f[n - 1])
    OBVIOUS
  <2>2. MarkedTo(N, state, called, n, Marking(f[n - 1], called[n]))
    BY <2>1, MarkingMore DEF L
  <2> QED
    BY <1>11, <1>12, <2>2
<1> HIDE DEF Have
<1>15. 0 .. L \subseteq Have
  BY <1>1, <1>13, <1>14, UpTo
<1> QED
  BY <1>2, <1>11, <1>15 DEF Have, L

(* The marked elements are reached from the roots, and what they point to  *)
(* is marked as well but for those that are still on the stack.            *)
PointsInto(a, S) == \A i \in 1 .. Len(a) : i \in S => ToSet(RefsOf(a, i)) \subseteq S

MarkInv(a, rc, st) ==
    /\ rc \in [1 .. Len(a) -> {0, 1}] /\ st \in Seq(1 .. Len(a))
    /\ \A i \in 1 .. Len(a) : a[i].special => rc[i] = 1
    /\ \A k \in ToSet(st) : rc[k] = 1
    /\ \A i \in 1 .. Len(a) : rc[i] = 1 /\ i \notin ToSet(st) =>
          \A k \in ToSet(RefsOf(a, i)) : rc[k] = 1
    /\ \A S : PointsInto(a, S) /\ (\A i \in 1 .. Len(a) : a[i].special => i \in S) =>
          \A i \in 1 .. Len(a) : rc[i] = 1 => i \in S

LEMMA RootsMarked ==
    ASSUME l \in Seq(ListElement), MarkRoots
    PROVE  MarkInv(l, refCount', stack')
<1> DEFINE N == Len(l)
           rc == refCount'
           st == stack'
           R == {i \in 1 .. N : l[i].special}
<1>1. N \in Nat /\ DOMAIN l = 1 .. N
  OBVIOUS
<1>2. rc = [i \in 1 .. N |-> IF l[i].special THEN 1 ELSE 0] /\ st = InOrder(R)
  BY <1>1 DEF MarkRoots
<1>3. st \in Seq(R) /\ ToSet(st) = R
  BY <1>2, InOrderIs
<1>4. st \in Seq(1 .. N)
  BY <1>3
<1> HIDE DEF st, N
<1>5. rc \in [1 .. N -> {0, 1}] /\ \A i \in 1 .. N : rc[i] = 1 <=> l[i].special
  BY <1>2
<1> HIDE DEF rc
<1> QED
  BY <1>3, <1>4, <1>5 DEF MarkInv, N, rc, st

LEMMA MarkMarks ==
    ASSUME l \in Seq(ListElement), MarkInv(l, refCount, stack), Mark
    PROVE  MarkInv(l, refCount', stack')
<1> DEFINE N == Len(l)
           e == Last(stack)
           called == RefsOf(l, e)
           state == [refCount |-> refCount, stack |-> Front(stack)]
           now == Marks(state, called)
           rc == now.refCount
           st == now.stack
<1>1. N \in Nat
  OBVIOUS
<1>2. /\ refCount \in [1 .. N -> {0, 1}] /\ stack \in Seq(1 .. N)
      /\ \A i \in 1 .. N : l[i].special => refCount[i] = 1
      /\ \A k \in ToSet(stack) : refCount[k] = 1
      /\ \A i \in 1 .. N : refCount[i] = 1 /\ i \notin ToSet(stack) =>
            \A k \in ToSet(RefsOf(l, i)) : refCount[k] = 1
      /\ \A S : PointsInto(l, S) /\ (\A i \in 1 .. N : l[i].special => i \in S) =>
            \A i \in 1 .. N : refCount[i] = 1 => i \in S
  BY DEF MarkInv
<1>3. stack # <<>> /\ refCount' = rc /\ stack' = st
  <2>1. References(e) = called
    BY ReferencesAre
  <2>2. /\ stack # <<>>
        /\ LET after[n \in 0 .. Len(References(Last(stack)))] ==
               IF n = 0 THEN [refCount |-> refCount, stack |-> Front(stack)]
               ELSE Marking(after[n - 1], References(Last(stack))[n])
           IN  /\ refCount' = after[Len(References(Last(stack)))].refCount
               /\ stack' = after[Len(References(Last(stack)))].stack
    BY Zenon DEF Mark
  <2> HIDE DEF called
  <2> QED
    BY <2>1, <2>2, Zenon DEF Marks
<1> HIDE DEF N
<1>4. /\ Front(stack) \in Seq(1 .. N) /\ e \in 1 .. N
      /\ ToSet(stack) = ToSet(Front(stack)) \cup {e}
  BY <1>2, <1>3, SetOfFront
<1> HIDE DEF e
<1>5. called \in Seq(1 .. N)
  BY <1>4, RefsType DEF N
<1>6. state \in MarkStates(N)
  BY <1>2, <1>4 DEF MarkStates
<1>7. MarkedTo(N, state, called, Len(called), now)
  BY <1>1, <1>5, <1>6, MarksIs
<1> HIDE DEF called, now
<1>8. /\ now \in MarkStates(N)
      /\ \A k \in 1 .. N : rc[k] = 1 <=> refCount[k] = 1 \/ \E m \in 1 .. Len(called) : called[m] = k
      /\ \A k \in 1 .. N : k \in ToSet(st) <=>
            \/ k \in ToSet(Front(stack))
            \/ refCount[k] = 0 /\ \E m \in 1 .. Len(called) : called[m] = k
  BY <1>7 DEF MarkedTo
<1>9. \A k : k \in ToSet(called) <=> k \in 1 .. N /\ \E m \in 1 .. Len(called) : called[m] = k
  <2>1. /\ ToSet(called) \subseteq 1 .. N
        /\ \A k : k \in ToSet(called) <=> \E m \in 1 .. Len(called) : called[m] = k
    BY <1>5, SetOfSeq
  <2> QED
    BY <2>1
<1>10. /\ \A k \in 1 .. N : rc[k] = 1 <=> refCount[k] = 1 \/ k \in ToSet(called)
       /\ \A k \in 1 .. N : k \in ToSet(st) <=>
             k \in ToSet(Front(stack)) \/ (refCount[k] = 0 /\ k \in ToSet(called))
  BY <1>8, <1>9
<1>11. rc \in [1 .. N -> {0, 1}] /\ st \in Seq(1 .. N)
  BY <1>8 DEF MarkStates
<1> HIDE DEF rc, st
<1>12. \A k \in ToSet(st) : k \in 1 .. N
  <2>1. ToSet(st) \subseteq 1 .. N
    BY <1>11, SetOfSeq
  <2> QED
    BY <2>1
<1>13. \A k \in ToSet(st) : rc[k] = 1
  BY <1>2, <1>4, <1>10, <1>12
<1>14. ASSUME NEW i \in 1 .. N, rc[i] = 1, i \notin ToSet(st), NEW k \in ToSet(RefsOf(l, i))
       PROVE  rc[k] = 1
  <2>1. k \in 1 .. N
    BY RefsType DEF N
  <2>2. CASE i = e
    BY <1>10, <1>14, <2>1, <2>2 DEF called
  <2>3. CASE i # e
    <3>1. refCount[i] = 1
      BY <1>2, <1>10, <1>14
    <3>2. i \notin ToSet(stack)
      BY <1>4, <1>10, <1>14, <2>3
    <3> QED
      BY <1>2, <1>10, <1>14, <2>1, <3>1, <3>2
  <2> QED
    BY <2>2, <2>3
<1>15. ASSUME NEW S, PointsInto(l, S), \A i \in 1 .. N : l[i].special => i \in S,
              NEW i \in 1 .. N, rc[i] = 1
       PROVE  i \in S
  <2>1. \A k \in 1 .. N : refCount[k] = 1 => k \in S
    BY <1>2, <1>15
  <2>2. e \in S
    BY <1>2, <1>4, <2>1
  <2>3. ToSet(called) \subseteq S
    BY <1>4, <1>15, <2>2 DEF PointsInto, called, N
  <2> QED
    BY <1>10, <1>15, <2>1, <2>3
<1>16. \A i \in 1 .. N : l[i].special => rc[i] = 1
  BY <1>2, <1>10
<1> QED
  BY <1>3, <1>11, <1>13, <1>14, <1>15, <1>16 DEF MarkInv, N

-----------------------------------------------------------------------------
(* What is marked, in terms of headers.                                    *)
LEMMA PointsTo ==
    ASSUME snapshot \in Snapshots, NEW H, H \subseteq HeaderType, Separate(H),
           NEW a \in Seq(ListElement), Orderly(a), Holding(a, H),
           NEW i \in 1 .. Len(a), NEW k \in 1 .. Len(a), NEW b \in H, NEW c \in H,
           a[i] = Elt(b), a[k] = Elt(c), ~Root(c)
    PROVE  k \in ToSet(RefsOf(a, i)) <=> Refers(H, b, c)
<1>1. b \in HeaderType
  OBVIOUS
<1>2. ToSet(a[i].userContent) = Words(b) /\ a[i] \in ListElement
  BY <1>1, EltType
<1>3. Words(b) \subseteq Nat
  <2>1. a[i].userContent \in Seq(Nat)
    BY <1>2 DEF ListElement
  <2> QED
    BY <1>2, <2>1, SetOfSeq
<1>4. k \in ToSet(RefsOf(a, i)) <=> \E x \in Words(b) : TargetIn(a, x) = k
  BY <1>2, RefsType
<1>5. \A x \in Words(b) : TargetIn(a, x) = k <=> AimsAt(H, x, c)
  BY <1>3, TargetIs
<1>6. Refers(H, b, c) <=> \E x \in Words(b) : AimsAt(H, x, c)
  BY RefersIs
<1> QED
  BY <1>4, <1>5, <1>6

LEMMA SameElement ==
    ASSUME snapshot \in Snapshots, NEW H, H \subseteq HeaderType, Separate(H),
           NEW b \in H, NEW c \in H, Elt(b) = Elt(c), ~Root(b)
    PROVE  b = c
<1>1. b \in HeaderType /\ c \in HeaderType
  OBVIOUS
<1>2. b.addr = c.addr
  BY <1>1, EltType
<1>3. Overlapping(b, c)
  BY <1>2 DEF Overlapping
<1> QED
  BY <1>3 DEF Separate

LEMMA MarkedIsReached ==
    ASSUME snapshot \in Snapshots, sent \in Seq(HeaderType), NoCollision,
           NEW a \in Seq(ListElement), Complete(a), NEW rc, MarkInv(a, rc, <<>>),
           NEW h \in Headers, ~Root(h), NEW i \in 1 .. Len(a), a[i] = Elt(h)
    PROVE  rc[i] = 1 <=> h \in Reached(Headers, Roots, Pointers(Headers))
<1> DEFINE H == Headers
           R == Pointers(H)
           r == Reached(H, Roots, R)
<1>1. H \subseteq HeaderType /\ IsFiniteSet(H)
  BY SentHeaders
<1>2. Separate(H)
  BY Zenon DEF NoCollision, Separate
<1>3. Orderly(a) /\ Holding(a, H)
  BY DEF Complete
<1>4. /\ \A k \in 1 .. Len(a) : \E b \in H : a[k] = Elt(b)
      /\ \A b \in H : \E k \in 1 .. Len(a) : a[k] = Elt(b)
  BY <1>3 DEF Holding
<1>5. Roots \subseteq H /\ R \subseteq H \X H
  BY DEF Roots, Pointers
<1>6. \A b, c \in H : <<b, c>> \in R <=> Refers(H, b, c)
  BY DEF Pointers
<1>7. \A p \in R : p = <<p[1], p[2]>> /\ p[1] \in H /\ p[2] \in H
  BY <1>5
<1>8. /\ r \subseteq H /\ Roots \subseteq r /\ Closed(R, r)
      /\ \A S : Roots \subseteq S /\ Closed(R, S) => r \subseteq S
  BY <1>1, <1>5, ReachedIs
<1>9. \A b \in H : b \in Roots <=> Root(b)
  BY DEF Roots
<1>10. \A b \in H : \A k \in 1 .. Len(a) : a[k] = Elt(b) => (a[k].special <=> Root(b))
  <2> SUFFICES ASSUME NEW b \in H, NEW k \in 1 .. Len(a), a[k] = Elt(b)
               PROVE  a[k].special <=> Root(b)
    OBVIOUS
  <2>1. b \in HeaderType
    BY <1>1
  <2> QED
    BY <2>1, EltType
<1>11. /\ \A k \in 1 .. Len(a) : a[k].special => rc[k] = 1
       /\ \A k \in 1 .. Len(a) : rc[k] = 1 => \A m \in ToSet(RefsOf(a, k)) : rc[m] = 1
       /\ \A S : PointsInto(a, S) /\ (\A k \in 1 .. Len(a) : a[k].special => k \in S) =>
             \A k \in 1 .. Len(a) : rc[k] = 1 => k \in S
  <2>1. ToSet(<<>>) = {}
    BY DEF ToSet
  <2> QED
    BY <2>1 DEF MarkInv
<1> HIDE DEF H, R, r
<1>12. \A k \in 1 .. Len(a) : \A m \in 1 .. Len(a) : \A b, c \in H :
          a[k] = Elt(b) /\ a[m] = Elt(c) /\ ~Root(c) =>
             (m \in ToSet(RefsOf(a, k)) <=> <<b, c>> \in R)
  BY <1>1, <1>2, <1>3, <1>6, PointsTo
<1>13. ASSUME h \in r PROVE rc[i] = 1
  <2> DEFINE S == {b \in H : Root(b) \/ \E k \in 1 .. Len(a) : a[k] = Elt(b) /\ rc[k] = 1}
  <2>1. Roots \subseteq S
    BY <1>5, <1>9
  <2>2. Closed(R, S)
    <3> SUFFICES ASSUME NEW p \in R, p[1] \in S PROVE p[2] \in S
      BY DEF Closed
    <3> DEFINE b == p[1]
               c == p[2]
    <3>1. b \in H /\ c \in H /\ <<b, c>> \in R
      BY <1>7
    <3>2. CASE Root(c)
      BY <3>1, <3>2
    <3>3. CASE ~Root(c)
      <4>1. PICK k \in 1 .. Len(a) : a[k] = Elt(b) /\ rc[k] = 1
        <5>1. CASE Root(b)
          BY <1>4, <1>10, <1>11, <3>1, <5>1
        <5>2. CASE ~Root(b)
          BY <5>2
        <5> QED
          BY <5>1, <5>2
      <4>2. PICK m \in 1 .. Len(a) : a[m] = Elt(c)
        BY <1>4, <3>1
      <4>3. m \in ToSet(RefsOf(a, k))
        BY <1>12, <3>1, <3>3, <4>1, <4>2
      <4>4. rc[m] = 1
        BY <1>11, <4>1, <4>3
      <4> QED
        BY <3>1, <4>2, <4>4
    <3> QED
      BY <3>2, <3>3
  <2>3. h \in S
    BY <1>8, <1>13, <2>1, <2>2
  <2>4. PICK k \in 1 .. Len(a) : a[k] = Elt(h) /\ rc[k] = 1
    BY <2>3
  <2>5. ~a[i].special /\ a[i].addr = a[k].addr
    BY <1>10, <2>4 DEF H
  <2>6. i = k
    BY <1>3, <2>5 DEF Orderly
  <2> QED
    BY <2>4, <2>6
<1>14. ASSUME rc[i] = 1 PROVE h \in r
  <2> DEFINE S == {k \in 1 .. Len(a) : a[k].special \/ \E b \in r : a[k] = Elt(b)}
  <2>1. PointsInto(a, S)
    <3> SUFFICES ASSUME NEW k \in 1 .. Len(a), k \in S, NEW m \in ToSet(RefsOf(a, k)) PROVE m \in S
      BY DEF PointsInto
    <3>1. m \in 1 .. Len(a)
      BY RefsType
    <3>2. PICK b \in r : a[k] = Elt(b)
      BY <1>4, <1>8, <1>9, <1>10
    <3>3. PICK c \in H : a[m] = Elt(c)
      BY <1>4, <3>1
    <3>4. CASE Root(c)
      BY <1>10, <3>1, <3>3, <3>4
    <3>5. CASE ~Root(c)
      <4>1. b \in H
        BY <1>8
      <4>2. <<b, c>> \in R
        BY <1>12, <3>1, <3>2, <3>3, <3>5, <4>1
      <4>3. c \in r
        BY <1>8, <4>2 DEF Closed
      <4> QED
        BY <3>1, <3>3, <4>3
    <3> QED
      BY <3>4, <3>5
  <2>2. i \in S
    BY <1>11, <1>14, <2>1
  <2>3. PICK b \in r : a[i] = Elt(b)
    BY <1>10, <2>2 DEF H
  <2>4. b \in H /\ h \in H
    BY <1>8 DEF H
  <2>5. h = b
    BY <1>1, <1>2, <2>3, <2>4, SameElement
  <2> QED
    BY <2>5
<1> QED
  BY <1>13, <1>14 DEF r, R, H

LEMMA MarkedFromWhole ==
    ASSUME snapshot \in Snapshots, sent \in Seq(HeaderType), StartApart,
           NEW a \in Seq(ListElement), Complete(a), NEW rc, MarkInv(a, rc, <<>>),
           NEW h \in Reached(Whole, Whole \cap Roots, Starts(Whole)), ~Root(h),
           NEW i \in 1 .. Len(a), a[i] = Elt(h)
    PROVE  rc[i] = 1
<1> DEFINE R == Starts(Whole)
           r == Reached(Whole, Whole \cap Roots, R)
           Seen(k, b) == /\ rc[k] = 1 /\ a[k].addr = b.addr /\ (a[k].special <=> Root(b))
                         /\ Words(b) \subseteq ToSet(a[k].userContent)
           B == {b \in Whole : \E k \in 1 .. Len(a) : Seen(k, b)}
<1>1. Headers \subseteq HeaderType /\ IsFiniteSet(Headers) /\ Whole \subseteq Headers
  BY SentHeaders DEF Whole
<1>2. /\ Orderly(a)
      /\ \A b \in Headers \ Roots : \E k \in 1 .. Len(a) : a[k] = Elt(b)
      /\ \A b \in Whole \cap Roots : \E k \in 1 .. Len(a) : Covers(a[k], b.addr, Words(b))
  BY DEF Complete
<1>3. IsFiniteSet(Whole) /\ Whole \cap Roots \subseteq Whole /\ R \subseteq Whole \X Whole
  BY <1>1, FS_Subset DEF Starts
<1>4. \A p \in R : p[1] \in Whole /\ p[2] \in Whole /\ p[2].addr \in Words(p[1])
  BY DEF Starts
<1>5. /\ r \subseteq Whole
      /\ \A S : Whole \cap Roots \subseteq S /\ Closed(R, S) => r \subseteq S
  BY <1>3, ReachedIs
<1>6. \A b \in Headers : b \in Roots <=> Root(b)
  BY DEF Roots
<1>7. /\ \A k \in 1 .. Len(a) : a[k].special => rc[k] = 1
      /\ \A k \in 1 .. Len(a) : rc[k] = 1 => \A m \in ToSet(RefsOf(a, k)) : rc[m] = 1
  <2>1. ToSet(<<>>) = {}
    BY DEF ToSet
  <2> QED
    BY <2>1 DEF MarkInv
<1> HIDE DEF R, r
<1>8. Whole \cap Roots \subseteq B
  <2> SUFFICES ASSUME NEW b \in Whole \cap Roots PROVE b \in B
    OBVIOUS
  <2>1. PICK k \in 1 .. Len(a) : Covers(a[k], b.addr, Words(b))
    BY <1>2
  <2>2. a[k].special /\ a[k].addr = b.addr /\ Words(b) \subseteq ToSet(a[k].userContent)
    BY <2>1 DEF Covers
  <2>3. Root(b)
    BY <1>1, <1>6
  <2>4. Seen(k, b)
    BY <1>7, <2>2, <2>3
  <2> QED
    BY <2>4
<1>9. Closed(R, B)
  <2> SUFFICES ASSUME NEW p \in R, p[1] \in B PROVE p[2] \in B
    BY DEF Closed
  <2> DEFINE b == p[1]
             c == p[2]
  <2>1. b \in Whole /\ c \in Whole /\ c \in Headers /\ c.addr \in Words(b)
    BY <1>1, <1>4
  <2>2. CASE Root(c)
    BY <1>6, <1>8, <2>1, <2>2
  <2>3. CASE ~Root(c)
    <3>1. PICK k \in 1 .. Len(a) : Seen(k, b)
      OBVIOUS
    <3>2. PICK m \in 1 .. Len(a) : a[m] = Elt(c)
      BY <1>2, <1>6, <2>1, <2>3
    <3>3. c \in HeaderType
      BY <1>1, <2>1
    <3>4. /\ c.addr \in Nat /\ a[m].addr = c.addr /\ ~a[m].special
          /\ ToSet(a[m].userContent) = Words(c)
      BY <2>3, <3>2, <3>3, EltType DEF HeaderType
    <3>5. TargetIn(a, c.addr) = m
      BY <1>2, <3>4, TargetExact
    <3>6. m \in ToSet(RefsOf(a, k))
      BY <2>1, <3>1, <3>5, RefsType
    <3>7. rc[m] = 1
      BY <1>7, <3>1, <3>6
    <3>8. Seen(m, c)
      BY <2>3, <3>4, <3>7
    <3> QED
      BY <2>1, <3>8
  <2> QED
    BY <2>2, <2>3
<1>10. h \in B
  BY <1>5, <1>8, <1>9 DEF r, R
<1>11. PICK k \in 1 .. Len(a) : Seen(k, h)
  BY <1>10
<1>12. h \in HeaderType
  BY <1>1, <1>10
<1>13. a[i].addr = h.addr /\ ~a[i].special
  BY <1>12, EltType
<1>14. i = k
  BY <1>2, <1>11, <1>13 DEF Orderly
<1> QED
  BY <1>11, <1>14

-----------------------------------------------------------------------------
(* What is not referenced, in terms of headers.                            *)
Matches(a, I, D) ==
    /\ \A i \in I : \E h \in D : a[i] = Elt(h)
    /\ \A h \in D : \E i \in I : a[i] = Elt(h)

LEMMA NotReferencedIs ==
    ASSUME snapshot \in Snapshots, sent \in Seq(HeaderType), l \in Seq(ListElement),
           Holding(l, Headers), NEW count, NEW X,
           \A h \in Headers : \A i \in 1 .. Len(l) :
              l[i] = Elt(h) /\ ~Root(h) => (count[i] = 0 <=> h \notin X)
    PROVE  Matches(l, NotReferenced(count), {h \in Headers : Allocation(h)} \ X)
<1> DEFINE D == {h \in Headers : Allocation(h)} \ X
           I == NotReferenced(count)
<1>1. DOMAIN l = 1 .. Len(l)
  OBVIOUS
<1>2. \A i : i \in I <=> /\ i \in 1 .. Len(l) /\ count[i] = 0
                         /\ ~l[i].special /\ "mmap" \notin l[i].dataAttrib
  BY <1>1 DEF NotReferenced
<1>3. /\ \A i \in 1 .. Len(l) : \E h \in Headers : l[i] = Elt(h)
      /\ \A h \in Headers : \E i \in 1 .. Len(l) : l[i] = Elt(h)
  BY DEF Holding
<1>4. \A h \in Headers : \A i \in 1 .. Len(l) : l[i] = Elt(h) =>
          (l[i].special <=> Root(h)) /\ l[i].dataAttrib = h.dataAttrib
  <2> SUFFICES ASSUME NEW h \in Headers, NEW i \in 1 .. Len(l), l[i] = Elt(h)
               PROVE  (l[i].special <=> Root(h)) /\ l[i].dataAttrib = h.dataAttrib
    OBVIOUS
  <2>1. h \in HeaderType
    BY SentHeaders
  <2> QED
    BY <2>1, EltType
<1> HIDE DEF I
<1>5. ASSUME NEW h \in Headers, NEW i \in 1 .. Len(l), l[i] = Elt(h)
      PROVE  i \in I <=> h \in D
  <2>1. CASE Root(h)
    BY <1>2, <1>4, <1>5, <2>1 DEF Allocation
  <2>2. CASE ~Root(h)
    BY <1>2, <1>4, <1>5, <2>2 DEF Allocation
  <2> QED
    BY <2>1, <2>2
<1>6. \A i \in I : i \in 1 .. Len(l)
  BY <1>2
<1>7. \A h \in D : h \in Headers
  OBVIOUS
<1> HIDE DEF D
<1>8. \A i \in I : \E h \in D : l[i] = Elt(h)
  BY <1>3, <1>5, <1>6
<1>9. \A h \in D : \E i \in I : l[i] = Elt(h)
  BY <1>3, <1>5, <1>7
<1> QED
  BY <1>8, <1>9 DEF Matches, I, D

LEMMA WrittenIs ==
    ASSUME snapshot \in Snapshots, NEW D, D \subseteq HeaderType, NEW I, Matches(l, I, D)
    PROVE  Written(I) = Addr(D)
<1>1. /\ \A i \in I : \E h \in D : l[i] = Elt(h)
      /\ \A h \in D : \E i \in I : l[i] = Elt(h)
  BY DEF Matches
<1>2. ASSUME NEW h \in D, NEW i, l[i] = Elt(h)
      PROVE  l[i].addr = h.addr /\ (l[i].backtraces <=> h.backtraces > 0)
  <2>1. h \in HeaderType
    OBVIOUS
  <2> QED
    BY <1>2, <2>1, EltType
<1>3. ASSUME NEW x \in Written(I) PROVE x \in Addr(D)
  <2>1. PICK i \in I : l[i].backtraces /\ x = l[i].addr
    BY DEF Written
  <2>2. PICK h \in D : l[i] = Elt(h)
    BY <1>1
  <2>3. h.backtraces > 0 /\ x = h.addr
    BY <1>2, <2>1, <2>2
  <2> QED
    BY <2>3 DEF Addr
<1>4. ASSUME NEW x \in Addr(D) PROVE x \in Written(I)
  <2>1. PICK h \in D : h.backtraces > 0 /\ x = h.addr
    BY DEF Addr
  <2>2. PICK i \in I : l[i] = Elt(h)
    BY <1>1
  <2>3. l[i].backtraces /\ x = l[i].addr
    BY <1>2, <2>1, <2>2
  <2> QED
    BY <2>3 DEF Written
<1> QED
  BY <1>3, <1>4

-----------------------------------------------------------------------------
(* Pass 1 of splitNotMarked.  Pointers connect elements, in whatever       *)
(* direction, when every set that pointers do not lead into or out of has  *)
(* both or none of them.                                                   *)
BothWays(a, S) == \A i \in 1 .. Len(a) : \A j \in ToSet(RefsOf(a, i)) : i \in S <=> j \in S

Connected(a, i, j) == \A S \in SUBSET (1 .. Len(a)) : BothWays(a, S) => (i \in S <=> j \in S)

LEMMA ConnectedIs ==
    ASSUME NEW a, NEW i, NEW j
    PROVE  /\ Connected(a, i, i)
           /\ Connected(a, i, j) => Connected(a, j, i)
           /\ \A k : Connected(a, i, j) /\ Connected(a, j, k) => Connected(a, i, k)
           /\ i \in 1 .. Len(a) /\ j \in ToSet(RefsOf(a, i)) => Connected(a, i, j)
  BY DEF Connected, BothWays

(* Two groups that share an alias set.                                     *)
Same(al, g, h) == g = h \/ (al[g] # NULL /\ al[g] = al[h])

AliasInv(al, se) ==
    /\ al \in Seq(Nat) /\ se \in Seq(SUBSET (1 .. Len(al)))
    /\ \A g \in 1 .. Len(al) : al[g] # NULL =>
          al[g] \in 1 .. Len(se) /\ se[al[g]] = {h \in 1 .. Len(al) : al[h] = al[g]}

(* The sets of two groups are united, and no other ones change.            *)
United(al, al_, m, o) ==
    /\ al_ \in Seq(Nat) /\ Len(al_) = Len(al)
    /\ \A g, h \in 1 .. Len(al) :
          Same(al_, g, h) <=> \/ Same(al, g, h)
                              \/ Same(al, g, m) /\ Same(al, h, o)
                              \/ Same(al, g, o) /\ Same(al, h, m)

LEMMA SeqExcept ==
    ASSUME NEW T, NEW s \in Seq(T), NEW i \in 1 .. Len(s), NEW v \in T
    PROVE  /\ [s EXCEPT ![i] = v] \in Seq(T) /\ Len([s EXCEPT ![i] = v]) = Len(s)
           /\ [s EXCEPT ![i] = v][i] = v
           /\ \A j \in 1 .. Len(s) : j # i => [s EXCEPT ![i] = v][j] = s[j]
  OBVIOUS

LEMMA UnitedTurned ==
    ASSUME NEW al, NEW al_, NEW m, NEW o, United(al, al_, m, o)
    PROVE  United(al, al_, o, m)
  BY DEF United

LEMMA Joins ==
    ASSUME NEW al, NEW se, AliasInv(al, se), NEW m \in 1 .. Len(al), NEW o \in 1 .. Len(al),
           al[m] = 0, al[o] # 0
    PROVE  /\ AliasInv([al EXCEPT ![m] = al[o]], [se EXCEPT ![al[o]] = @ \cup {m}])
           /\ United(al, [al EXCEPT ![m] = al[o]], m, o)
<1> DEFINE v == al[o]
           al_ == [al EXCEPT ![m] = v]
           se_ == [se EXCEPT ![v] = @ \cup {m}]
           G == Len(al)
           K == Len(se)
<1>1. /\ al \in Seq(Nat) /\ se \in Seq(SUBSET (1 .. G)) /\ G \in Nat /\ K \in Nat
      /\ \A g \in 1 .. G : al[g] # 0 => al[g] \in 1 .. K /\ se[al[g]] = {h \in 1 .. G : al[h] = al[g]}
      /\ v \in Nat /\ v # 0
  BY DEF AliasInv, NULL
<1>2. v \in 1 .. K /\ se[v] = {h \in 1 .. G : al[h] = v}
  BY <1>1
<1> HIDE DEF v
<1>3. /\ al_ \in Seq(Nat) /\ Len(al_) = G /\ al_[m] = v
      /\ \A g \in 1 .. G : g # m => al_[g] = al[g]
  BY <1>1, SeqExcept
<1>4. se[v] \cup {m} \in SUBSET (1 .. G)
  BY <1>2
<1>5. se_ = [se EXCEPT ![v] = se[v] \cup {m}]
  BY <1>1, <1>2
<1>6. /\ se_ \in Seq(SUBSET (1 .. G)) /\ Len(se_) = K /\ se_[v] = se[v] \cup {m}
      /\ \A j \in 1 .. K : j # v => se_[j] = se[j]
  BY <1>1, <1>2, <1>4, <1>5, SeqExcept
<1> HIDE DEF al_, se_, G, K
<1>7. ASSUME NEW g \in 1 .. G, al_[g] # 0
      PROVE  al_[g] \in 1 .. K /\ se_[al_[g]] = {h \in 1 .. G : al_[h] = al_[g]}
  <2>1. CASE al_[g] = v
    <3>1. \A h \in 1 .. G : al_[h] = v <=> al[h] = v \/ h = m
      BY <1>3
    <3>2. {h \in 1 .. G : al_[h] = v} = {h \in 1 .. G : al[h] = v} \cup {m}
      BY <3>1 DEF G
    <3> QED
      BY <1>2, <1>6, <2>1, <3>2
  <2>2. CASE al_[g] # v
    <3>1. g # m /\ al_[g] = al[g]
      BY <1>3, <2>2
    <3>2. \A h \in 1 .. G : al_[h] = al_[g] <=> al[h] = al[g]
      BY <1>1, <1>3, <1>7, <2>2, <3>1
    <3>3. al[g] # 0 /\ al[g] # v
      BY <1>7, <2>2, <3>1
    <3>4. al[g] \in 1 .. K /\ se[al[g]] = {h \in 1 .. G : al[h] = al[g]}
      BY <1>1, <3>3
    <3>5. {h \in 1 .. G : al_[h] = al_[g]} = {h \in 1 .. G : al[h] = al[g]}
      BY <3>2
    <3>6. se_[al[g]] = se[al[g]]
      BY <1>6, <3>3, <3>4
    <3> QED
      BY <3>1, <3>4, <3>5, <3>6
  <2> QED
    BY <2>1, <2>2
<1>8. AliasInv(al_, se_)
  BY <1>3, <1>6, <1>7 DEF AliasInv, NULL
<1>9. ASSUME NEW g \in 1 .. G, NEW h \in 1 .. G
      PROVE  Same(al_, g, h) <=> \/ Same(al, g, h)
                                 \/ Same(al, g, m) /\ Same(al, h, o)
                                 \/ Same(al, g, o) /\ Same(al, h, m)
  <2>1. m \in 1 .. G /\ o \in 1 .. G /\ al[m] = 0 /\ al[o] = v /\ v # 0
    BY <1>1 DEF G, v
  <2>2. CASE g = m /\ h = m
    BY <2>2 DEF Same
  <2>3. CASE g = m /\ h # m
    BY <1>3, <2>1, <2>3 DEF Same, NULL
  <2>4. CASE g # m /\ h = m
    BY <1>3, <2>1, <2>4 DEF Same, NULL
  <2>5. CASE g # m /\ h # m
    BY <1>3, <2>1, <2>5 DEF Same, NULL
  <2> QED
    BY <2>2, <2>3, <2>4, <2>5
<1>10. United(al, al_, m, o)
  BY <1>3, <1>9 DEF United, G
<1> QED
  BY <1>8, <1>10 DEF al_, se_, v

LEMMA Shares ==
    ASSUME NEW al, NEW se, AliasInv(al, se), NEW m \in 1 .. Len(al), NEW o \in 1 .. Len(al),
           al[m] # 0, al[o] # 0, al[m] # al[o]
    PROVE  LET al_ == [g \in DOMAIN al |-> IF g \in se[al[m]] THEN al[o] ELSE al[g]]
               se_ == [se EXCEPT ![al[o]] = @ \cup se[al[m]]]
           IN  AliasInv(al_, se_) /\ United(al, al_, m, o)
<1> DEFINE al_ == [g \in DOMAIN al |-> IF g \in se[al[m]] THEN al[o] ELSE al[g]]
           se_ == [se EXCEPT ![al[o]] = @ \cup se[al[m]]]
           v == al[o]
           w == al[m]
           G == Len(al)
           K == Len(se)
<1>1. /\ al \in Seq(Nat) /\ se \in Seq(SUBSET (1 .. G)) /\ G \in Nat /\ K \in Nat
      /\ \A g \in 1 .. G : al[g] # 0 => al[g] \in 1 .. K /\ se[al[g]] = {h \in 1 .. G : al[h] = al[g]}
      /\ v \in Nat /\ v # 0 /\ w # 0 /\ w # v /\ DOMAIN al = 1 .. G
  BY DEF AliasInv, NULL
<1>2. /\ v \in 1 .. K /\ se[v] = {h \in 1 .. G : al[h] = v}
      /\ w \in 1 .. K /\ se[w] = {h \in 1 .. G : al[h] = w}
  BY <1>1
<1>3. al_ = [g \in 1 .. G |-> IF al[g] = w THEN v ELSE al[g]]
  BY <1>1, <1>2
<1>4. al_ \in Seq(Nat) /\ Len(al_) = G
  <2>1. \A g \in 1 .. G : al[g] \in Nat
    BY <1>1
  <2>2. v \in Nat /\ G \in Nat
    BY <1>1
  <2> HIDE DEF G, v, w
  <2>3. \A g \in 1 .. G : (IF al[g] = w THEN v ELSE al[g]) \in Nat
    BY <2>1, <2>2
  <2>4. al_ \in [1 .. G -> Nat] /\ DOMAIN al_ = 1 .. G
    BY <1>3, <2>3, Zenon
  <2> HIDE DEF al_
  <2> QED
    BY <2>2, <2>4
<1>5. \A g \in 1 .. G : al_[g] = IF al[g] = w THEN v ELSE al[g]
  BY <1>3
<1>6. se[v] \cup se[w] \in SUBSET (1 .. G)
  BY <1>2
<1>7. se_ = [se EXCEPT ![v] = se[v] \cup se[w]]
  BY <1>1, <1>2
<1> HIDE DEF v, w, al_, se_
<1>8. /\ se_ \in Seq(SUBSET (1 .. G)) /\ Len(se_) = K /\ se_[v] = se[v] \cup se[w]
      /\ \A j \in 1 .. K : j # v => se_[j] = se[j]
  BY <1>1, <1>2, <1>6, <1>7, SeqExcept
<1> HIDE DEF G, K
<1>9. ASSUME NEW g \in 1 .. G, al_[g] # 0
      PROVE  al_[g] \in 1 .. K /\ se_[al_[g]] = {h \in 1 .. G : al_[h] = al_[g]}
  <2>1. CASE al_[g] = v
    <3>1. \A h \in 1 .. G : al_[h] = v <=> al[h] = v \/ al[h] = w
      BY <1>1, <1>5
    <3>2. {h \in 1 .. G : al_[h] = v} = se[v] \cup se[w]
      BY <1>2, <3>1
    <3> QED
      BY <1>2, <1>8, <2>1, <3>2
  <2>2. CASE al_[g] # v
    <3>1. al_[g] = al[g] /\ al[g] # w /\ al[g] # 0 /\ al[g] # v
      BY <1>5, <1>9, <2>2
    <3>2. \A h \in 1 .. G : al_[h] = al[g] <=> al[h] = al[g]
      BY <1>5, <3>1
    <3>3. al[g] \in 1 .. K /\ se[al[g]] = {h \in 1 .. G : al[h] = al[g]}
      BY <1>1, <3>1
    <3>4. {h \in 1 .. G : al_[h] = al[g]} = {h \in 1 .. G : al[h] = al[g]}
      BY <3>2
    <3>5. se_[al[g]] = se[al[g]]
      BY <1>8, <3>1, <3>3
    <3> QED
      BY <3>1, <3>3, <3>4, <3>5
  <2> QED
    BY <2>1, <2>2
<1>10. AliasInv(al_, se_)
  BY <1>4, <1>8, <1>9 DEF AliasInv, NULL
<1>11. ASSUME NEW g \in 1 .. G, NEW h \in 1 .. G
      PROVE  Same(al_, g, h) <=> \/ Same(al, g, h)
                                 \/ Same(al, g, m) /\ Same(al, h, o)
                                 \/ Same(al, g, o) /\ Same(al, h, m)
  <2>1. al[m] = w /\ al[o] = v /\ v # 0 /\ w # 0 /\ w # v
    BY <1>1 DEF v, w
  <2>2. \A x \in 1 .. G : Same(al, x, m) <=> al[x] = w
    BY <2>1 DEF Same, NULL
  <2>3. \A x \in 1 .. G : Same(al, x, o) <=> al[x] = v
    BY <2>1 DEF Same, NULL
  <2>4. CASE al[g] = w
    BY <1>5, <2>1, <2>2, <2>3, <2>4 DEF Same, NULL
  <2>5. CASE al[g] # w /\ al[h] = w
    BY <1>5, <2>1, <2>2, <2>3, <2>5 DEF Same, NULL
  <2>6. CASE al[g] # w /\ al[h] # w
    BY <1>5, <2>1, <2>2, <2>3, <2>6 DEF Same, NULL
  <2> QED
    BY <2>4, <2>5, <2>6
<1>12. United(al, al_, m, o)
  BY <1>4, <1>11 DEF United, G
<1> QED
  BY <1>10, <1>12 DEF al_, se_

LEMMA Opens ==
    ASSUME NEW al, NEW se, AliasInv(al, se), NEW m \in 1 .. Len(al), NEW o \in 1 .. Len(al),
           al[m] = 0, al[o] = 0, m # o
    PROVE  LET se_ == Append(se, {m, o})
               al_ == [al EXCEPT ![m] = Len(se_), ![o] = Len(se_)]
           IN  AliasInv(al_, se_) /\ United(al, al_, m, o)
<1> DEFINE se_ == Append(se, {m, o})
           al_ == [al EXCEPT ![m] = Len(se_), ![o] = Len(se_)]
           v == Len(se_)
           G == Len(al)
           K == Len(se)
<1>1. /\ al \in Seq(Nat) /\ se \in Seq(SUBSET (1 .. G)) /\ G \in Nat /\ K \in Nat
      /\ \A g \in 1 .. G : al[g] # 0 => al[g] \in 1 .. K /\ se[al[g]] = {h \in 1 .. G : al[h] = al[g]}
      /\ DOMAIN al = 1 .. G
  BY DEF AliasInv, NULL
<1>2. {m, o} \in SUBSET (1 .. G)
  OBVIOUS
<1>3. /\ se_ \in Seq(SUBSET (1 .. G)) /\ v = K + 1 /\ se_[K + 1] = {m, o}
      /\ \A j \in 1 .. K : se_[j] = se[j]
  <2> HIDE DEF G
  <2> QED
    BY <1>1, <1>2
<1>4. v \in Nat /\ v # 0 /\ v \notin 1 .. K /\ v \in 1 .. v /\ \A j \in 1 .. K : j \in 1 .. v
  BY <1>1, <1>3
<1> HIDE DEF se_, v
<1>5. al_ = [[al EXCEPT ![m] = v] EXCEPT ![o] = v]
  BY DEF v
<1>6. /\ al_ \in Seq(Nat) /\ Len(al_) = G /\ al_[m] = v /\ al_[o] = v
      /\ \A g \in 1 .. G : g # m /\ g # o => al_[g] = al[g]
  <2> DEFINE b == [al EXCEPT ![m] = v]
  <2>1. b \in Seq(Nat) /\ Len(b) = G /\ b[m] = v /\ \A g \in 1 .. G : g # m => b[g] = al[g]
    BY <1>1, <1>4, SeqExcept
  <2>2. al_ = [b EXCEPT ![o] = v]
    BY <1>5
  <2> HIDE DEF al_, b
  <2>3. o \in 1 .. Len(b)
    BY <2>1
  <2>4. /\ al_ \in Seq(Nat) /\ Len(al_) = G /\ al_[o] = v
        /\ \A g \in 1 .. G : g # o => al_[g] = b[g]
    BY <1>4, <2>1, <2>2, <2>3, SeqExcept
  <2>5. m \in 1 .. G
    OBVIOUS
  <2> QED
    BY <2>1, <2>4, <2>5
<1> HIDE DEF al_, G, K
<1>7. ASSUME NEW g \in 1 .. G, al_[g] # 0
      PROVE  al_[g] \in 1 .. v /\ se_[al_[g]] = {h \in 1 .. G : al_[h] = al_[g]}
  <2>1. \A h \in 1 .. G : al[h] # v
    BY <1>1, <1>4
  <2>2. CASE g \in {m, o}
    <3>1. \A h \in 1 .. G : al_[h] = v <=> h \in {m, o}
      BY <1>6, <2>1
    <3>2. {h \in 1 .. G : al_[h] = v} = {m, o}
      BY <1>2, <3>1
    <3> QED
      BY <1>3, <1>4, <1>6, <2>2, <3>2
  <2>3. CASE g \notin {m, o}
    <3>1. al_[g] = al[g] /\ al[g] # 0
      BY <1>6, <1>7, <2>3
    <3>2. al[g] \in 1 .. K /\ se[al[g]] = {h \in 1 .. G : al[h] = al[g]}
      BY <1>1, <3>1
    <3>3. al[m] = 0 /\ al[o] = 0
      OBVIOUS
    <3>4. \A h \in 1 .. G : al_[h] = al[g] <=> al[h] = al[g]
      BY <1>4, <1>6, <3>1, <3>2, <3>3
    <3>5. {h \in 1 .. G : al_[h] = al[g]} = {h \in 1 .. G : al[h] = al[g]}
      BY <3>4
    <3> QED
      BY <1>3, <1>4, <3>1, <3>2, <3>5
  <2> QED
    BY <2>2, <2>3
<1>8. AliasInv(al_, se_)
  BY <1>3, <1>6, <1>7 DEF AliasInv, NULL, v
<1>9. ASSUME NEW g \in 1 .. G, NEW h \in 1 .. G
      PROVE  Same(al_, g, h) <=> \/ Same(al, g, h)
                                 \/ Same(al, g, m) /\ Same(al, h, o)
                                 \/ Same(al, g, o) /\ Same(al, h, m)
  <2>1. al[m] = 0 /\ al[o] = 0 /\ v # 0 /\ \A x \in 1 .. G : al[x] # v
    BY <1>1, <1>4
  <2>2. \A x \in 1 .. G : Same(al, x, m) <=> x = m
    BY <2>1 DEF Same, NULL
  <2>3. \A x \in 1 .. G : Same(al, x, o) <=> x = o
    BY <2>1 DEF Same, NULL
  <2>4. CASE g \in {m, o}
    BY <1>6, <2>1, <2>2, <2>3, <2>4 DEF Same, NULL
  <2>5. CASE g \notin {m, o} /\ h \in {m, o}
    BY <1>6, <2>1, <2>2, <2>3, <2>5 DEF Same, NULL
  <2>6. CASE g \notin {m, o} /\ h \notin {m, o}
    BY <1>6, <2>1, <2>2, <2>3, <2>6 DEF Same, NULL
  <2> QED
    BY <2>4, <2>5, <2>6
<1>10. United(al, al_, m, o)
  BY <1>6, <1>9 DEF United, G
<1> QED
  BY <1>8, <1>10 DEF al_, se_, v

LEMMA AliasMerges ==
    ASSUME AliasInv(alias_set, sets), NEW m \in 1 .. Len(alias_set), NEW o \in 1 .. Len(alias_set),
           m # o, Alias(m, o)
    PROVE  AliasInv(alias_set', sets') /\ United(alias_set, alias_set', m, o)
<1> DEFINE his == alias_set[o]
           ours == alias_set[m]
<1>1. \/ /\ his # 0 /\ ours = 0
         /\ sets' = [sets EXCEPT ![his] = @ \cup {m}]
         /\ alias_set' = [alias_set EXCEPT ![m] = his]
      \/ his # 0 /\ ours # 0 /\ sets[his] = sets[ours] /\ UNCHANGED <<sets, alias_set>>
      \/ his # 0 /\ ours # 0 /\ sets[his] # sets[ours] /\ Share(his, ours)
      \/ his # 0 /\ ours # 0 /\ sets[his] # sets[ours] /\ Share(ours, his)
      \/ /\ his = 0 /\ ours # 0
         /\ sets' = [sets EXCEPT ![ours] = @ \cup {o}]
         /\ alias_set' = [alias_set EXCEPT ![o] = ours]
      \/ /\ his = 0 /\ ours = 0
         /\ sets' = Append(sets, {m, o})
         /\ alias_set' = [alias_set EXCEPT ![m] = Len(sets'), ![o] = Len(sets')]
  BY DEF Alias, NULL
<1>2. CASE /\ his # 0 /\ ours = 0
           /\ sets' = [sets EXCEPT ![his] = @ \cup {m}]
           /\ alias_set' = [alias_set EXCEPT ![m] = his]
  BY <1>2, Joins
<1>3. CASE his # 0 /\ ours # 0 /\ sets[his] = sets[ours] /\ UNCHANGED <<sets, alias_set>>
  <2>1. /\ m \in sets[ours] /\ sets[ours] \subseteq {h \in 1 .. Len(alias_set) : alias_set[h] = ours}
        /\ sets[his] = {h \in 1 .. Len(alias_set) : alias_set[h] = his} /\ alias_set \in Seq(Nat)
    BY <1>3 DEF AliasInv, NULL
  <2>2. his = ours
    BY <1>3, <2>1
  <2>3. United(alias_set, alias_set, m, o)
    BY <1>3, <2>1, <2>2 DEF United, Same, NULL
  <2> QED
    BY <1>3, <2>3
<1>4. CASE his # 0 /\ ours # 0 /\ sets[his] # sets[ours] /\ Share(his, ours)
  <2>1. /\ sets' = [sets EXCEPT ![ours] = @ \cup sets[his]]
        /\ alias_set' = [g \in DOMAIN alias_set |-> IF g \in sets[his] THEN ours ELSE alias_set[g]]
    BY <1>4 DEF Share
  <2>2. AliasInv(alias_set', sets') /\ United(alias_set, alias_set', o, m)
    BY <1>4, <2>1, Shares
  <2> QED
    BY <2>2, UnitedTurned
<1>5. CASE his # 0 /\ ours # 0 /\ sets[his] # sets[ours] /\ Share(ours, his)
  <2>1. /\ sets' = [sets EXCEPT ![his] = @ \cup sets[ours]]
        /\ alias_set' = [g \in DOMAIN alias_set |-> IF g \in sets[ours] THEN his ELSE alias_set[g]]
    BY <1>5 DEF Share
  <2> QED
    BY <1>5, <2>1, Shares
<1>6. CASE /\ his = 0 /\ ours # 0
           /\ sets' = [sets EXCEPT ![ours] = @ \cup {o}]
           /\ alias_set' = [alias_set EXCEPT ![o] = ours]
  <2>1. AliasInv(alias_set', sets') /\ United(alias_set, alias_set', o, m)
    BY <1>6, Joins
  <2> QED
    BY <2>1, UnitedTurned
<1>7. CASE /\ his = 0 /\ ours = 0
           /\ sets' = Append(sets, {m, o})
           /\ alias_set' = [alias_set EXCEPT ![m] = Len(sets'), ![o] = Len(sets')]
  BY <1>7, Opens
<1> QED
  BY <1>1, <1>2, <1>3, <1>4, <1>5, <1>6, <1>7

(* What the search knows: groups that share an alias set are connected     *)
(* (Joined), and so are the elements on the stack and those of the current *)
(* group (Searched), which is no longer empty once its first element is    *)
(* visited (Begun); a pointer from a group leads to a group it shares a    *)
(* set with, or to an element that is still on the stack (Followed).       *)
SplitType ==
    /\ l \in Seq(ListElement)
    /\ groups_1 \in Seq(Seq(1 .. Len(l))) /\ group \in [1 .. Len(l) -> 0 .. Len(groups_1)]
    /\ stack \in Seq(1 .. Len(l)) /\ (stack # <<>> => groups_1 # <<>>)
    /\ Len(alias_set) = Len(groups_1) /\ AliasInv(alias_set, sets)
    /\ \A g \in 1 .. Len(groups_1) : ToSet(groups_1[g]) = {i \in 1 .. Len(l) : group[i] = g}

Joined ==
    \A i, j \in 1 .. Len(l) :
        group[i] # NULL /\ group[j] # NULL /\ Same(alias_set, group[i], group[j]) => Connected(l, i, j)

Searched ==
    \A i \in ToSet(stack) : \A j \in 1 .. Len(l) :
        j \in ToSet(stack) \/ group[j] = current_grp_index => Connected(l, i, j)

Begun ==
    \/ groups_1 = <<>>
    \/ \E i \in 1 .. Len(l) : group[i] = current_grp_index
    \/ Len(stack) = 1 /\ group[stack[1]] = NULL /\ alias_set[current_grp_index] = NULL

Followed ==
    \A i \in 1 .. Len(l) : group[i] # NULL => \A j \in ToSet(RefsOf(l, i)) :
        \/ group[j] # NULL /\ Same(alias_set, group[i], group[j])
        \/ j \in ToSet(stack) /\ group[i] = current_grp_index

SplitInv == SplitType /\ Joined /\ Searched /\ Begun /\ Followed

LEMMA GroupBegins ==
    ASSUME SplitInv, NewGroup
    PROVE  SplitInv'
<1> DEFINE N == Len(l)
           G == Len(groups_1)
           e == CHOOSE i \in Ungrouped : \A j \in Ungrouped : i <= j
<1>1. /\ l \in Seq(ListElement) /\ groups_1 \in Seq(Seq(1 .. N)) /\ group \in [1 .. N -> 0 .. G]
      /\ Len(alias_set) = G /\ AliasInv(alias_set, sets) /\ G \in Nat /\ N \in Nat
      /\ \A g \in 1 .. G : ToSet(groups_1[g]) = {i \in 1 .. N : group[i] = g}
  BY DEF SplitInv, SplitType
<1>2. /\ stack = <<>> /\ Ungrouped # {} /\ groups_1' = Append(groups_1, <<>>)
      /\ alias_set' = Append(alias_set, 0) /\ stack' = <<e>>
      /\ l' = l /\ group' = group /\ sets' = sets
  BY DEF NewGroup, NULL
<1>3. Ungrouped = {i \in 1 .. N : group[i] = 0}
  <2>1. DOMAIN l = 1 .. N
    BY <1>1
  <2> QED
    BY <2>1 DEF Ungrouped, NULL
<1>4. e \in 1 .. N /\ group[e] = 0
  <2>1. Ungrouped \subseteq Nat /\ Ungrouped # {}
    BY <1>1, <1>2, <1>3
  <2>2. \E i \in Ungrouped : \A j \in Ungrouped : i <= j
    BY <2>1, LeastNat
  <2>3. e \in Ungrouped
    BY <2>2, Zenon
  <2> QED
    BY <1>3, <2>3
<1> HIDE DEF e, N, G
<1>5. /\ groups_1' \in Seq(Seq(1 .. N)) /\ Len(groups_1') = G + 1 /\ groups_1'[G + 1] = <<>>
      /\ \A g \in 1 .. G : groups_1'[g] = groups_1[g]
  <2>1. Len(groups_1) = G /\ <<>> \in Seq(1 .. N)
    BY DEF G
  <2> QED
    BY <1>1, <1>2, <2>1
<1>6. \A g : g \in 1 .. G + 1 <=> g \in 1 .. G \/ g = G + 1
  BY <1>1
<1>7. \A i \in 1 .. N : group'[i] \in 0 .. G /\ group'[i] # G + 1
  BY <1>1, <1>2
<1> DEFINE al == alias_set
           al_ == alias_set'
<1>8. al \in Seq(Nat) /\ al_ \in Seq(Nat) /\ Len(al_) = G + 1 /\ al_[G + 1] = 0 /\ \A g \in 1 .. G : al_[g] = al[g]
  BY <1>1, <1>2 DEF AliasInv
<1>9. /\ sets \in Seq(SUBSET (1 .. G))
      /\ \A g \in 1 .. G : al[g] # 0 =>
            al[g] \in 1 .. Len(sets) /\ sets[al[g]] = {h \in 1 .. G : al[h] = al[g]}
  BY <1>1 DEF AliasInv, NULL
<1>10. AliasInv(al_, sets)
  <2>1. sets \in Seq(SUBSET (1 .. G + 1))
    <3>1. SUBSET (1 .. G) \subseteq SUBSET (1 .. G + 1)
      BY <1>6
    <3> HIDE DEF al, al_
    <3> QED
      BY <1>9, <3>1
  <2>2. ASSUME NEW g \in 1 .. G + 1, al_[g] # 0
        PROVE  al_[g] \in 1 .. Len(sets) /\ sets[al_[g]] = {h \in 1 .. G + 1 : al_[h] = al_[g]}
    <3>1. g \in 1 .. G /\ al_[g] = al[g] /\ al[g] # 0
      BY <1>6, <1>8, <2>2
    <3>2. \A h : h \in 1 .. G + 1 /\ al_[h] = al[g] <=> h \in 1 .. G /\ al[h] = al[g]
      BY <1>6, <1>8, <3>1
    <3>3. {h \in 1 .. G + 1 : al_[h] = al[g]} = {h \in 1 .. G : al[h] = al[g]}
      BY <3>2
    <3> QED
      BY <1>9, <3>1, <3>3
  <2> HIDE DEF al, al_
  <2> QED
    BY <1>8, <2>1, <2>2 DEF AliasInv, NULL
<1>11. \A i \in 1 .. N : group[i] # 0 => group[i] \in 1 .. G
  BY <1>1
<1>12. \A i, j \in 1 .. N : group[i] # 0 /\ group[j] # 0 =>
          (Same(al_, group[i], group[j]) <=> Same(al, group[i], group[j]))
  BY <1>8, <1>11 DEF Same
<1>13. stack' \in Seq(1 .. N) /\ Len(stack') = 1 /\ stack'[1] = e /\ ToSet(stack') = {e} /\ ToSet(stack) = {}
  <2>1. stack' = <<e>> /\ e \in 1 .. N
    BY <1>2, <1>4
  <2>2. ToSet(<<e>>) = {e} /\ ToSet(<<>>) = {}
    BY DEF ToSet
  <2> QED
    BY <1>2, <2>1, <2>2
<1>14. SplitType'
  <2>1. \A g \in 1 .. G + 1 : ToSet(groups_1'[g]) = {i \in 1 .. N : group[i] = g}
    <3> SUFFICES ASSUME NEW g \in 1 .. G + 1
                 PROVE  ToSet(groups_1'[g]) = {i \in 1 .. N : group[i] = g}
      OBVIOUS
    <3>1. CASE g \in 1 .. G
      BY <1>1, <1>5, <3>1
    <3>2. CASE g = G + 1
      <4>1. ToSet(groups_1'[g]) = {}
        BY <1>5, <3>2 DEF ToSet
      <4> QED
        BY <1>2, <1>7, <3>2, <4>1
    <3> QED
      BY <1>6, <3>1, <3>2
  <2>2. group' \in [1 .. N -> 0 .. G + 1]
    BY <1>1, <1>2
  <2>3. groups_1' # <<>>
    BY <1>1, <1>5
  <2> QED
    BY <1>1, <1>2, <1>5, <1>8, <1>10, <1>13, <2>1, <2>2, <2>3 DEF SplitType, N
<1>15. Joined'
  BY <1>2, <1>12 DEF SplitInv, Joined, N, NULL
<1>16. Searched'
  <2>1. current_grp_index' = G + 1
    BY <1>5 DEF current_grp_index
  <2> QED
    BY <1>2, <1>7, <1>13, <2>1, ConnectedIs DEF Searched, N
<1>17. Begun'
  <2>1. current_grp_index' = G + 1
    BY <1>5 DEF current_grp_index
  <2> QED
    BY <1>2, <1>4, <1>8, <1>13, <2>1 DEF Begun, NULL
<1>18. Followed'
  <2> SUFFICES ASSUME NEW i \in 1 .. N, group[i] # 0, NEW j \in ToSet(RefsOf(l, i))
               PROVE  group[j] # 0 /\ Same(al_, group[i], group[j])
    BY <1>2 DEF Followed, NULL, N
  <2>1. group[j] # 0 /\ Same(al, group[i], group[j])
    BY <1>13 DEF SplitInv, Followed, NULL, N
  <2>2. j \in 1 .. N
    BY <1>1, RefsType DEF N
  <2> QED
    BY <1>12, <2>1, <2>2
<1> QED
  BY <1>14, <1>15, <1>16, <1>17, <1>18 DEF SplitInv

LEMMA SetOfConcat ==
    ASSUME NEW T, NEW s \in Seq(T), NEW t \in Seq(T)
    PROVE  s \o t \in Seq(T) /\ ToSet(s \o t) = ToSet(s) \cup ToSet(t)
<1> DEFINE r == s \o t
           N == Len(s)
           M == Len(t)
<1>1. /\ r \in Seq(T) /\ Len(r) = N + M /\ N \in Nat /\ M \in Nat
      /\ \A i \in 1 .. N : r[i] = s[i]
      /\ \A i \in N + 1 .. N + M : r[i] = t[i - N]
  OBVIOUS
<1> HIDE DEF r
<1>2. \A x : x \in ToSet(r) <=> \E i \in 1 .. N + M : r[i] = x
  BY <1>1, SetOfSeq
<1>3. \A x : x \in ToSet(s) <=> \E i \in 1 .. N : s[i] = x
  BY SetOfSeq
<1>4. \A x : x \in ToSet(t) <=> \E i \in 1 .. M : t[i] = x
  BY SetOfSeq
<1> HIDE DEF N, M
<1>5. ASSUME NEW x \in ToSet(r) PROVE x \in ToSet(s) \/ x \in ToSet(t)
  <2>1. PICK i \in 1 .. N + M : r[i] = x
    BY <1>2
  <2>2. CASE i \in 1 .. N
    BY <1>1, <1>3, <2>1, <2>2
  <2>3. CASE i \notin 1 .. N
    <3>1. i \in N + 1 .. N + M /\ i - N \in 1 .. M
      BY <1>1, <2>3
    <3> QED
      BY <1>1, <1>4, <2>1, <3>1
  <2> QED
    BY <2>2, <2>3
<1>6. ASSUME NEW x \in ToSet(s) PROVE x \in ToSet(r)
  <2>1. PICK i \in 1 .. N : s[i] = x
    BY <1>3
  <2>2. i \in 1 .. N + M
    BY <1>1
  <2> QED
    BY <1>1, <1>2, <2>1, <2>2
<1>7. ASSUME NEW x \in ToSet(t) PROVE x \in ToSet(r)
  <2>1. PICK i \in 1 .. M : t[i] = x
    BY <1>4
  <2>2. i + N \in 1 .. N + M /\ i + N \in N + 1 .. N + M /\ (i + N) - N = i
    BY <1>1
  <2>3. r[i + N] = x
    BY <1>1, <2>1, <2>2
  <2> QED
    BY <1>2, <2>2, <2>3
<1> QED
  BY <1>1, <1>5, <1>6, <1>7 DEF r

LEMMA VisitGroups ==
    ASSUME SplitInv, Visit
    PROVE  SplitInv'
<1> DEFINE N == Len(l)
           G == Len(groups_1)
           e == Last(stack)
           al == alias_set
           f == Filtered(RefsOf(l, e), {he \in 1 .. N : group'[he] # G})
<1>1. /\ l \in Seq(ListElement) /\ groups_1 \in Seq(Seq(1 .. N)) /\ group \in [1 .. N -> 0 .. G]
      /\ Len(al) = G /\ AliasInv(al, sets) /\ G \in Nat /\ N \in Nat
      /\ stack \in Seq(1 .. N) /\ (stack # <<>> => groups_1 # <<>>)
      /\ \A g \in 1 .. G : ToSet(groups_1[g]) = {i \in 1 .. N : group[i] = g}
  BY DEF SplitInv, SplitType
<1>2. /\ stack # <<>> /\ group[e] = 0 /\ group' = [group EXCEPT ![e] = G]
      /\ groups_1' = [groups_1 EXCEPT ![G] = Append(@, e)]
      /\ stack' = Front(stack) \o f
      /\ l' = l /\ alias_set' = alias_set /\ sets' = sets
  <2>1. References(e) = RefsOf(l, e)
    BY ReferencesAre
  <2>2. DOMAIN l = 1 .. N
    BY <1>1
  <2> QED
    BY <2>1, <2>2 DEF Visit, current_grp_index, NULL
<1> HIDE DEF N, e
<1>3. Front(stack) \in Seq(1 .. N) /\ e \in 1 .. N /\ ToSet(stack) = ToSet(Front(stack)) \cup {e}
  BY <1>1, <1>2, SetOfFront DEF e
<1>4. RefsOf(l, e) \in Seq(1 .. N) /\ ToSet(RefsOf(l, e)) \subseteq 1 .. N
  <2>1. RefsOf(l, e) \in Seq(1 .. N)
    BY <1>1, <1>3, RefsType DEF N
  <2> QED
    BY <2>1, SetOfSeq
<1>5. f \in Seq(1 .. N) /\ ToSet(f) = {he \in ToSet(RefsOf(l, e)) : group'[he] # G}
  <2> DEFINE S == {he \in 1 .. N : group'[he] # G}
  <2>1. f \in Seq(S) /\ ToSet(f) = ToSet(RefsOf(l, e)) \cap S
    BY <1>4, FilteredSet
  <2>2. S \subseteq 1 .. N
    OBVIOUS
  <2>3. f \in Seq(1 .. N)
    <3> DEFINE T == 1 .. N
    <3> HIDE DEF f, S, T
    <3>1. f \in Seq(S) /\ S \subseteq T
      BY <2>1, <2>2 DEF T
    <3>2. f \in Seq(T)
      BY <3>1
    <3> QED
      BY <3>2 DEF T
  <2> QED
    BY <1>4, <2>1, <2>3
<1> HIDE DEF f
<1>6. stack' \in Seq(1 .. N) /\ ToSet(stack') = ToSet(Front(stack)) \cup ToSet(f)
  BY <1>2, <1>3, <1>5, SetOfConcat
<1>7. G \in 1 .. G /\ G # 0
  BY <1>1, <1>2
<1>8. groups_1[G] \in Seq(1 .. N)
  BY <1>1, <1>7
<1>9. Append(groups_1[G], e) \in Seq(1 .. N) /\ ToSet(Append(groups_1[G], e)) = ToSet(groups_1[G]) \cup {e}
  <2> DEFINE s == groups_1[G]
  <2>1. s \in Seq(1 .. N)
    BY <1>8
  <2> HIDE DEF s
  <2>2. Append(s, e) \in Seq(1 .. N) /\ ToSet(Append(s, e)) = ToSet(s) \cup {e}
    <3> DEFINE T == 1 .. N
    <3>1. s \in Seq(T) /\ e \in T
      BY <1>3, <2>1
    <3> HIDE DEF T
    <3>2. Append(s, e) \in Seq(T) /\ ToSet(Append(s, e)) = ToSet(s) \cup {e}
      BY <3>1, SetOfAppend
    <3> QED
      BY <3>2 DEF T
  <2> QED
    BY <2>2 DEF s
<1>10. /\ groups_1' \in Seq(Seq(1 .. N)) /\ Len(groups_1') = G /\ groups_1'[G] = Append(groups_1[G], e)
       /\ \A g \in 1 .. G : g # G => groups_1'[g] = groups_1[g]
  <2>1. groups_1' = [groups_1 EXCEPT ![G] = Append(groups_1[G], e)]
    BY <1>1, <1>2, <1>7
  <2> QED
    BY <1>1, <1>7, <1>9, <2>1, SeqExcept
<1> HIDE DEF G, al
<1>11. /\ group' \in [1 .. N -> 0 .. G] /\ group'[e] = G
       /\ \A i \in 1 .. N : i # e => group'[i] = group[i]
  BY <1>1, <1>2, <1>3, <1>7
<1>12. current_grp_index = G /\ current_grp_index' = G
  BY <1>10 DEF current_grp_index, G
<1>13. SplitType'
  <2>1. \A g \in 1 .. G : ToSet(groups_1'[g]) = {i \in 1 .. N : group'[i] = g}
    <3> SUFFICES ASSUME NEW g \in 1 .. G
                 PROVE  ToSet(groups_1'[g]) = {i \in 1 .. N : group'[i] = g}
      OBVIOUS
    <3>1. CASE g # G
      BY <1>1, <1>3, <1>2, <1>10, <1>11, <3>1
    <3>2. CASE g = G
      <4>1. \A i \in 1 .. N : group'[i] = G <=> group[i] = G \/ i = e
        BY <1>11
      <4>2. ToSet(groups_1[G]) = {i \in 1 .. N : group[i] = G}
        BY <1>1, <1>7
      <4> QED
        BY <1>3, <1>9, <1>10, <3>2, <4>1, <4>2
    <3> QED
      BY <3>1, <3>2
  <2>2. groups_1' # <<>>
    BY <1>7, <1>10
  <2> QED
    BY <1>1, <1>2, <1>6, <1>10, <1>11, <2>1, <2>2 DEF SplitType, N, al
<1>14. \A k \in 1 .. N : k \in ToSet(stack') \/ group'[k] = G => Connected(l, e, k)
  <2> SUFFICES ASSUME NEW k \in 1 .. N, k \in ToSet(stack') \/ group'[k] = G PROVE Connected(l, e, k)
    OBVIOUS
  <2>1. CASE k \in ToSet(stack) \/ group[k] = G
    BY <1>3, <1>12, <2>1 DEF SplitInv, Searched, N
  <2>2. CASE k \in ToSet(f)
    BY <1>3, <1>5, <2>2, ConnectedIs DEF N
  <2>3. CASE k = e
    BY <2>3, ConnectedIs
  <2> QED
    BY <1>3, <1>6, <1>11, <2>1, <2>2, <2>3
<1>15. Searched'
  <2> SUFFICES ASSUME NEW i \in ToSet(stack'), NEW j \in 1 .. N, j \in ToSet(stack') \/ group'[j] = G
               PROVE  Connected(l, i, j)
    BY <1>2, <1>12 DEF Searched, N
  <2>1. i \in 1 .. N
    BY <1>6, SetOfSeq
  <2>2. Connected(l, e, i) /\ Connected(l, e, j)
    BY <1>14, <2>1
  <2> QED
    BY <2>2, ConnectedIs
<1>16. Begun'
  BY <1>2, <1>3, <1>11, <1>12 DEF Begun, N
<1>17. ASSUME NEW i \in 1 .. N, group[i] # 0, i # e, Same(al, group[i], G)
       PROVE  Connected(l, e, i)
  <2>1. CASE \E k \in 1 .. N : group[k] = G
    <3>1. PICK k \in 1 .. N : group[k] = G
      BY <2>1
    <3>2. Connected(l, i, k)
      BY <1>7, <1>17, <3>1 DEF SplitInv, Joined, N, NULL, al
    <3>3. k # e
      BY <1>2, <1>7, <3>1
    <3>4. Connected(l, e, k)
      BY <1>11, <1>14, <3>1, <3>3
    <3> QED
      BY <3>2, <3>4, ConnectedIs
  <2>2. CASE ~\E k \in 1 .. N : group[k] = G
    <3>1. al[G] = 0
      BY <1>1, <1>2, <1>12, <2>2 DEF SplitInv, Begun, N, NULL, al
    <3>2. group[i] = G
      BY <1>17, <3>1 DEF Same, NULL
    <3> QED
      BY <2>2, <3>2
  <2> QED
    BY <2>1, <2>2
<1>18. Joined'
  <2> SUFFICES ASSUME NEW i \in 1 .. N, NEW j \in 1 .. N, group'[i] # 0, group'[j] # 0,
                      Same(al, group'[i], group'[j])
               PROVE  Connected(l, i, j)
    BY <1>2 DEF Joined, N, NULL, al
  <2>1. CASE i = e /\ j = e
    BY <2>1, ConnectedIs
  <2>2. CASE i = e /\ j # e
    BY <1>11, <1>17, <2>2 DEF Same
  <2>3. CASE i # e /\ j = e
    <3>1. Connected(l, e, i)
      BY <1>11, <1>17, <2>3 DEF Same
    <3> QED
      BY <2>3, <3>1, ConnectedIs
  <2>4. CASE i # e /\ j # e
    BY <1>11, <2>4 DEF SplitInv, Joined, N, NULL, al
  <2> QED
    BY <2>1, <2>2, <2>3, <2>4
<1>19. Followed'
  <2> SUFFICES ASSUME NEW i \in 1 .. N, group'[i] # 0, NEW j \in ToSet(RefsOf(l, i))
               PROVE  \/ group'[j] # 0 /\ Same(al, group'[i], group'[j])
                      \/ j \in ToSet(stack') /\ group'[i] = G
    BY <1>2, <1>12 DEF Followed, N, NULL, al
  <2>1. j \in 1 .. N
    BY <1>1, RefsType DEF N
  <2>2. CASE i = e
    <3>1. CASE group'[j] = G
      BY <1>7, <1>11, <2>2, <3>1 DEF Same
    <3>2. CASE group'[j] # G
      BY <1>5, <1>6, <1>11, <2>2, <3>2
    <3> QED
      BY <3>1, <3>2
  <2>3. CASE i # e
    <3>1. group'[i] = group[i]
      BY <1>11, <2>3
    <3>2. \/ group[j] # 0 /\ Same(al, group[i], group[j])
          \/ j \in ToSet(stack) /\ group[i] = G
      BY <1>12, <3>1 DEF SplitInv, Followed, N, NULL, al
    <3>3. CASE group[j] # 0 /\ Same(al, group[i], group[j])
      BY <1>2, <1>11, <2>1, <3>1, <3>3
    <3>4. CASE j \in ToSet(stack) /\ group[i] = G
      <4>1. CASE j = e
        BY <1>7, <1>11, <3>1, <3>4, <4>1 DEF Same
      <4>2. CASE j # e
        BY <1>3, <1>6, <3>1, <3>4, <4>2
      <4> QED
        BY <4>1, <4>2
    <3> QED
      BY <3>2, <3>3, <3>4
  <2> QED
    BY <2>2, <2>3
<1> QED
  BY <1>13, <1>15, <1>16, <1>18, <1>19 DEF SplitInv

LEMMA SameIs ==
    ASSUME NEW al, NEW g, NEW h
    PROVE  /\ Same(al, g, g) /\ (Same(al, g, h) => Same(al, h, g))
           /\ \A k : Same(al, g, h) /\ Same(al, h, k) => Same(al, g, k)
  BY DEF Same

LEMMA MeetMerges ==
    ASSUME SplitInv, Meet
    PROVE  SplitInv'
<1> DEFINE N == Len(l)
           G == Len(groups_1)
           e == Last(stack)
           o == group[e]
           al == alias_set
           al_ == alias_set'
<1>1. /\ l \in Seq(ListElement) /\ groups_1 \in Seq(Seq(1 .. N)) /\ group \in [1 .. N -> 0 .. G]
      /\ Len(al) = G /\ AliasInv(al, sets) /\ G \in Nat /\ N \in Nat
      /\ stack \in Seq(1 .. N) /\ (stack # <<>> => groups_1 # <<>>)
      /\ \A g \in 1 .. G : ToSet(groups_1[g]) = {i \in 1 .. N : group[i] = g}
  BY DEF SplitInv, SplitType
<1>2. /\ stack # <<>> /\ o # 0 /\ stack' = Front(stack)
      /\ IF o = G THEN UNCHANGED <<sets, alias_set>> ELSE Alias(G, o)
      /\ l' = l /\ group' = group /\ groups_1' = groups_1
  BY DEF Meet, current_grp_index, NULL
<1> HIDE DEF N, e
<1>3. /\ Front(stack) \in Seq(1 .. N) /\ e \in 1 .. N /\ Len(Front(stack)) = Len(stack) - 1
      /\ ToSet(stack) = ToSet(Front(stack)) \cup {e}
  BY <1>1, <1>2, SetOfFront DEF e
<1> HIDE DEF G, o
<1>4. o \in 1 .. G /\ G \in 1 .. G /\ G # 0
  BY <1>1, <1>2, <1>3 DEF o
<1>5. AliasInv(al_, sets') /\ United(al, al_, G, o)
  <2>1. CASE o = G
    <3>1. al_ = al /\ sets' = sets /\ al \in Seq(Nat)
      BY <1>1, <1>2, <2>1 DEF AliasInv
    <3>2. \A g, h \in 1 .. G : Same(al, g, h) <=> \/ Same(al, g, h)
                                                  \/ Same(al, g, G) /\ Same(al, h, o)
                                                  \/ Same(al, g, o) /\ Same(al, h, G)
      BY <2>1, SameIs
    <3> QED
      BY <1>1, <3>1, <3>2 DEF United
  <2>2. CASE o # G
    BY <1>1, <1>2, <1>4, <2>2, AliasMerges
  <2> QED
    BY <2>1, <2>2
<1>6. /\ Len(al_) = G
      /\ \A g, h \in 1 .. G : Same(al_, g, h) <=> \/ Same(al, g, h)
                                                  \/ Same(al, g, G) /\ Same(al, h, o)
                                                  \/ Same(al, g, o) /\ Same(al, h, G)
  BY <1>1, <1>5 DEF United
<1>7. current_grp_index = G /\ current_grp_index' = G
  BY <1>2 DEF current_grp_index, G
<1>8. \A i \in 1 .. N : group[i] # 0 => group[i] \in 1 .. G
  BY <1>1
<1> HIDE DEF al, al_
<1>9. PICK k \in 1 .. N : group[k] = G
  <2>1. Begun /\ groups_1 # <<>>
    BY <1>1, <1>2 DEF SplitInv
  <2>2. Len(stack) = 1 => stack[1] = e
    BY DEF Last, e
  <2> QED
    BY <1>2, <1>7, <2>1, <2>2 DEF Begun, N, NULL, o
<1>10. \A i \in ToSet(stack) : \A j \in 1 .. N : j \in ToSet(stack) \/ group[j] = G => Connected(l, i, j)
  BY <1>7 DEF SplitInv, Searched, N
<1>11. Connected(l, e, k)
  BY <1>3, <1>9, <1>10
<1>12. \A i, j \in 1 .. N : group[i] # 0 /\ group[j] # 0 /\ Same(al, group[i], group[j]) => Connected(l, i, j)
  BY DEF SplitInv, Joined, N, NULL, al
<1>13. \A i \in 1 .. N : group[i] # 0 /\ (Same(al, group[i], G) \/ Same(al, group[i], o)) => Connected(l, e, i)
  <2> SUFFICES ASSUME NEW i \in 1 .. N, group[i] # 0, Same(al, group[i], G) \/ Same(al, group[i], o)
               PROVE  Connected(l, e, i)
    OBVIOUS
  <2>1. CASE Same(al, group[i], G)
    <3>1. Connected(l, i, k)
      BY <1>4, <1>9, <1>12, <2>1
    <3> QED
      BY <1>11, <3>1, ConnectedIs
  <2>2. CASE Same(al, group[i], o)
    <3>1. Connected(l, i, e)
      BY <1>2, <1>3, <1>12, <2>2 DEF o
    <3> QED
      BY <3>1, ConnectedIs
  <2> QED
    BY <2>1, <2>2
<1>14. SplitType'
  BY <1>1, <1>2, <1>3, <1>4, <1>5, <1>6 DEF SplitType, N, G, al, al_
<1>15. Joined'
  <2> SUFFICES ASSUME NEW i \in 1 .. N, NEW j \in 1 .. N, group[i] # 0, group[j] # 0,
                      Same(al_, group[i], group[j])
               PROVE  Connected(l, i, j)
    BY <1>2 DEF Joined, N, NULL, al_
  <2>1. \/ Same(al, group[i], group[j])
        \/ Same(al, group[i], G) /\ Same(al, group[j], o)
        \/ Same(al, group[i], o) /\ Same(al, group[j], G)
    BY <1>6, <1>8
  <2>2. CASE Same(al, group[i], group[j])
    BY <1>12, <2>2
  <2>3. CASE ~Same(al, group[i], group[j])
    <3>1. Connected(l, e, i) /\ Connected(l, e, j)
      BY <1>13, <2>1, <2>3
    <3> QED
      BY <3>1, ConnectedIs
  <2> QED
    BY <2>2, <2>3
<1>16. Searched'
  <2> SUFFICES ASSUME NEW i \in ToSet(Front(stack)), NEW j \in 1 .. N,
                      j \in ToSet(Front(stack)) \/ group[j] = G
               PROVE  Connected(l, i, j)
    BY <1>2, <1>7 DEF Searched, N
  <2> QED
    BY <1>3, <1>10
<1>17. Begun'
  BY <1>2, <1>7, <1>9 DEF Begun, N
<1>18. Followed'
  <2> SUFFICES ASSUME NEW i \in 1 .. N, group[i] # 0, NEW j \in ToSet(RefsOf(l, i))
               PROVE  \/ group[j] # 0 /\ Same(al_, group[i], group[j])
                      \/ j \in ToSet(Front(stack)) /\ group[i] = G
    BY <1>2, <1>7 DEF Followed, N, NULL, al_
  <2>1. j \in 1 .. N
    BY <1>1, RefsType DEF N
  <2>2. \/ group[j] # 0 /\ Same(al, group[i], group[j])
        \/ j \in ToSet(stack) /\ group[i] = G
    BY <1>7 DEF SplitInv, Followed, N, NULL, al
  <2>3. CASE group[j] # 0 /\ Same(al, group[i], group[j])
    BY <1>6, <1>8, <2>1, <2>3
  <2>4. CASE j = e /\ group[i] = G
    <3>1. group[j] = o /\ o # 0
      BY <1>2, <2>4 DEF o
    <3>2. Same(al, G, G) /\ Same(al, o, o)
      BY SameIs
    <3>3. Same(al_, G, o)
      BY <1>4, <1>6, <3>2
    <3> QED
      BY <2>4, <3>1, <3>3
  <2>5. CASE j \in ToSet(Front(stack)) /\ group[i] = G
    BY <2>5
  <2> QED
    BY <1>3, <2>2, <2>3, <2>4, <2>5
<1> QED
  BY <1>14, <1>15, <1>16, <1>17, <1>18 DEF SplitInv

(* Pass 2: the parts are the components of the elements.                   *)
Component(i) == {j \in 1 .. Len(l) : Connected(l, i, j)}

Part(g) == {j \in 1 .. Len(l) : Same(alias_set, g, group[j])}

MergeStates == [merged : SUBSET (1 .. Len(groups_1)), groups_2 : Seq(SUBSET (1 .. Len(l))), raised : BOOLEAN]

MergedTo(n, state) ==
    /\ state \in MergeStates /\ ~state.raised
    /\ \A h \in 1 .. Len(groups_1) : h \in state.merged <=> \E g \in 1 .. n : Same(alias_set, g, h)
    /\ \A x : x \in ToSet(state.groups_2) <=> \E g \in 1 .. n : x = Part(g)

LEMMA PartsAre ==
    ASSUME SplitType, \A i \in 1 .. Len(l) : group[i] # NULL, NEW g \in 1 .. Len(groups_1)
    PROVE  LET whole == IF alias_set[g] = NULL THEN {g} ELSE sets[alias_set[g]]
           IN  /\ whole = {h \in 1 .. Len(groups_1) : Same(alias_set, g, h)}
               /\ UNION {ToSet(groups_1[a]) : a \in whole} = Part(g)
<1> DEFINE N == Len(l)
           G == Len(groups_1)
           al == alias_set
           whole == IF al[g] = NULL THEN {g} ELSE sets[al[g]]
<1>1. /\ group \in [1 .. N -> 0 .. G] /\ Len(al) = G /\ AliasInv(al, sets)
      /\ \A h \in 1 .. G : ToSet(groups_1[h]) = {i \in 1 .. N : group[i] = h}
      /\ \A i \in 1 .. N : group[i] # 0
  BY DEF SplitType, NULL
<1>2. \A h \in 1 .. G : al[h] # 0 => sets[al[h]] = {k \in 1 .. G : al[k] = al[h]}
  BY <1>1 DEF AliasInv, NULL
<1>3. whole = {h \in 1 .. G : Same(al, g, h)}
  <2>1. CASE al[g] = 0
    <3>1. \A h : Same(al, g, h) <=> g = h
      BY <2>1 DEF Same, NULL
    <3> QED
      BY <2>1, <3>1 DEF NULL
  <2>2. CASE al[g] # 0
    <3>1. \A h : Same(al, g, h) <=> g = h \/ al[h] = al[g]
      BY <2>2 DEF Same, NULL
    <3>2. whole = {k \in 1 .. G : al[k] = al[g]}
      BY <1>2, <2>2 DEF NULL
    <3> HIDE DEF whole
    <3> QED
      BY <3>1, <3>2
  <2> QED
    BY <2>1, <2>2
<1> HIDE DEF whole, N, G, al
<1>4. UNION {ToSet(groups_1[a]) : a \in whole} = {j \in 1 .. N : Same(al, g, group[j])}
  <2>1. \A a \in whole : ToSet(groups_1[a]) = {i \in 1 .. N : group[i] = a}
    BY <1>1, <1>3
  <2>2. \A j \in 1 .. N : Same(al, g, group[j]) => group[j] \in whole
    <3> SUFFICES ASSUME NEW j \in 1 .. N, Same(al, g, group[j]) PROVE group[j] \in whole
      OBVIOUS
    <3>1. group[j] \in 1 .. G
      <4>1. group[j] \in 0 .. G /\ group[j] # 0
        BY <1>1
      <4> QED
        BY <4>1
    <3> QED
      BY <1>3, <3>1
  <2>3. \A a \in whole : Same(al, g, a)
    BY <1>3
  <2> QED
    BY <2>1, <2>2, <2>3
<1> QED
  BY <1>3, <1>4 DEF Part, whole, N, G, al

LEMMA MergingMore ==
    ASSUME SplitType, \A i \in 1 .. Len(l) : group[i] # NULL, NEW n \in 1 .. Len(groups_1),
           NEW state, MergedTo(n - 1, state)
    PROVE  MergedTo(n, Merging(state, n))
<1> DEFINE N == Len(l)
           G == Len(groups_1)
           al == alias_set
           whole == IF al[n] = NULL THEN {n} ELSE sets[al[n]]
           part == UNION {ToSet(groups_1[a]) : a \in whole}
           merged == state.merged
           gs == state.groups_2
           now == Merging(state, n)
           Seen(m, h) == \E g \in 1 .. m : Same(al, g, h)
           Taken(m, x) == \E g \in 1 .. m : x = Part(g)
<1>1. whole = {h \in 1 .. G : Same(al, n, h)} /\ part = Part(n)
  BY PartsAre
<1>2. /\ state \in MergeStates /\ ~state.raised
      /\ \A h \in 1 .. G : h \in merged <=> Seen(n - 1, h)
      /\ \A x : x \in ToSet(gs) <=> Taken(n - 1, x)
  BY DEF MergedTo
<1>3. merged \in SUBSET (1 .. G) /\ gs \in Seq(SUBSET (1 .. N))
  BY <1>2 DEF MergeStates
<1>4. now = IF n \in merged THEN state
            ELSE [merged |-> merged \cup whole, groups_2 |-> Append(gs, part),
                  raised |-> state.raised \/ whole \cap merged # {}]
  BY DEF Merging
<1>5. \A m : m \in 1 .. n <=> m \in 1 .. n - 1 \/ m = n
  OBVIOUS
<1>6. \A h : Seen(n, h) <=> Seen(n - 1, h) \/ Same(al, n, h)
  BY <1>5
<1>7. \A x : Taken(n, x) <=> Taken(n - 1, x) \/ x = Part(n)
  BY <1>5
<1>8. n \in 1 .. G /\ Part(n) \in SUBSET (1 .. N)
  BY DEF Part
<1> HIDE DEF whole, part, merged, gs, now, Seen, Taken, N, G, al
<1>9. CASE n \in merged
  <2>1. PICK g \in 1 .. n - 1 : Same(al, g, n)
    BY <1>2, <1>8, <1>9 DEF Seen
  <2>2. \A h : Same(al, n, h) => Seen(n - 1, h)
    BY <2>1, SameIs DEF Seen
  <2>3. Part(g) = Part(n)
    <3>1. \A h : Same(al, g, h) <=> Same(al, n, h)
      BY <2>1, SameIs
    <3> QED
      BY <3>1 DEF Part, al
  <2>4. Taken(n - 1, Part(n))
    BY <2>1, <2>3 DEF Taken
  <2>5. now = state
    BY <1>4, <1>9
  <2>6. \A h \in 1 .. G : h \in merged <=> Seen(n, h)
    BY <1>2, <1>6, <2>2
  <2>7. \A x : x \in ToSet(gs) <=> Taken(n, x)
    BY <1>2, <1>7, <2>4
  <2> QED
    BY <1>2, <2>5, <2>6, <2>7 DEF MergedTo, merged, gs, Seen, Taken, G, al, now
<1>10. CASE n \notin merged
  <2>1. \A h \in whole : h \notin merged
    <3> SUFFICES ASSUME NEW h \in whole, h \in merged PROVE FALSE
      OBVIOUS
    <3>1. h \in 1 .. G /\ Same(al, n, h)
      BY <1>1
    <3>2. PICK g \in 1 .. n - 1 : Same(al, g, h)
      BY <1>2, <3>1 DEF Seen
    <3>3. Same(al, g, n)
      BY <3>1, <3>2, SameIs
    <3> QED
      BY <1>2, <1>8, <1>10, <3>3 DEF Seen
  <2>2. now = [merged |-> merged \cup whole, groups_2 |-> Append(gs, part),
               raised |-> state.raised \/ whole \cap merged # {}]
    BY <1>4, <1>10
  <2>3. now.merged = merged \cup whole /\ now.groups_2 = Append(gs, part) /\ ~now.raised
    BY <1>2, <2>1, <2>2
  <2>4. Append(gs, part) \in Seq(SUBSET (1 .. N)) /\ ToSet(Append(gs, part)) = ToSet(gs) \cup {Part(n)}
    <3> DEFINE T == SUBSET (1 .. N)
    <3>1. gs \in Seq(T) /\ Part(n) \in T
      BY <1>3, <1>8
    <3> HIDE DEF T
    <3>2. Append(gs, Part(n)) \in Seq(T) /\ ToSet(Append(gs, Part(n))) = ToSet(gs) \cup {Part(n)}
      BY <3>1, SetOfAppend
    <3> QED
      BY <1>1, <3>2 DEF T
  <2>5. now \in MergeStates
    <3>1. merged \cup whole \in SUBSET (1 .. G) /\ (state.raised \/ whole \cap merged # {}) \in BOOLEAN
      BY <1>1, <1>3
    <3> QED
      BY <2>2, <2>4, <3>1 DEF MergeStates, N, G
  <2>6. \A h \in 1 .. G : h \in now.merged <=> Seen(n, h)
    BY <1>1, <1>2, <1>6, <2>3
  <2>7. \A x : x \in ToSet(now.groups_2) <=> Taken(n, x)
    BY <1>2, <1>7, <2>3, <2>4
  <2> QED
    BY <2>3, <2>5, <2>6, <2>7 DEF MergedTo, Seen, Taken, G, al, now
<1> QED
  BY <1>9, <1>10

Merged ==
    LET after[g \in 0 .. Len(groups_1)] ==
            IF g = 0 THEN [merged |-> {}, groups_2 |-> <<>>, raised |-> FALSE]
            ELSE Merging(after[g - 1], g)
    IN  after[Len(groups_1)]

LEMMA MergingType ==
    ASSUME SplitType, \A i \in 1 .. Len(l) : group[i] # NULL, NEW n \in 1 .. Len(groups_1),
           NEW state \in MergeStates
    PROVE  Merging(state, n) \in MergeStates
<1> DEFINE N == Len(l)
           G == Len(groups_1)
           whole == IF alias_set[n] = NULL THEN {n} ELSE sets[alias_set[n]]
           part == UNION {ToSet(groups_1[a]) : a \in whole}
           merged == state.merged
           gs == state.groups_2
           raised_ == state.raised \/ whole \cap merged # {}
           now == Merging(state, n)
<1>1. whole = {h \in 1 .. G : Same(alias_set, n, h)} /\ part = Part(n)
  BY PartsAre
<1>2. merged \in SUBSET (1 .. G) /\ gs \in Seq(SUBSET (1 .. N)) /\ raised_ \in BOOLEAN
  BY DEF MergeStates
<1>3. now = IF n \in merged THEN state
            ELSE [merged |-> merged \cup whole, groups_2 |-> Append(gs, part), raised |-> raised_]
  BY DEF Merging
<1>4. Part(n) \in SUBSET (1 .. N)
  BY DEF Part
<1> HIDE DEF whole, part, merged, gs, raised_, now
<1>5. Append(gs, part) \in Seq(SUBSET (1 .. N))
  <2> DEFINE T == SUBSET (1 .. N)
  <2>1. gs \in Seq(T) /\ part \in T
    BY <1>1, <1>2, <1>4
  <2> HIDE DEF T
  <2>2. Append(gs, part) \in Seq(T)
    BY <2>1
  <2> QED
    BY <2>2 DEF T
<1>6. merged \cup whole \in SUBSET (1 .. G)
  BY <1>1, <1>2
<1> QED
  BY <1>2, <1>3, <1>5, <1>6 DEF MergeStates, now

LEMMA MergedIs ==
    ASSUME SplitType, \A i \in 1 .. Len(l) : group[i] # NULL
    PROVE  MergedTo(Len(groups_1), Merged)
<1> DEFINE G == Len(groups_1)
           S == MergeStates
           first == [merged |-> {}, groups_2 |-> <<>>, raised |-> FALSE]
           Is(g) == g = [n \in 0 .. G |-> IF n = 0 THEN first ELSE Merging(g[n - 1], n)]
           f == CHOOSE g : Is(g)
           step == [n \in 1 .. G |-> [s \in S |-> Merging(s, n)]]
<1>1. G \in Nat
  BY DEF SplitType
<1>2. Merged = f[G]
  BY DEF Merged
<1>3. MergedTo(0, first) /\ first \in S
  <2>1. first.merged = {} /\ first.groups_2 = <<>> /\ first.raised = FALSE /\ ToSet(<<>>) = {}
    BY DEF ToSet
  <2>2. first \in MergeStates
    BY DEF MergeStates
  <2> HIDE DEF first
  <2> QED
    BY <2>1, <2>2 DEF MergedTo
<1>4. \A n \in 1 .. G : \A s \in S : Merging(s, n) \in S
  BY MergingType
<1>5. step \in [1 .. G -> [S -> S]]
  BY <1>4
<1>6. \A n \in 1 .. G : \A s \in S : step[n][s] = Merging(s, n)
  OBVIOUS
<1> HIDE DEF G, S, step, first
<1>7. PICK g \in [0 .. G -> S] : Recurs(g, G, first, step)
  BY <1>1, <1>3, <1>5, Recursion
<1>8. \A n \in 1 .. G : step[n][g[n - 1]] = Merging(g[n - 1], n)
  <2> TAKE n \in 1 .. G
  <2>1. n - 1 \in 0 .. G
    BY <1>1
  <2> QED
    BY <1>6, <1>7, <2>1
<1>9. Is(g)
  <2>1. g = [n \in 0 .. G |-> IF n = 0 THEN first ELSE step[n][g[n - 1]]]
    BY <1>7, Zenon DEF Recurs
  <2>2. \A n \in 0 .. G : n = 0 \/ n \in 1 .. G
    BY <1>1
  <2> QED
    BY <1>8, <2>1, <2>2
<1>10. Is(f)
  BY <1>9, Zenon
<1> HIDE DEF f
<1>11. 0 \in 0 .. G /\ G \in 0 .. G /\ \A n \in 1 .. G : n \in 0 .. G /\ n # 0
  BY <1>1
<1>12. f[0] = first /\ \A n \in 1 .. G : f[n] = Merging(f[n - 1], n)
  BY <1>10, <1>11
<1> DEFINE Have == {n \in 0 .. G : MergedTo(n, f[n])}
<1>13. 0 \in Have
  BY <1>3, <1>11, <1>12
<1>14. \A n \in 1 .. G : n - 1 \in Have => n \in Have
  <2> SUFFICES ASSUME NEW n \in 1 .. G, n - 1 \in Have PROVE n \in Have
    OBVIOUS
  <2>1. MergedTo(n - 1, f[n - 1])
    OBVIOUS
  <2>2. MergedTo(n, Merging(f[n - 1], n))
    BY <2>1, MergingMore DEF G
  <2> QED
    BY <1>11, <1>12, <2>2
<1> HIDE DEF Have
<1>15. 0 .. G \subseteq Have
  BY <1>1, <1>13, <1>14, UpTo
<1> QED
  BY <1>2, <1>11, <1>15 DEF Have, G

LEMMA ComponentsAre ==
    ASSUME SplitInv, stack = <<>>, \A i \in 1 .. Len(l) : group[i] # NULL
    PROVE  \A i, j \in 1 .. Len(l) : Connected(l, i, j) <=> Same(alias_set, group[i], group[j])
<1> SUFFICES ASSUME NEW i \in 1 .. Len(l), NEW j \in 1 .. Len(l)
             PROVE  Connected(l, i, j) <=> Same(alias_set, group[i], group[j])
  OBVIOUS
<1>1. ASSUME Same(alias_set, group[i], group[j]) PROVE Connected(l, i, j)
  BY <1>1 DEF SplitInv, Joined
<1>2. ASSUME Connected(l, i, j) PROVE Same(alias_set, group[i], group[j])
  <2> DEFINE S == {k \in 1 .. Len(l) : Same(alias_set, group[i], group[k])}
  <2>1. BothWays(l, S)
    <3> SUFFICES ASSUME NEW p \in 1 .. Len(l), NEW q \in ToSet(RefsOf(l, p)) PROVE p \in S <=> q \in S
      BY DEF BothWays
    <3>1. q \in 1 .. Len(l)
      BY RefsType DEF SplitInv, SplitType
    <3>2. Same(alias_set, group[p], group[q])
      <4>1. ToSet(stack) = {}
        BY DEF ToSet
      <4> QED
        BY <4>1 DEF SplitInv, Followed
    <3> QED
      BY <3>1, <3>2, SameIs
  <2>2. i \in S
    BY SameIs
  <2>3. S \in SUBSET (1 .. Len(l))
    OBVIOUS
  <2> HIDE DEF S
  <2>4. j \in S
    BY <1>2, <2>1, <2>2, <2>3 DEF Connected
  <2> QED
    BY <2>4 DEF S
<1> QED
  BY <1>1, <1>2

(* Merge never gives up, and reports the components.                       *)
LEMMA MergeReports ==
    ASSUME SplitInv, Merge
    PROVE  /\ phase' = "end"
           /\ report' = {Written(Component(i)) : i \in 1 .. Len(l)} \ {{}}
<1> DEFINE N == Len(l)
           G == Len(groups_1)
           gs == Merged.groups_2
<1>1. SplitType
  BY DEF SplitInv
<1>2. l \in Seq(ListElement) /\ group \in [1 .. N -> 0 .. G] /\ DOMAIN l = 1 .. N
  BY <1>1 DEF SplitType
<1>3. /\ stack = <<>> /\ Ungrouped = {}
      /\ IF Merged.raised THEN phase' = "raised" /\ UNCHANGED report
         ELSE phase' = "end" /\ report' = {Written(g) : g \in ToSet(gs)} \ {{}}
  <2>1. /\ stack = <<>> /\ Ungrouped = {}
        /\ LET after[g \in 0 .. Len(groups_1)] ==
                 IF g = 0 THEN [merged |-> {}, groups_2 |-> <<>>, raised |-> FALSE]
                 ELSE Merging(after[g - 1], g)
               state == after[Len(groups_1)]
           IN  IF state.raised THEN phase' = "raised" /\ UNCHANGED report
               ELSE /\ phase' = "end"
                    /\ report' = {Written(g) : g \in ToSet(state.groups_2)} \ {{}}
    BY Zenon DEF Merge
  <2> QED
    BY <2>1, Zenon DEF Merged
<1>4. \A i \in 1 .. N : group[i] # NULL
  BY <1>2, <1>3 DEF Ungrouped
<1>5. ~Merged.raised /\ \A x : x \in ToSet(gs) <=> \E g \in 1 .. G : x = Part(g)
  <2>1. MergedTo(G, Merged)
    BY <1>1, <1>4, MergedIs
  <2> QED
    BY <2>1 DEF MergedTo
<1>6. \A i \in 1 .. N : group[i] \in 1 .. G
  BY <1>2, <1>4 DEF NULL
<1>7. \A i, j \in 1 .. N : Connected(l, i, j) <=> Same(alias_set, group[i], group[j])
  BY <1>3, <1>4, ComponentsAre
<1>8. \A i \in 1 .. N : Component(i) = Part(group[i])
  BY <1>7 DEF Component, Part
<1>9. \A g \in 1 .. G : Part(g) = {} \/ \E i \in 1 .. N : Part(g) = Component(i)
  <2> SUFFICES ASSUME NEW g \in 1 .. G, Part(g) # {}
               PROVE  \E i \in 1 .. N : Part(g) = Component(i)
    OBVIOUS
  <2>1. PICK i \in 1 .. N : Same(alias_set, g, group[i])
    BY DEF Part
  <2>2. \A j : Same(alias_set, g, group[j]) <=> Same(alias_set, group[i], group[j])
    BY <2>1, SameIs
  <2>3. Part(g) = Part(group[i])
    BY <2>2 DEF Part
  <2> QED
    BY <1>8, <2>3
<1>10. Written({}) = {}
  BY DEF Written
<1> HIDE DEF gs
<1>11. {Written(g) : g \in ToSet(gs)} \ {{}} = {Written(Component(i)) : i \in 1 .. N} \ {{}}
  <2>1. ASSUME NEW w \in {Written(g) : g \in ToSet(gs)} \ {{}}
        PROVE  w \in {Written(Component(i)) : i \in 1 .. N} \ {{}}
    <3>1. PICK x \in ToSet(gs) : w = Written(x)
      OBVIOUS
    <3>2. PICK g \in 1 .. G : x = Part(g)
      BY <1>5
    <3>3. Part(g) # {}
      BY <1>10, <3>1, <3>2
    <3> QED
      BY <1>9, <3>1, <3>2, <3>3
  <2>2. ASSUME NEW w \in {Written(Component(i)) : i \in 1 .. N} \ {{}}
        PROVE  w \in {Written(g) : g \in ToSet(gs)} \ {{}}
    <3>1. PICK i \in 1 .. N : w = Written(Component(i))
      OBVIOUS
    <3>2. Part(group[i]) \in ToSet(gs)
      BY <1>5, <1>6
    <3> QED
      BY <1>8, <3>1, <3>2
  <2> QED
    BY <2>1, <2>2
<1> QED
  BY <1>3, <1>5, <1>11

-----------------------------------------------------------------------------
(* The reports.  AnalyzeZeroRef reports what nothing points to.            *)
LEMMA AllSeparate ==
    ASSUME sent \in Seq(HeaderType), NoCollision
    PROVE  Headers \subseteq HeaderType /\ IsFiniteSet(Headers) /\ Separate(Headers) /\ StartApart
<1>1. Separate(Headers)
  BY Zenon DEF NoCollision, Separate
<1> QED
  BY <1>1, SentHeaders, NothingOverlaps

LEMMA ZeroCounted ==
    ASSUME SenderInv, l \in Seq(ListElement), NoCollision, Complete(l), AnalyzeZeroRef
    PROVE  UNION report' = Addr(Leaked)
<1> DEFINE H == Headers
           N == Len(l)
           X == {p[2] : p \in Pointers(H)}
           D == {h \in H : Allocation(h)} \ X
           I == NotReferenced(refCount')
<1>1. snapshot \in Snapshots /\ sent \in Seq(HeaderType) /\ N \in Nat /\ DOMAIN l = 1 .. N
  BY DEF SenderInv
<1>2. H \subseteq HeaderType /\ Separate(H)
  BY <1>1, AllSeparate
<1>3. Orderly(l) /\ Holding(l, H)
  BY DEF Complete
<1>4. /\ option = "zero" /\ refCount' = [i \in 1 .. N |-> ReferenceCount(i)]
      /\ report' = {Written(I)} \ {{}}
  BY <1>1, Zenon DEF AnalyzeZeroRef
<1>5. Leaked = D
  BY <1>4 DEF Leaked, Referenced
<1> HIDE DEF N
<1>6. \A i \in 1 .. N : refCount'[i] = 0 <=> \A j \in 1 .. N : i \notin ToSet(RefsOf(l, j))
  BY <1>4, CountIs DEF N
<1>7. /\ \A i \in 1 .. N : \E b \in H : l[i] = Elt(b)
      /\ \A b \in H : \E i \in 1 .. N : l[i] = Elt(b)
  BY <1>3 DEF Holding, N
<1>8. \A h : h \in X <=> h \in H /\ \E b \in H : Refers(H, b, h)
  <2> DEFINE R == Pointers(H)
  <2>1. /\ \A b, c \in H : <<b, c>> \in R <=> Refers(H, b, c)
        /\ \A p \in R : p[1] \in H /\ p[2] \in H /\ p = <<p[1], p[2]>>
    BY DEF Pointers
  <2>2. X = {p[2] : p \in R}
    OBVIOUS
  <2> HIDE DEF R, X, H
  <2>3. ASSUME NEW h \in X PROVE h \in H /\ \E b \in H : Refers(H, b, h)
    <3>1. PICK p \in R : p[2] = h
      BY <2>2
    <3> QED
      BY <2>1, <3>1
  <2>4. ASSUME NEW h \in H, NEW b \in H, Refers(H, b, h) PROVE h \in X
    <3>1. <<b, h>> \in R /\ <<b, h>>[2] = h
      BY <2>1, <2>4
    <3> QED
      BY <2>2, <3>1
  <2> QED
    BY <2>3, <2>4
<1> HIDE DEF H, X, I
<1>9. ASSUME NEW h \in H, NEW i \in 1 .. N, l[i] = Elt(h), ~Root(h)
      PROVE  refCount'[i] = 0 <=> h \notin X
  <2>1. \A j \in 1 .. N : \A b \in H : l[j] = Elt(b) => (i \in ToSet(RefsOf(l, j)) <=> Refers(H, b, h))
    BY <1>1, <1>2, <1>3, <1>9, PointsTo DEF N
  <2> QED
    BY <1>6, <1>7, <1>8, <2>1
<1>10. Matches(l, I, D)
  BY <1>1, <1>3, <1>9, NotReferencedIs DEF H, I, N
<1>11. Written(I) = Addr(D)
  BY <1>1, <1>2, <1>10, WrittenIs
<1> QED
  BY <1>4, <1>5, <1>11

(* What Sweep leaves.                                                      *)
Swept(a) ==
    /\ NoCollision => Orderly(a) /\ Holding(a, Leaked)
    /\ StartApart => \A i \in 1 .. Len(a) :
          a[i].addr \notin Addr(Reached(Whole, Whole \cap Roots, Starts(Whole)))

LEMMA SweptPick ==
    ASSUME l \in Seq(ListElement), Sweep
    PROVE  /\ l' \in Seq(ListElement) /\ group' = [i \in 1 .. Len(l') |-> NULL]
           /\ \E m \in [1 .. Len(l') -> NotReferenced(refCount)] :
                 /\ \A k \in 1 .. Len(l') : l'[k] = l[m[k]]
                 /\ \A i, j \in 1 .. Len(l') : i < j => m[i] < m[j]
                 /\ \A i \in NotReferenced(refCount) : \E k \in 1 .. Len(l') : m[k] = i
<1> DEFINE N == Len(l)
           I == NotReferenced(refCount)
           left == InOrder(I)
<1>1. N \in Nat /\ DOMAIN l = 1 .. N
  OBVIOUS
<1>2. I \subseteq 1 .. N
  BY <1>1 DEF NotReferenced
<1>3. /\ left \in Seq(I) /\ ToSet(left) = I
      /\ \A i, j \in 1 .. Len(left) : i < j => left[i] < left[j]
  BY <1>2, InOrderIs
<1>4. l' = [k \in DOMAIN left |-> l[left[k]]] /\ group' = [i \in DOMAIN l' |-> NULL]
  BY DEF Sweep
<1> HIDE DEF N, I, left
<1>5. /\ DOMAIN left = 1 .. Len(left) /\ Len(left) \in Nat /\ left \in [1 .. Len(left) -> I]
      /\ \A i : i \in I <=> \E k \in 1 .. Len(left) : left[k] = i
  BY <1>3, SetOfSeq
<1>6. \A i \in I : l[i] \in ListElement
  BY <1>2 DEF N
<1>7. l' = [k \in 1 .. Len(left) |-> l[left[k]]]
  BY <1>4, <1>5
<1>8. l' \in Seq(ListElement) /\ Len(l') = Len(left) /\ \A k \in 1 .. Len(left) : l'[k] = l[left[k]]
  <2>1. \A k \in 1 .. Len(left) : l[left[k]] \in ListElement
    BY <1>5, <1>6
  <2>2. l' \in [1 .. Len(left) -> ListElement]
    BY <1>7, <2>1
  <2>3. \A k \in 1 .. Len(left) : l'[k] = l[left[k]]
    BY <1>7
  <2> QED
    BY <1>5, <2>2, <2>3
<1>9. group' = [i \in 1 .. Len(l') |-> NULL]
  <2>1. DOMAIN l' = 1 .. Len(l')
    BY <1>8
  <2> QED
    BY <1>4, <2>1
<1>10. /\ left \in [1 .. Len(l') -> I]
       /\ \A k \in 1 .. Len(l') : l'[k] = l[left[k]]
       /\ \A i, j \in 1 .. Len(l') : i < j => left[i] < left[j]
       /\ \A i \in I : \E k \in 1 .. Len(l') : left[k] = i
  BY <1>3, <1>5, <1>8
<1>11. \E m \in [1 .. Len(l') -> I] :
          /\ \A k \in 1 .. Len(l') : l'[k] = l[m[k]]
          /\ \A i, j \in 1 .. Len(l') : i < j => m[i] < m[j]
          /\ \A i \in I : \E k \in 1 .. Len(l') : m[k] = i
  BY <1>10
<1> QED
  BY <1>8, <1>9, <1>11 DEF I

LEMMA SweptIs ==
    ASSUME SenderInv, l \in Seq(ListElement), MarkInv(l, refCount, stack), Complete(l),
           option = "mark_and_sweep", Sweep
    PROVE  Swept(l')
<1> DEFINE N == Len(l)
           I == NotReferenced(refCount)
           r == Reached(Whole, Whole \cap Roots, Starts(Whole))
<1>1. snapshot \in Snapshots /\ sent \in Seq(HeaderType) /\ N \in Nat /\ DOMAIN l = 1 .. N
  BY DEF SenderInv
<1>2. PICK m \in [1 .. Len(l') -> I] :
          /\ \A k \in 1 .. Len(l') : l'[k] = l[m[k]]
          /\ \A i, j \in 1 .. Len(l') : i < j => m[i] < m[j]
          /\ \A i \in I : \E k \in 1 .. Len(l') : m[k] = i
  BY SweptPick
<1>3. \A i : i \in I <=> /\ i \in 1 .. N /\ refCount[i] = 0
                         /\ ~l[i].special /\ "mmap" \notin l[i].dataAttrib
  BY <1>1 DEF NotReferenced
<1>4. MarkInv(l, refCount, <<>>)
  BY DEF Sweep
<1>5. \A i \in 1 .. N : refCount[i] = 0 \/ refCount[i] = 1
  BY <1>4 DEF MarkInv
<1>6. Len(l') \in Nat /\ DOMAIN l' = 1 .. Len(l')
  <2>1. l' \in Seq(ListElement)
    BY SweptPick
  <2> QED
    BY <2>1
<1> HIDE DEF I, N, r
<1>7. Orderly(l) => Orderly(l')
  <2> SUFFICES ASSUME Orderly(l) PROVE Orderly(l')
    OBVIOUS
  <2>1. /\ \A i, j \in 1 .. N : i < j => l[i].addr <= l[j].addr
        /\ \A i, j \in 1 .. N : l[i].addr = l[j].addr => i = j \/ (l[i].special /\ l[j].special)
    BY <1>1 DEF Orderly, Ascending, N
  <2>2. \A k \in 1 .. Len(l') : m[k] \in 1 .. N /\ ~l[m[k]].special
    BY <1>2, <1>3
  <2>3. \A i, j \in 1 .. Len(l') : i < j => l'[i].addr <= l'[j].addr
    BY <1>2, <2>1, <2>2
  <2>4. \A i, j \in 1 .. Len(l') : l'[i].addr = l'[j].addr => i = j
    <3> SUFFICES ASSUME NEW i \in 1 .. Len(l'), NEW j \in 1 .. Len(l'), l'[i].addr = l'[j].addr
                 PROVE  i = j
      OBVIOUS
    <3>1. m[i] = m[j]
      BY <1>2, <2>1, <2>2
    <3>2. m[i] \in Nat /\ ~(m[i] < m[i])
      BY <1>1, <2>2
    <3>3. i < j \/ j < i \/ i = j
      BY <1>6
    <3> QED
      BY <1>2, <3>1, <3>2, <3>3
  <2> QED
    BY <1>6, <2>3, <2>4 DEF Orderly, Ascending
<1>8. ASSUME NoCollision PROVE Orderly(l') /\ Holding(l', Leaked)
  <2> DEFINE X == Reached(Headers, Roots, Pointers(Headers))
             D == {h \in Headers : Allocation(h)} \ X
  <2>1. Orderly(l) /\ Holding(l, Headers)
    BY <1>8 DEF Complete
  <2>2. Leaked = D
    BY DEF Leaked, Referenced
  <2> HIDE DEF X
  <2>3. ASSUME NEW h \in Headers, NEW i \in 1 .. N, l[i] = Elt(h), ~Root(h)
        PROVE  refCount[i] = 0 <=> h \notin X
    <3>1. refCount[i] = 1 <=> h \in X
      BY <1>1, <1>4, <1>8, <2>3, MarkedIsReached DEF N, X
    <3> QED
      BY <1>5, <3>1
  <2>4. Matches(l, I, D)
    BY <1>1, <2>1, <2>3, NotReferencedIs DEF N, I
  <2> HIDE DEF D
  <2>5. /\ \A i \in I : \E h \in D : l[i] = Elt(h)
        /\ \A h \in D : \E i \in I : l[i] = Elt(h)
    BY <2>4 DEF Matches
  <2>6. /\ \A k \in 1 .. Len(l') : \E h \in D : l'[k] = Elt(h)
        /\ \A h \in D : \E k \in 1 .. Len(l') : l'[k] = Elt(h)
    <3>1. ASSUME NEW k \in 1 .. Len(l') PROVE \E h \in D : l'[k] = Elt(h)
      <4>1. m[k] \in I /\ l'[k] = l[m[k]]
        BY <1>2
      <4> QED
        BY <2>5, <4>1
    <3>2. ASSUME NEW h \in D PROVE \E k \in 1 .. Len(l') : l'[k] = Elt(h)
      <4>1. PICK i \in I : l[i] = Elt(h)
        BY <2>5
      <4>2. PICK k \in 1 .. Len(l') : m[k] = i
        BY <1>2
      <4>3. l'[k] = l[i]
        BY <1>2, <4>2
      <4> QED
        BY <4>1, <4>3
    <3> QED
      BY <3>1, <3>2
  <2>7. Holding(l', D)
    BY <2>6 DEF Holding
  <2> QED
    BY <1>7, <2>1, <2>2, <2>7
<1>9. ASSUME StartApart, NEW k \in 1 .. Len(l'), l'[k].addr \in Addr(r)
      PROVE  FALSE
  <2>1. PICK h \in r : h.backtraces > 0 /\ l'[k].addr = h.addr
    BY <1>9 DEF Addr
  <2>2. Headers \subseteq HeaderType /\ IsFiniteSet(Headers) /\ Whole \subseteq Headers
    BY <1>1, SentHeaders DEF Whole
  <2>3. r \subseteq Whole
    <3>1. IsFiniteSet(Whole) /\ Whole \cap Roots \subseteq Whole /\ Starts(Whole) \subseteq Whole \X Whole
      BY <2>2, FS_Subset DEF Starts
    <3> QED
      BY <3>1, ReachedIs DEF r
  <2>4. h \in Headers /\ h \in HeaderType /\ ~Root(h) /\ h \notin Roots
    BY <2>1, <2>2, <2>3 DEF Root, Roots, THREAD, GLOBAL
  <2>5. Orderly(l) /\ \A b \in Headers \ Roots : \E i \in 1 .. N : l[i] = Elt(b)
    BY <1>9 DEF Complete, N
  <2>6. PICK i \in 1 .. N : l[i] = Elt(h)
    BY <2>4, <2>5
  <2>7. l[i].addr = h.addr /\ ~l[i].special
    BY <1>1, <2>4, <2>6, EltType
  <2>8. m[k] \in 1 .. N /\ l[m[k]].addr = h.addr /\ refCount[m[k]] = 0
    BY <1>2, <1>3, <2>1
  <2>9. m[k] = i
    BY <2>5, <2>7, <2>8 DEF Orderly, N
  <2>10. refCount[i] = 1
    BY <1>1, <1>4, <1>9, <2>1, <2>4, <2>6, MarkedFromWhole DEF r, N
  <2> QED
    BY <2>8, <2>9, <2>10
<1> QED
  BY <1>8, <1>9 DEF Swept, r

(* The components are what pointers connect among the headers that leaked. *)
Linked(headers) == Pointers(headers) \cup {<<p[2], p[1]>> : p \in Pointers(headers)}

LEMMA LinkedIs ==
    ASSUME NEW H
    PROVE  /\ Linked(H) \subseteq H \X H
           /\ \A b, c \in H : <<b, c>> \in Linked(H) <=> Refers(H, b, c) \/ Refers(H, c, b)
<1> DEFINE R == Pointers(H)
           Q == {<<p[2], p[1]>> : p \in R}
<1>1. /\ \A b, c \in H : <<b, c>> \in R <=> Refers(H, b, c)
      /\ \A p \in R : p[1] \in H /\ p[2] \in H /\ p = <<p[1], p[2]>>
  BY DEF Pointers
<1> HIDE DEF R
<1>2. \A b, c \in H : <<b, c>> \in Q <=> <<c, b>> \in R
  <2> SUFFICES ASSUME NEW b \in H, NEW c \in H PROVE <<b, c>> \in Q <=> <<c, b>> \in R
    OBVIOUS
  <2>1. ASSUME <<b, c>> \in Q PROVE <<c, b>> \in R
    <3>1. PICK p \in R : <<b, c>> = <<p[2], p[1]>>
      BY <2>1
    <3>2. p = <<c, b>>
      BY <1>1, <3>1
    <3> QED
      BY <3>2
  <2>2. ASSUME <<c, b>> \in R PROVE <<b, c>> \in Q
    <3>1. <<c, b>>[1] = c /\ <<c, b>>[2] = b
      OBVIOUS
    <3> QED
      BY <2>2, <3>1
  <2> QED
    BY <2>1, <2>2
<1>3. Linked(H) = R \cup Q
  BY DEF Linked, R
<1>4. R \subseteq H \X H /\ Q \subseteq H \X H
  BY <1>1
<1> QED
  BY <1>1, <1>2, <1>3, <1>4

LEMMA LeakedIs ==
    ASSUME sent \in Seq(HeaderType)
    PROVE  /\ Leaked \subseteq Headers /\ Leaked \subseteq HeaderType /\ IsFiniteSet(Leaked)
           /\ \A h \in Leaked : ~Root(h)
           /\ NoCollision => Separate(Leaked)
<1>1. Leaked \subseteq Headers /\ \A h \in Leaked : ~Root(h)
  BY DEF Leaked, Allocation
<1>2. Headers \subseteq HeaderType /\ IsFiniteSet(Headers)
  BY SentHeaders
<1>3. IsFiniteSet(Leaked)
  BY <1>1, <1>2, FS_Subset
<1>4. NoCollision => Separate(Leaked)
  BY <1>1 DEF NoCollision, Separate
<1> QED
  BY <1>1, <1>2, <1>3, <1>4

LEMMA ComponentIs ==
    ASSUME snapshot \in Snapshots, sent \in Seq(HeaderType), NoCollision, l \in Seq(ListElement),
           Orderly(l), Holding(l, Leaked), NEW i \in 1 .. Len(l), NEW h \in Leaked, l[i] = Elt(h)
    PROVE  Written(Component(i)) = Addr(Reached(Leaked, {h}, Linked(Leaked)))
<1> DEFINE N == Len(l)
           H == Leaked
           R == Linked(H)
           r == Reached(H, {h}, R)
<1>1. /\ H \subseteq HeaderType /\ IsFiniteSet(H) /\ Separate(H) /\ \A b \in H : ~Root(b)
  BY LeakedIs
<1>2. R \subseteq H \X H /\ \A b, c \in H : <<b, c>> \in R <=> Refers(H, b, c) \/ Refers(H, c, b)
  BY LinkedIs
<1>3. \A p \in R : p = <<p[1], p[2]>> /\ p[1] \in H /\ p[2] \in H
  BY <1>2
<1>4. {h} \subseteq H
  OBVIOUS
<1>5. /\ r \subseteq H /\ h \in r /\ Closed(R, r)
      /\ \A S : h \in S /\ Closed(R, S) => r \subseteq S
  BY <1>1, <1>2, <1>4, ReachedIs
<1>6. /\ \A k \in 1 .. N : \E b \in H : l[k] = Elt(b)
      /\ \A b \in H : \E k \in 1 .. N : l[k] = Elt(b)
  BY DEF Holding
<1>7. \A j, k \in 1 .. N : \A b, c \in H : l[j] = Elt(b) /\ l[k] = Elt(c) =>
          (k \in ToSet(RefsOf(l, j)) <=> Refers(H, b, c))
  BY <1>1, PointsTo
<1>8. \A b, c \in H : Elt(b) = Elt(c) => b = c
  BY <1>1, SameElement
<1>9. \A j, k \in 1 .. N : l[j] = l[k] => j = k
  <2> SUFFICES ASSUME NEW j \in 1 .. N, NEW k \in 1 .. N, l[j] = l[k] PROVE j = k
    OBVIOUS
  <2>1. PICK b \in H : l[j] = Elt(b)
    BY <1>6
  <2>2. b \in HeaderType /\ ~Root(b)
    BY <1>1
  <2>3. ~l[j].special
    BY <2>1, <2>2, EltType
  <2> QED
    BY <2>3 DEF Orderly
<1> HIDE DEF N, H, R, r
<1>10. ASSUME NEW j \in 1 .. N, NEW c \in H, l[j] = Elt(c), Connected(l, i, j)
       PROVE  c \in r
  <2> DEFINE S == {k \in 1 .. N : \E b \in r : l[k] = Elt(b)}
  <2>1. BothWays(l, S)
    <3> SUFFICES ASSUME NEW p \in 1 .. N, NEW q \in ToSet(RefsOf(l, p)) PROVE p \in S <=> q \in S
      BY DEF BothWays, N
    <3>1. q \in 1 .. N
      BY RefsType DEF N
    <3>2. PICK b \in H : l[p] = Elt(b)
      BY <1>6
    <3>3. PICK d \in H : l[q] = Elt(d)
      BY <1>6, <3>1
    <3>4. <<b, d>> \in R /\ <<d, b>> \in R
      BY <1>2, <1>7, <3>1, <3>2, <3>3
    <3>5. <<b, d>>[1] = b /\ <<b, d>>[2] = d /\ <<d, b>>[1] = d /\ <<d, b>>[2] = b
      OBVIOUS
    <3>6. b \in r <=> d \in r
      BY <1>5, <3>4, <3>5 DEF Closed
    <3>7. p \in S <=> b \in r
      BY <1>5, <1>8, <3>2
    <3>8. q \in S <=> d \in r
      BY <1>5, <1>8, <3>1, <3>3
    <3> QED
      BY <3>6, <3>7, <3>8
  <2>2. S \in SUBSET (1 .. N)
    OBVIOUS
  <2>3. i \in S
    BY <1>5 DEF N
  <2> HIDE DEF S
  <2>4. j \in S
    BY <1>10, <2>1, <2>2, <2>3 DEF Connected, N
  <2>5. PICK b \in r : l[j] = Elt(b)
    BY <2>4 DEF S
  <2> QED
    BY <1>5, <1>8, <1>10, <2>5
<1>11. ASSUME NEW c \in r
       PROVE  \E j \in 1 .. N : l[j] = Elt(c) /\ Connected(l, i, j)
  <2> DEFINE B == {b \in H : \E j \in 1 .. N : l[j] = Elt(b) /\ Connected(l, i, j)}
  <2>1. h \in B
    BY ConnectedIs DEF H, N
  <2>2. Closed(R, B)
    <3> SUFFICES ASSUME NEW p \in R, p[1] \in B PROVE p[2] \in B
      BY DEF Closed
    <3> DEFINE b == p[1]
               d == p[2]
    <3>1. b \in H /\ d \in H /\ <<b, d>> \in R
      BY <1>3
    <3>2. PICK j \in 1 .. N : l[j] = Elt(b) /\ Connected(l, i, j)
      OBVIOUS
    <3>3. PICK k \in 1 .. N : l[k] = Elt(d)
      BY <1>6, <3>1
    <3> HIDE DEF b, d
    <3>4. k \in ToSet(RefsOf(l, j)) \/ j \in ToSet(RefsOf(l, k))
      BY <1>2, <1>7, <3>1, <3>2, <3>3
    <3>5. Connected(l, j, k)
      BY <3>4, ConnectedIs DEF N
    <3>6. Connected(l, i, k)
      BY <3>2, <3>5, ConnectedIs
    <3>7. d \in B
      BY <3>1, <3>3, <3>6
    <3> QED
      BY <3>7 DEF d
  <2> HIDE DEF B
  <2>3. c \in B
    BY <1>5, <2>1, <2>2
  <2> QED
    BY <2>3 DEF B
<1>12. Matches(l, Component(i), r)
  <2>1. \A j : j \in Component(i) <=> j \in 1 .. N /\ Connected(l, i, j)
    BY DEF Component, N
  <2>2. ASSUME NEW j \in Component(i) PROVE \E c \in r : l[j] = Elt(c)
    <3>1. j \in 1 .. N /\ Connected(l, i, j)
      BY <2>1
    <3>2. PICK c \in H : l[j] = Elt(c)
      BY <1>6, <3>1
    <3> QED
      BY <1>10, <3>1, <3>2
  <2>3. ASSUME NEW c \in r PROVE \E j \in Component(i) : l[j] = Elt(c)
    BY <1>11, <2>1
  <2> QED
    BY <2>2, <2>3 DEF Matches
<1>13. r \subseteq HeaderType
  BY <1>1, <1>5
<1> QED
  BY <1>12, <1>13, WrittenIs DEF r, R, H

LEMMA GroupsReported ==
    ASSUME SenderInv, SplitInv, Swept(l)
    PROVE  LET written == {Written(Component(i)) : i \in 1 .. Len(l)} \ {{}}
           IN  /\ NoCollision => /\ UNION written = Addr(Leaked)
                                 /\ written = {Addr(Reached(Leaked, {h}, Linked(Leaked))) : h \in Leaked} \ {{}}
               /\ StartApart => (UNION written) \cap Addr(Reached(Whole, Whole \cap Roots, Starts(Whole))) = {}
<1> DEFINE N == Len(l)
           written == {Written(Component(i)) : i \in 1 .. N} \ {{}}
           x == Addr(Reached(Whole, Whole \cap Roots, Starts(Whole)))
<1>1. snapshot \in Snapshots /\ sent \in Seq(HeaderType) /\ l \in Seq(ListElement)
  BY DEF SenderInv, SplitInv, SplitType
<1>2. \A i \in 1 .. N : i \in Component(i) /\ Component(i) \subseteq 1 .. N
  BY ConnectedIs DEF Component
<1> HIDE DEF N
<1>3. UNION written = Written(1 .. N)
  <2>1. ASSUME NEW a \in UNION written PROVE a \in Written(1 .. N)
    <3>1. PICK i \in 1 .. N : a \in Written(Component(i))
      OBVIOUS
    <3> QED
      BY <1>2, <3>1 DEF Written
  <2>2. ASSUME NEW a \in Written(1 .. N) PROVE a \in UNION written
    <3>1. PICK i \in 1 .. N : l[i].backtraces /\ a = l[i].addr
      BY DEF Written
    <3>2. a \in Written(Component(i))
      BY <1>2, <3>1 DEF Written
    <3> QED
      BY <3>2
  <2> QED
    BY <2>1, <2>2
<1>4. ASSUME StartApart PROVE (UNION written) \cap x = {}
  <2>1. \A i \in 1 .. N : l[i].addr \notin x
    BY <1>4 DEF Swept, N
  <2> HIDE DEF x, written
  <2>2. \A a \in Written(1 .. N) : a \notin x
    BY <2>1 DEF Written
  <2> QED
    BY <1>3, <2>2
<1>5. ASSUME NoCollision
      PROVE  UNION written = Addr(Leaked)
  <2>1. Holding(l, Leaked)
    BY <1>5 DEF Swept
  <2>2. Matches(l, 1 .. N, Leaked)
    BY <2>1 DEF Holding, Matches, N
  <2>3. Written(1 .. N) = Addr(Leaked)
    BY <1>1, <2>2, LeakedIs, WrittenIs
  <2> QED
    BY <1>3, <2>3
<1>6. ASSUME NoCollision
      PROVE  written = {Addr(Reached(Leaked, {h}, Linked(Leaked))) : h \in Leaked} \ {{}}
  <2> DEFINE Y(h) == Addr(Reached(Leaked, {h}, Linked(Leaked)))
             Z(i) == Written(Component(i))
  <2>1. Orderly(l) /\ Holding(l, Leaked)
    BY <1>6 DEF Swept
  <2>2. /\ \A k \in 1 .. N : \E b \in Leaked : l[k] = Elt(b)
        /\ \A b \in Leaked : \E k \in 1 .. N : l[k] = Elt(b)
    BY <2>1 DEF Holding, N
  <2>3. \A i \in 1 .. N : \A h \in Leaked : l[i] = Elt(h) => Z(i) = Y(h)
    BY <1>1, <1>6, <2>1, ComponentIs DEF N
  <2> HIDE DEF Y, Z
  <2>4. \A i \in 1 .. N : \E h \in Leaked : Z(i) = Y(h)
    BY <2>2, <2>3
  <2>5. \A h \in Leaked : \E i \in 1 .. N : Z(i) = Y(h)
    BY <2>2, <2>3
  <2>6. {Z(i) : i \in 1 .. N} = {Y(h) : h \in Leaked}
    BY <2>4, <2>5
  <2> QED
    BY <2>6 DEF Y, Z
<1> QED
  BY <1>4, <1>5, <1>6 DEF N

-----------------------------------------------------------------------------
(* The sender is done when the reader begins, and what the properties say  *)
(* of the headers does not change any more.                                *)
LEMMA SenderDone ==
    ASSUME SenderInv, pc \in {"end", "killed"}, Next
    PROVE  UNCHANGED <<snapshot, client, sent, stream>> /\ pc' \in {"end", "killed"}
<1>1. out = <<>> \/ ~client
  BY DEF SenderInv
<1>2. CASE SendSome
  BY <1>1, <1>2 DEF SendSome
<1>3. CASE SendLost \/ Killed
  BY <1>3 DEF SendLost, Killed
<1>4. CASE HangUp
  BY <1>4 DEF HangUp
<1>5. ~Child
  BY DEF Child, Sends, NotifyChunk, WalkEnds, ParseMaps, SendStack, StacksEnd, SendData, SendBss, Finish
<1> QED
  BY <1>2, <1>3, <1>4, <1>5 DEF Next, Sending

LEMMA HeadersKept ==
    ASSUME UNCHANGED <<snapshot, sent>>
    PROVE  /\ Headers' = Headers /\ Roots' = Roots /\ Whole' = Whole
           /\ (NoCollision' <=> NoCollision) /\ (StartApart' <=> StartApart)
           /\ (RootsShrink' <=> RootsShrink)
           /\ \A h : Elt(h)' = Elt(h) /\ Words(h)' = Words(h)
<1>1. Headers' = Headers
  BY DEF Headers
<1>2. Roots' = Roots
  BY <1>1 DEF Roots
<1>3. Whole' = Whole
  BY <1>1 DEF Whole
<1>4. NoCollision' <=> NoCollision
  BY <1>1 DEF NoCollision
<1>5. StartApart' <=> StartApart
  BY <1>1, <1>2 DEF StartApart
<1>6. RootsShrink' <=> RootsShrink
  BY <1>1, <1>2 DEF RootsShrink
<1>7. \A a : Word(a)' = Word(a)
  BY DEF Word
<1>8. \A h : Elt(h)' = Elt(h)
  BY <1>7 DEF Elt, HeapElement
<1>9. \A h : Words(h)' = Words(h)
  BY <1>7 DEF Words
<1> QED
  BY <1>1, <1>2, <1>3, <1>4, <1>5, <1>6, <1>8, <1>9

LEMMA CompleteKept ==
    ASSUME UNCHANGED <<snapshot, sent>>, Complete(l')
    PROVE  Complete(l)'
<1>1. /\ Headers' = Headers /\ Roots' = Roots /\ Whole' = Whole
      /\ (NoCollision' <=> NoCollision) /\ (StartApart' <=> StartApart)
      /\ \A h : Elt(h)' = Elt(h) /\ Words(h)' = Words(h)
  BY HeadersKept
<1>2. \A H : (\A i \in 1 .. Len(l') : \E h \in H : l'[i] = Elt(h)') <=>
             (\A i \in 1 .. Len(l') : \E h \in H : l'[i] = Elt(h))
  BY <1>1
<1>3. \A H : (\A h \in H : \E i \in 1 .. Len(l') : l'[i] = Elt(h)') <=>
             (\A h \in H : \E i \in 1 .. Len(l') : l'[i] = Elt(h))
  BY <1>1
<1>4. \A i \in 1 .. Len(l') : (\E h \in Headers \ Roots : l'[i] = Elt(h)') <=>
                              (\E h \in Headers \ Roots : l'[i] = Elt(h))
  BY <1>1
<1>5. \A r, i : Covers(l'[i], r.addr, Words(r)') <=> Covers(l'[i], r.addr, Words(r))
  BY <1>1
<1> QED
  BY <1>1, <1>2, <1>3, <1>4, <1>5 DEF Complete, Holding

LEMMA LeakedKept ==
    ASSUME UNCHANGED <<snapshot, sent, option>>
    PROVE  Leaked' = Leaked /\ Starts(Whole)' = Starts(Whole) /\ Linked(Leaked)' = Linked(Leaked)
<1>1. /\ Headers' = Headers /\ Roots' = Roots /\ Whole' = Whole
      /\ \A h : Words(h)' = Words(h)
  BY HeadersKept
<1>2. \A H, a, b : Refers(H, a, b)' <=> Refers(H, a, b)
  BY <1>1 DEF Refers
<1>3. \A H : Pointers(H)' = Pointers(H)
  BY <1>2 DEF Pointers
<1>4. Pointers(Headers)' = Pointers(Headers)
  BY <1>1, <1>2 DEF Pointers
<1>5. Leaked' = Leaked
  BY <1>1, <1>4 DEF Leaked, Referenced
<1>6. Pointers(Leaked)' = Pointers(Leaked)
  BY <1>2, <1>5 DEF Pointers
<1>7. Starts(Whole)' = Starts(Whole)
  BY <1>1 DEF Starts
<1>8. Linked(Leaked)' = Linked(Leaked)
  BY <1>6 DEF Linked
<1> QED
  BY <1>5, <1>7, <1>8

LEMMA SweptKept ==
    ASSUME UNCHANGED <<snapshot, sent, option>>, Swept(l')
    PROVE  Swept(l)'
<1>1. /\ Headers' = Headers /\ Roots' = Roots /\ Whole' = Whole
      /\ (NoCollision' <=> NoCollision) /\ (StartApart' <=> StartApart)
      /\ \A h : Elt(h)' = Elt(h)
  BY HeadersKept
<1>2. Leaked' = Leaked /\ Starts(Whole)' = Starts(Whole)
  BY LeakedKept
<1>3. \A i \in 1 .. Len(l') : (\E h \in Leaked : l'[i] = Elt(h)') <=>
                              (\E h \in Leaked : l'[i] = Elt(h))
  BY <1>1
<1>4. \A h \in Leaked : (\E i \in 1 .. Len(l') : l'[i] = Elt(h)') <=>
                        (\E i \in 1 .. Len(l') : l'[i] = Elt(h))
  BY <1>1
<1> QED
  BY <1>1, <1>2, <1>3, <1>4 DEF Swept, Holding

-----------------------------------------------------------------------------
(* The invariant of the reader, phase by phase.                            *)
Waiting ==
    /\ l = <<>> /\ refCount = <<>> /\ stack = <<>> /\ report = {}
    /\ group = <<>> /\ groups_1 = <<>> /\ alias_set = <<>> /\ sets = <<>>

NoGroups == groups_1 = <<>> /\ alias_set = <<>> /\ sets = <<>>

HaveRead ==
    /\ l \in Seq(ListElement) /\ (client => Complete(l))
    /\ stack = <<>> /\ NoGroups

Marked ==
    /\ l \in Seq(ListElement) /\ (client => Complete(l)) /\ NoGroups
    /\ option = "mark_and_sweep" /\ MarkInv(l, refCount, stack)

Splitting == option = "mark_and_sweep" /\ SplitInv /\ (client => Swept(l))

Ended ==
    /\ stack = <<>>
    /\ \A g \in DOMAIN groups_1 : alias_set[g] # NULL => g \in sets[alias_set[g]]

ReadInv ==
    /\ phase \in {"wait", "read", "mark", "split", "end", "raised"}
    /\ phase # "wait" => pc \in {"end", "killed"}
    /\ phase = "wait" => Waiting
    /\ phase = "read" => HaveRead
    /\ phase = "mark" => Marked
    /\ phase = "split" => Splitting
    /\ phase \in {"end", "raised"} => Ended /\ LeaksReported /\ GroupsConnected

LEMMA ReadInvInit == AnalysisInit => ReadInv
  BY DEF AnalysisInit, ReadInv, Waiting

LEMMA SplitTyped ==
    ASSUME SplitType
    PROVE  /\ ToSet(stack) \subseteq DOMAIN l
           /\ \A g \in DOMAIN groups_1 : alias_set[g] # NULL => g \in sets[alias_set[g]]
<1>1. /\ l \in Seq(ListElement) /\ stack \in Seq(1 .. Len(l)) /\ groups_1 \in Seq(Seq(1 .. Len(l)))
      /\ Len(alias_set) = Len(groups_1) /\ AliasInv(alias_set, sets)
  BY DEF SplitType
<1>2. DOMAIN l = 1 .. Len(l) /\ DOMAIN groups_1 = 1 .. Len(groups_1)
  BY <1>1
<1>3. ToSet(stack) \subseteq 1 .. Len(l)
  BY <1>1, SetOfSeq
<1> QED
  BY <1>1, <1>2, <1>3 DEF AliasInv

LEMMA ReadInvTyped ==
    ASSUME SenderInv, ReadInv
    PROVE  AnalysisTypeOK
<1>1. TypeOK
  BY SenderTyped
<1>2. ToSet(<<>>) = {}
  BY DEF ToSet
<1>3. CASE phase \in {"wait", "read", "end", "raised"}
  BY <1>1, <1>2, <1>3 DEF ReadInv, AnalysisTypeOK, Waiting, HaveRead, NoGroups, Ended
<1>4. CASE phase = "mark"
  <2>1. l \in Seq(ListElement) /\ groups_1 = <<>> /\ stack \in Seq(1 .. Len(l))
    BY <1>4 DEF ReadInv, Marked, MarkInv, NoGroups
  <2>2. ToSet(stack) \subseteq 1 .. Len(l) /\ DOMAIN l = 1 .. Len(l)
    BY <2>1, SetOfSeq
  <2> QED
    BY <1>1, <1>4, <2>1, <2>2 DEF AnalysisTypeOK
<1>5. CASE phase = "split"
  <2>1. SplitType
    BY <1>5 DEF ReadInv, Splitting, SplitInv
  <2> QED
    BY <1>1, <1>5, <2>1, SplitTyped DEF AnalysisTypeOK
<1> QED
  BY <1>3, <1>4, <1>5 DEF ReadInv

LEMMA StillThere ==
    ASSUME UNCHANGED vars
    PROVE  UNCHANGED <<snapshot, client, pc, sent, stream>>
  BY DEF vars

LEMMA StreamReads ==
    ASSUME SenderInv, ReadInv, [Next]_vars, UNCHANGED analysisVars
    PROVE  ReadInv'
<1>1. UNCHANGED <<phase, option, l, refCount, stack, group, groups_1, alias_set, sets, report>>
  BY DEF analysisVars, graph, split
<1>2. CASE phase = "wait"
  BY <1>1, <1>2 DEF ReadInv, Waiting
<1>3. CASE phase # "wait"
  <2>1. UNCHANGED <<snapshot, client, sent, stream>> /\ pc' \in {"end", "killed"}
    BY <1>3, SenderDone, StillThere DEF ReadInv
  <2>2. phase = "read" => HaveRead'
    <3> SUFFICES ASSUME HaveRead PROVE HaveRead'
      BY DEF ReadInv
    <3>1. client => Complete(l)'
      BY <1>1, <2>1, CompleteKept DEF HaveRead
    <3> QED
      BY <1>1, <2>1, <3>1 DEF HaveRead, NoGroups
  <2>3. phase = "mark" => Marked'
    <3> SUFFICES ASSUME Marked PROVE Marked'
      BY DEF ReadInv
    <3>1. client => Complete(l)'
      BY <1>1, <2>1, CompleteKept DEF Marked
    <3> QED
      BY <1>1, <2>1, <3>1 DEF Marked, NoGroups
  <2>4. phase = "split" => Splitting'
    <3> SUFFICES ASSUME Splitting PROVE Splitting'
      BY DEF ReadInv
    <3>1. client => Swept(l)'
      BY <1>1, <2>1, SweptKept DEF Splitting
    <3>2. SplitInv'
      BY <1>1 DEF Splitting, SplitInv, SplitType, Joined, Searched, Begun, Followed, current_grp_index
    <3> QED
      BY <1>1, <2>1, <3>1, <3>2 DEF Splitting
  <2>5. phase \in {"end", "raised"} => Ended' /\ LeaksReported' /\ GroupsConnected'
    <3> SUFFICES ASSUME Ended, LeaksReported, GroupsConnected
                 PROVE  Ended' /\ LeaksReported' /\ GroupsConnected'
      BY DEF ReadInv
    <3>1. Ended'
      BY <1>1 DEF Ended
    <3>2. /\ Headers' = Headers /\ Roots' = Roots /\ Whole' = Whole
          /\ (NoCollision' <=> NoCollision) /\ (RootsShrink' <=> RootsShrink)
          /\ Leaked' = Leaked /\ Starts(Whole)' = Starts(Whole)
      BY <1>1, <2>1, HeadersKept, LeakedKept
    <3>3. LeaksReported'
      BY <1>1, <2>1, <3>2 DEF LeaksReported
    <3>4. Linked(Leaked)' = Linked(Leaked)
      BY <1>1, <2>1, LeakedKept
    <3>5. GroupsConnected'
      BY <1>1, <2>1, <3>2, <3>4 DEF GroupsConnected, Linked
    <3> QED
      BY <3>1, <3>3, <3>5
  <2> QED
    BY <1>1, <1>3, <2>1, <2>2, <2>3, <2>4, <2>5 DEF ReadInv
<1> QED
  BY <1>2, <1>3

LEMMA ReadFileKeeps ==
    ASSUME SenderInv, FrameInv, SentInv, ReadInv, ReadFile, UNCHANGED vars
    PROVE  ReadInv'
<1>1. /\ phase = "wait" /\ pc \in {"end", "killed"}
      /\ UNCHANGED <<stack, group, groups_1, alias_set, sets, report>>
  BY DEF ReadFile, split
<1>2. Waiting /\ UNCHANGED <<snapshot, client, pc, sent, stream>>
  BY <1>1, StillThere DEF ReadInv
<1>3. CASE /\ phase' = "raised" /\ UNCHANGED <<option, l, refCount>>
           /\ RootsShrink => ParseError \in ToSet(parse(stream))
  <2>1. Ended'
    BY <1>1, <1>2 DEF Ended, Waiting
  <2>2. (RootsShrink => ParseError \in ToSet(parse(stream)))'
    <3>1. RootsShrink' <=> RootsShrink
      BY <1>2, HeadersKept
    <3> QED
      BY <1>2, <1>3, <3>1
  <2>3. LeaksReported' /\ GroupsConnected'
    BY <1>3, <2>2 DEF LeaksReported, GroupsConnected
  <2> QED
    BY <1>1, <1>2, <1>3, <2>1, <2>3 DEF ReadInv
<1>4. CASE phase' = "read" /\ l' \in Seq(ListElement) /\ (client => Complete(l'))
  <2>1. client => Complete(l)'
    BY <1>2, <1>4, CompleteKept
  <2>2. HaveRead'
    BY <1>1, <1>2, <1>4, <2>1 DEF HaveRead, Waiting, NoGroups
  <2> QED
    BY <1>1, <1>2, <1>4, <2>2 DEF ReadInv
<1> QED
  BY <1>3, <1>4, ReadFileReads

LEMMA ZeroKeeps ==
    ASSUME SenderInv, ReadInv, AnalyzeZeroRef, UNCHANGED vars
    PROVE  ReadInv'
<1>1. /\ phase = "read" /\ option = "zero" /\ phase' = "end"
      /\ UNCHANGED <<option, l, stack, group, groups_1, alias_set, sets>>
  BY DEF AnalyzeZeroRef, split
<1>2. HaveRead /\ pc \in {"end", "killed"} /\ UNCHANGED <<snapshot, client, pc, sent, stream>>
  BY <1>1, StillThere DEF ReadInv
<1>3. Ended'
  BY <1>1, <1>2 DEF Ended, HaveRead, NoGroups
<1>4. client /\ NoCollision => UNION report' = Addr(Leaked)
  BY <1>2, ZeroCounted DEF HaveRead
<1>5. (NoCollision' <=> NoCollision) /\ Leaked' = Leaked
  BY <1>1, <1>2, HeadersKept, LeakedKept
<1>6. LeaksReported' /\ GroupsConnected'
  BY <1>1, <1>2, <1>4, <1>5 DEF LeaksReported, GroupsConnected
<1> QED
  BY <1>1, <1>2, <1>3, <1>6 DEF ReadInv

LEMMA MarkRootsKeeps ==
    ASSUME SenderInv, ReadInv, MarkRoots, UNCHANGED vars
    PROVE  ReadInv'
<1>1. /\ phase = "read" /\ option = "mark_and_sweep" /\ phase' = "mark"
      /\ UNCHANGED <<option, l, group, groups_1, alias_set, sets>>
  BY DEF MarkRoots, split
<1>2. HaveRead /\ pc \in {"end", "killed"} /\ UNCHANGED <<snapshot, client, pc, sent, stream>>
  BY <1>1, StillThere DEF ReadInv
<1>3. l \in Seq(ListElement) /\ (client => Complete(l)) /\ NoGroups
  BY <1>2 DEF HaveRead
<1>4. MarkInv(l', refCount', stack')
  BY <1>1, <1>3, RootsMarked
<1>5. client => Complete(l)'
  BY <1>1, <1>2, <1>3, CompleteKept
<1>6. Marked'
  BY <1>1, <1>2, <1>3, <1>4, <1>5 DEF Marked, NoGroups
<1> QED
  BY <1>1, <1>2, <1>6 DEF ReadInv

LEMMA MarkKeeps ==
    ASSUME SenderInv, ReadInv, Mark, UNCHANGED vars
    PROVE  ReadInv'
<1>1. phase = "mark" /\ UNCHANGED <<phase, option, l, group, groups_1, alias_set, sets>>
  BY DEF Mark, split
<1>2. Marked /\ pc \in {"end", "killed"} /\ UNCHANGED <<snapshot, client, pc, sent, stream>>
  BY <1>1, StillThere DEF ReadInv
<1>3. /\ l \in Seq(ListElement) /\ (client => Complete(l)) /\ NoGroups
      /\ option = "mark_and_sweep" /\ MarkInv(l, refCount, stack)
  BY <1>2 DEF Marked
<1>4. MarkInv(l', refCount', stack')
  BY <1>1, <1>3, MarkMarks
<1>5. client => Complete(l)'
  BY <1>1, <1>2, <1>3, CompleteKept
<1>6. Marked'
  BY <1>1, <1>2, <1>3, <1>4, <1>5 DEF Marked, NoGroups
<1> QED
  BY <1>1, <1>2, <1>6 DEF ReadInv

LEMMA SweepKeeps ==
    ASSUME SenderInv, ReadInv, Sweep, UNCHANGED vars
    PROVE  ReadInv'
<1>1. /\ phase = "mark" /\ stack = <<>> /\ phase' = "split"
      /\ UNCHANGED <<option, stack, groups_1, alias_set, sets>>
  BY DEF Sweep
<1>2. Marked /\ pc \in {"end", "killed"} /\ UNCHANGED <<snapshot, client, pc, sent, stream>>
  BY <1>1, StillThere DEF ReadInv
<1>3. /\ l \in Seq(ListElement) /\ (client => Complete(l)) /\ NoGroups
      /\ option = "mark_and_sweep" /\ MarkInv(l, refCount, stack)
  BY <1>2 DEF Marked
<1>4. l' \in Seq(ListElement) /\ group' = [i \in 1 .. Len(l') |-> NULL]
  BY <1>3, SweptPick
<1>5. SplitInv'
  <2>1. ToSet(<<>>) = {} /\ AliasInv(<<>>, <<>>)
    BY DEF ToSet, AliasInv
  <2>2. stack' = <<>> /\ groups_1' = <<>> /\ alias_set' = <<>> /\ sets' = <<>>
    BY <1>1, <1>3 DEF NoGroups
  <2>3. \A i \in 1 .. Len(l') : group'[i] = NULL
    BY <1>4
  <2>4. SplitType'
    BY <1>4, <2>1, <2>2 DEF SplitType, NULL
  <2> QED
    BY <2>1, <2>2, <2>3, <2>4 DEF SplitInv, Joined, Searched, Begun, Followed, NULL
<1>6. client => Swept(l)'
  <2>1. client => Swept(l')
    BY <1>3, SweptIs
  <2> QED
    BY <1>1, <1>2, <2>1, SweptKept
<1>7. Splitting'
  BY <1>1, <1>2, <1>3, <1>5, <1>6 DEF Splitting
<1> QED
  BY <1>1, <1>2, <1>7 DEF ReadInv

LEMMA SplitKeeps ==
    ASSUME SenderInv, ReadInv, NewGroup \/ Visit \/ Meet, UNCHANGED vars
    PROVE  ReadInv'
<1>1. phase = "split" /\ UNCHANGED <<phase, option, l>>
  BY DEF NewGroup, Visit, Meet
<1>2. Splitting /\ pc \in {"end", "killed"} /\ UNCHANGED <<snapshot, client, pc, sent, stream>>
  BY <1>1, StillThere DEF ReadInv
<1>3. SplitInv'
  BY <1>2, GroupBegins, VisitGroups, MeetMerges DEF Splitting
<1>4. client => Swept(l)'
  BY <1>1, <1>2, SweptKept DEF Splitting
<1>5. Splitting'
  BY <1>1, <1>2, <1>3, <1>4 DEF Splitting
<1> QED
  BY <1>1, <1>2, <1>5 DEF ReadInv

LEMMA MergeKeeps ==
    ASSUME SenderInv, ReadInv, Merge, UNCHANGED vars
    PROVE  ReadInv'
<1>1. /\ phase = "split" /\ stack = <<>>
      /\ UNCHANGED <<option, l, stack, group, groups_1, alias_set, sets>>
  BY DEF Merge, graph, split
<1>2. Splitting /\ pc \in {"end", "killed"} /\ UNCHANGED <<snapshot, client, pc, sent, stream>>
  BY <1>1, StillThere DEF ReadInv
<1>3. SplitInv /\ (client => Swept(l))
  BY <1>2 DEF Splitting
<1>4. phase' = "end" /\ report' = {Written(Component(i)) : i \in 1 .. Len(l)} \ {{}}
  BY <1>3, MergeReports
<1>5. Ended'
  <2>1. \A g \in DOMAIN groups_1 : alias_set[g] # NULL => g \in sets[alias_set[g]]
    BY <1>3, SplitTyped DEF SplitInv
  <2> QED
    BY <1>1, <2>1 DEF Ended
<1>6. client =>
         /\ NoCollision => /\ UNION report' = Addr(Leaked)
                           /\ report' = {Addr(Reached(Leaked, {h}, Linked(Leaked))) : h \in Leaked} \ {{}}
         /\ StartApart => (UNION report') \cap Addr(Reached(Whole, Whole \cap Roots, Starts(Whole))) = {}
  BY <1>3, <1>4, GroupsReported
<1>7. /\ Headers' = Headers /\ Roots' = Roots /\ Whole' = Whole
      /\ (NoCollision' <=> NoCollision) /\ (StartApart' <=> StartApart)
      /\ Leaked' = Leaked /\ Starts(Whole)' = Starts(Whole) /\ Linked(Leaked)' = Linked(Leaked)
  BY <1>1, <1>2, HeadersKept, LeakedKept
<1>8. LeaksReported'
  BY <1>2, <1>4, <1>6, <1>7 DEF LeaksReported, StartApart
<1>9. GroupsConnected'
  BY <1>2, <1>4, <1>6, <1>7 DEF GroupsConnected, Linked
<1> QED
  BY <1>1, <1>2, <1>4, <1>5, <1>8, <1>9 DEF ReadInv

LEMMA ReadAlways == AnalysisSpec => [](SenderInv /\ ReadInv)
<1>1. ASSUME SenderInv, FrameInv, SentInv, ReadInv, [AnalysisNext]_<<vars, analysisVars>>
      PROVE  ReadInv'
  <2>1. CASE Stream
    BY <1>1, <2>1, StreamReads DEF Stream
  <2>2. CASE Analyze
    <3>1. UNCHANGED vars
      BY <2>2 DEF Analyze
    <3> QED
      BY <1>1, <2>2, <3>1, ReadFileKeeps, ZeroKeeps, MarkRootsKeeps, MarkKeeps, SweepKeeps,
         SplitKeeps, MergeKeeps DEF Analyze
  <2>3. CASE UNCHANGED <<vars, analysisVars>>
    BY <1>1, <2>3, StreamReads
  <2> QED
    BY <1>1, <2>1, <2>2, <2>3 DEF AnalysisNext
<1> QED
  BY <1>1, ReadInvInit, SenderAlways, SentAlways, PTL DEF AnalysisSpec

(* Whatever the file, the reader's lists and indices stay in range, and    *)
(* every group with an alias set is in it.                                 *)
THEOREM AnalysisTypeCorrect == AnalysisSpec => []AnalysisTypeOK
<1>1. SenderInv /\ ReadInv => AnalysisTypeOK
  BY ReadInvTyped
<1> QED
  BY <1>1, ReadAlways, PTL

(* A complete file leads to a report of just the allocations that nothing  *)
(* points to, or that no stack and no global variable reaches; and where   *)
(* roots and allocations overlap, of none that other roots reach.          *)
THEOREM LeaksFound == AnalysisSpec => []LeaksReported
<1>1. ReadInv => LeaksReported
  BY DEF ReadInv, LeaksReported
<1> QED
  BY <1>1, ReadAlways, PTL

(* The reader gives up only on a file that is cut or because of an         *)
(* allocation on a root's first page, never when it merges groups; and the *)
(* groups are the components of what leaked.                               *)
THEOREM GroupsFound == AnalysisSpec => []GroupsConnected
<1>1. ReadInv => GroupsConnected
  BY DEF ReadInv, GroupsConnected
<1> QED
  BY <1>1, ReadAlways, PTL
=============================================================================
