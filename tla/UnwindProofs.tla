---------------------------- MODULE UnwindProofs ----------------------------
(***************************************************************************)
(* A backtrace stays inside its record, and the unwinder inside the table  *)
(* and the instructions of an entry, for every program, table, stack and   *)
(* size of record; and the backtrace is that of the calls in progress.     *)
(***************************************************************************)
EXTENDS UnwindFrames, SequenceTheorems, FiniteSetTheorems, WellFoundedInduction, TLAPS

(* What is written is a sequence, whatever the addresses are.              *)
IsSequence(s) == s \in Seq(ToSet(s))

LEMMA AppendGrows ==
    ASSUME NEW s, IsSequence(s), NEW e
    PROVE  IsSequence(Append(s, e)) /\ Len(Append(s, e)) = Len(s) + 1 /\ Len(s) \in Nat
  <1> DEFINE T == ToSet(s) \cup {e}
  <1>1. s \in Seq(T)
    BY DEF IsSequence, ToSet
  <1>2. Append(s, e) \in Seq(T) /\ Len(Append(s, e)) = Len(s) + 1 /\ Len(s) \in Nat
    BY <1>1
  <1>3. \A i \in DOMAIN Append(s, e) : Append(s, e)[i] \in ToSet(Append(s, e))
    BY DEF ToSet
  <1>4. Append(s, e) \in Seq(ToSet(Append(s, e)))
    <2>1. Len(Append(s, e)) \in Nat /\ Append(s, e) \in [1 .. Len(Append(s, e)) -> T]
      BY <1>2, LenProperties
    <2>2. Append(s, e) \in [1 .. Len(Append(s, e)) -> ToSet(Append(s, e))]
      BY <1>3, <2>1
    <2> QED
      BY <2>1, <2>2, SeqDef
  <1> QED
    BY <1>2, <1>4 DEF IsSequence

-----------------------------------------------------------------------------
(* While the unwinder runs, what is stored and the room it has left make   *)
(* up the record; so do they in fast_backtrace, which only starts when     *)
(* nothing was stored.                                                     *)
UnwinderSteps == {"get", "step", "decode", "callback", "return"}

StoreInv ==
    /\ pc \in UnwinderSteps \cup {"fast", "end"}
    /\ crawl \in [count : 0 .. MAX_BACKTRACES, ignore : 0 .. Ignore]
    /\ fast \in [fp : FramePointers \cup {NULL}, ignore : 0 .. Ignore, size : 0 .. MAX_BACKTRACES]
    /\ IsSequence(stored)
    /\ pc \in UnwinderSteps => Len(stored) + crawl.count = MAX_BACKTRACES
    /\ pc \in {"get", "fast"} => crawl.count = MAX_BACKTRACES
    /\ pc = "fast" => Len(stored) + fast.size = MAX_BACKTRACES
    /\ pc = "end" => Len(stored) <= MAX_BACKTRACES /\ len <= Len(stored)

LEMMA InitStore == Init => StoreInv
  <1> SUFFICES ASSUME Init PROVE StoreInv
    OBVIOUS
  <1>1. stored = <<>> /\ IsSequence(stored) /\ Len(stored) = 0
    BY DEF Init, IsSequence, ToSet
  <1> QED
    BY <1>1, UnwindBoundAssumption DEF Init, StoreInv, UnwinderSteps, NULL

(* A record that starts over with the frame pointers.                      *)
LEMMA StartFast ==
    ASSUME StoreInv, pc \in UnwinderSteps, crawl.count = MAX_BACKTRACES, pc' = "fast",
           \E fp \in FramePointers :
              fast' = [fp |-> fp, ignore |-> Ignore, size |-> MAX_BACKTRACES],
           UNCHANGED <<crawl, stored>>
    PROVE  StoreInv'
  <1>1. Len(stored) = 0
    BY UnwindBoundAssumption DEF StoreInv, IsSequence
  <1> QED
    BY <1>1, UnwindBoundAssumption DEF StoreInv, UnwinderSteps, IsSequence

LEMMA CallbackKeeps ==
    ASSUME StoreInv, Callback
    PROVE  StoreInv'
  <1> USE UnwindBoundAssumption DEF StoreInv, UnwinderSteps
  <1>1. pc' \in {"step", "return"} /\ UNCHANGED <<fast, len>>
    BY DEF Callback
  <1>2. CASE crawl.count = 0 \/ cursor.ip = 0
    BY <1>1, <1>2 DEF Callback, IsSequence
  <1>3. CASE ~(crawl.count = 0 \/ cursor.ip = 0) /\ crawl.ignore > 0
    BY <1>1, <1>3 DEF Callback, IsSequence
  <1>4. CASE ~(crawl.count = 0 \/ cursor.ip = 0) /\ ~(crawl.ignore > 0)
    <2>1. crawl' = [crawl EXCEPT !.count = @ - 1] /\ stored' = Append(stored, cursor.ip)
      BY <1>4 DEF Callback
    <2>2. IsSequence(stored') /\ Len(stored') = Len(stored) + 1 /\ Len(stored) \in Nat
      BY <2>1, AppendGrows
    <2>3. pc \in UnwinderSteps
      BY DEF Callback
    <2> QED
      BY <1>1, <1>4, <2>1, <2>2, <2>3
  <1> QED
    BY <1>2, <1>3, <1>4

LEMMA FastStepKeeps ==
    ASSUME StoreInv, FastStep
    PROVE  StoreInv'
  <1> USE UnwindBoundAssumption DEF StoreInv, UnwinderSteps
  <1>1. pc = "fast" /\ pc' = "fast" /\ fast.size > 0 /\ UNCHANGED <<crawl, len>>
    BY DEF FastStep, frameVars
  <1>2. PICK fp \in FramePointers :
           IF fast.ignore > 0
           THEN fast' = [fp |-> fp, ignore |-> fast.ignore - 1, size |-> fast.size] /\ UNCHANGED stored
           ELSE /\ fast' = [fp |-> fp, ignore |-> 0, size |-> fast.size - 1]
                /\ stored' = Append(stored, fast.fp + 4)
    BY DEF FastStep
  <1>3. CASE fast.ignore > 0
    <2>1. fast' = [fp |-> fp, ignore |-> fast.ignore - 1, size |-> fast.size] /\ UNCHANGED stored
      BY <1>2, <1>3
    <2>2. fast' \in [fp : FramePointers \cup {NULL}, ignore : 0 .. Ignore, size : 0 .. MAX_BACKTRACES]
          /\ fast'.size = fast.size
      BY <1>3, <2>1
    <2>3. Len(stored') + fast'.size = MAX_BACKTRACES /\ IsSequence(stored')
      BY <1>1, <2>1, <2>2
    <2> QED
      BY <1>1, <2>2, <2>3
  <1>4. CASE ~(fast.ignore > 0)
    <2>1. fast' = [fp |-> fp, ignore |-> 0, size |-> fast.size - 1] /\ stored' = Append(stored, fast.fp + 4)
      BY <1>2, <1>4
    <2>2. fast' \in [fp : FramePointers \cup {NULL}, ignore : 0 .. Ignore, size : 0 .. MAX_BACKTRACES]
          /\ fast'.size = fast.size - 1
      BY <1>1, <2>1
    <2>3. IsSequence(stored') /\ Len(stored') = Len(stored) + 1 /\ Len(stored) \in Nat
      BY <2>1, AppendGrows
    <2>4. Len(stored') + fast'.size = MAX_BACKTRACES
      BY <1>1, <2>2, <2>3
    <2> QED
      BY <1>1, <2>2, <2>3, <2>4
  <1> QED
    BY <1>3, <1>4

LEMMA NextStore ==
    ASSUME StoreInv, [Next]_vars
    PROVE  StoreInv'
  <1> USE UnwindBoundAssumption DEF UnwinderSteps
  <1>1. CASE Begin
    BY <1>1 DEF Begin, StoreInv
  <1>2. CASE Step
    BY <1>2 DEF Step, StoreInv
  <1>3. CASE Decode
    BY <1>3 DEF Decode, StoreInv
  <1>4. CASE Stepped
    BY <1>4 DEF Stepped, StoreInv
  <1>5. CASE Callback
    BY <1>5, CallbackKeeps
  <1>6. CASE Unwound
    <2>1. CASE crawl.count = MAX_BACKTRACES
      BY <1>6, <2>1, StartFast DEF Unwound
    <2>2. CASE crawl.count # MAX_BACKTRACES
      BY <1>6, <2>2 DEF Unwound, StoreInv, IsSequence
    <2> QED
      BY <2>1, <2>2
  <1>7. CASE FastStep
    BY <1>7, FastStepKeeps
  <1>8. CASE FastDone
    <2>1. /\ pc = "fast" /\ pc' = "end" /\ UNCHANGED <<crawl, fast, stored>>
          /\ len' = MAX_BACKTRACES - crawl.count
      BY <1>8 DEF FastDone
    <2> QED
      BY <2>1 DEF StoreInv, IsSequence
  <1>9. CASE UNCHANGED vars
    BY <1>9 DEF vars, StoreInv
  <1> QED
    BY <1>1, <1>2, <1>3, <1>4, <1>5, <1>6, <1>7, <1>8, <1>9 DEF Next

(* Whatever the unwind tables, the stack and the frame pointers hold, and  *)
(* whatever errors a step ignores, a backtrace writes no more addresses    *)
(* than the record has room for, and tells no length that covers addresses *)
(* it did not write.                                                       *)
THEOREM BacktraceInBounds == Spec => []StoreInBounds
  <1>1. StoreInv => StoreInBounds
    BY UnwindBoundAssumption DEF StoreInv, StoreInBounds, UnwinderSteps, IsSequence
  <1> QED
    BY <1>1, InitStore, NextStore, PTL DEF Spec

-----------------------------------------------------------------------------
(* Induction and recursion, with sets in place of predicates.              *)

(* A nonempty set of naturals has a least element.                         *)
LEMMA LeastNat ==
    ASSUME NEW T, T \subseteq Nat, T # {}
    PROVE  \E n \in T : \A m \in T : n <= m
<1> DEFINE R == OpToRel(<, Nat)
<1>1. IsWellFoundedOn(R, Nat)
  BY NatLessThanWellFounded, Zenon
<1>2. \A m, n \in Nat : m < n => <<m, n>> \in R
  BY Zenon DEF OpToRel
<1> HIDE DEF R
<1>3. PICK n \in T : \A m \in T : ~ (<<m, n>> \in R)
  BY <1>1, WFMin, Zenon
<1>4. \A m \in T : ~ (m < n)
  BY <1>2, <1>3
<1> QED
  BY <1>4

(* A set with 0 and the successors below N of its members has 0 .. N.      *)
LEMMA UpTo ==
    ASSUME NEW N \in Nat, NEW S, 0 \in S, \A n \in 1 .. N : n - 1 \in S => n \in S
    PROVE  0 .. N \subseteq S
<1> DEFINE T == (0 .. N) \ S
<1>1. SUFFICES ASSUME T # {} PROVE FALSE
  OBVIOUS
<1>2. T \subseteq Nat
  OBVIOUS
<1> HIDE DEF T
<1>3. PICK n \in T : \A m \in T : n <= m
  BY <1>1, <1>2, LeastNat
<1>4. n \in 1 .. N /\ n \notin S /\ n - 1 \in 0 .. N
  BY DEF T
<1>5. n - 1 \notin T
  BY <1>3, <1>4
<1> QED
  BY <1>4, <1>5 DEF T

(* f gives each number up to N what its step makes of the one before.      *)
Recurs(f, N, base, step) ==
    f = [n \in 0 .. N |-> IF n = 0 THEN base ELSE step[n][f[n - 1]]]

LEMMA Recursion ==
    ASSUME NEW S, NEW base \in S, NEW N \in Nat, NEW step \in [1 .. N -> [S -> S]]
    PROVE  \E f \in [0 .. N -> S] : Recurs(f, N, base, step)
<1> DEFINE Have == {k \in 0 .. N : \E f \in [0 .. k -> S] : Recurs(f, k, base, step)}
<1>1. 0 \in Have
  <2>1. [n \in 0 .. 0 |-> base] \in [0 .. 0 -> S]
    OBVIOUS
  <2>2. Recurs([n \in 0 .. 0 |-> base], 0, base, step)
    BY DEF Recurs
  <2> QED
    BY <2>1, <2>2
<1>2. ASSUME NEW k \in 1 .. N, k - 1 \in Have
      PROVE  k \in Have
  <2>1. PICK f \in [0 .. k - 1 -> S] : Recurs(f, k - 1, base, step)
    BY <1>2
  <2> DEFINE g == [n \in 0 .. k |-> IF n < k THEN f[n] ELSE step[k][f[k - 1]]]
  <2>2. step[k][f[k - 1]] \in S
    OBVIOUS
  <2>3. g \in [0 .. k -> S] /\ g[k] = step[k][f[k - 1]] /\ \A n \in 0 .. k - 1 : g[n] = f[n]
    BY <2>2
  <2>4. \A n \in 0 .. k - 1 : f[n] = IF n = 0 THEN base ELSE step[n][f[n - 1]]
    BY <2>1 DEF Recurs
  <2> HIDE DEF g
  <2>5. \A n \in 0 .. k : g[n] = IF n = 0 THEN base ELSE step[n][g[n - 1]]
    <3> TAKE n \in 0 .. k
    <3>1. CASE n = k
      BY <2>3, <3>1
    <3>2. CASE n < k
      BY <2>3, <2>4, <3>2
    <3> QED
      BY <3>1, <3>2
  <2>6. g = [n \in 0 .. k |-> IF n = 0 THEN base ELSE step[n][g[n - 1]]]
    BY <2>3, <2>5
  <2>7. Recurs(g, k, base, step)
    BY <2>6, Zenon DEF Recurs
  <2> QED
    BY <2>3, <2>7
<1> HIDE DEF Have
<1>3. \A k \in 1 .. N : k - 1 \in Have => k \in Have
  BY <1>2
<1>4. 0 .. N \subseteq Have
  BY <1>1, <1>3, UpTo
<1> QED
  BY <1>4 DEF Have

-----------------------------------------------------------------------------
(* The binary search.                                                      *)
Pairs == (DOMAIN Functions) \X (DOMAIN Functions)

Between(at) == at[1] + ((at[2] - at[1] + 1) \div 2)

(* What the search makes of a pair, given what it makes of narrower ones.  *)
Narrowed(g, ip, at) ==
    IF at[1] >= at[2] - 1 THEN at[1]
    ELSE IF ip < Functions[Between(at)].start THEN g[<<at[1], Between(at)>>]
    ELSE g[<<Between(at), at[2]>>]

LEMMA TableType ==
    /\ Len(Functions) \in Nat \ {0} /\ DOMAIN Functions = 1 .. Len(Functions)
    /\ \A i \in 1 .. Len(Functions) : Functions[i].start \in Nat
  BY TableAssumption, EmptySeq, LenProperties

LEMMA BetweenIs ==
    ASSUME NEW at \in Pairs, ~(at[1] >= at[2] - 1)
    PROVE  /\ Between(at) \in at[1] + 1 .. at[2] - 1
           /\ <<at[1], Between(at)>> \in Pairs /\ <<Between(at), at[2]>> \in Pairs
<1>1. at[1] \in 1 .. Len(Functions) /\ at[2] \in 1 .. Len(Functions)
  BY TableType DEF Pairs
<1>2. at[1] \in Nat /\ at[2] \in Nat
  BY <1>1
<1> DEFINE d == at[2] - at[1]
<1>3. d \in Nat /\ d >= 2
  BY <1>2
<1>4. (d + 1) \div 2 \in 1 .. d - 1
  <2> HIDE DEF d
  <2> QED
    BY <1>3
<1>5. Between(at) \in at[1] + 1 .. at[2] - 1
  BY <1>2, <1>4 DEF Between
<1> QED
  BY <1>1, <1>5, TableType DEF Pairs

LEMMA NarrowExists ==
    ASSUME NEW ip \in Int
    PROVE  \E g \in [Pairs -> DOMAIN Functions] : g = [at \in Pairs |-> Narrowed(g, ip, at)]
<1> DEFINE D == DOMAIN Functions
           N == Len(Functions)
           S == [Pairs -> D]
           base == [at \in Pairs |-> at[1]]
           step == [n \in 1 .. N + 1 |-> [g \in S |-> [at \in Pairs |-> Narrowed(g, ip, at)]]]
<1>1. N \in Nat \ {0} /\ \A at \in Pairs : at[1] \in D /\ at[1] \in Nat /\ at[2] \in Nat /\ at[2] - at[1] <= N
  BY TableType DEF Pairs
<1>2. base \in S
  BY <1>1
<1>3. \A g \in S, at \in Pairs : Narrowed(g, ip, at) \in D
  BY <1>1, BetweenIs DEF Narrowed
<1>4. step \in [1 .. N + 1 -> [S -> S]]
  BY <1>3
<1>5. \A n \in 1 .. N + 1 : \A g \in S : step[n][g] = [at \in Pairs |-> Narrowed(g, ip, at)]
  OBVIOUS
<1>6. \A at \in Pairs : base[at] = at[1]
  OBVIOUS
<1> HIDE DEF step, N, D, base, S
<1>7. PICK f \in [0 .. N + 1 -> S] : Recurs(f, N + 1, base, step)
  <2>1. N + 1 \in Nat
    BY <1>1
  <2> QED
    BY <1>2, <1>4, <2>1, Recursion
<1>8. f = [n \in 0 .. N + 1 |-> IF n = 0 THEN base ELSE step[n][f[n - 1]]]
  BY <1>7, Zenon DEF Recurs
<1>9. \A n \in 1 .. N + 1 : n - 1 \in 0 .. N + 1 /\ n \in 0 .. N + 1 /\ n # 0
  BY <1>1
<1>10. \A n \in 1 .. N + 1 : f[n - 1] \in S /\ f[n] = [at \in Pairs |-> Narrowed(f[n - 1], ip, at)]
  BY <1>5, <1>7, <1>8, <1>9
<1>11. f[0] = base
  BY <1>1, <1>8
<1> DEFINE Still == {n \in 0 .. N : \A at \in Pairs : at[2] - at[1] <= n => f[n + 1][at] = f[n][at]}
<1>12. \A n \in 1 .. N + 1 : \A at \in Pairs : f[n][at] = Narrowed(f[n - 1], ip, at)
  BY <1>10
<1>13. 0 \in Still
  <2> SUFFICES ASSUME NEW at \in Pairs, at[2] - at[1] <= 0 PROVE f[0 + 1][at] = f[0][at]
    BY <1>1
  <2>1. f[1][at] = Narrowed(f[1 - 1], ip, at)
    BY <1>1, <1>12
  <2>2. at[1] >= at[2] - 1
    BY <1>1
  <2> QED
    BY <1>6, <1>11, <2>1, <2>2 DEF Narrowed
<1>14. ASSUME NEW n \in 1 .. N, n - 1 \in Still
       PROVE  n \in Still
  <2> SUFFICES ASSUME NEW at \in Pairs, at[2] - at[1] <= n PROVE f[n + 1][at] = f[n][at]
    BY <1>1
  <2>1. f[n + 1][at] = Narrowed(f[n], ip, at) /\ f[n][at] = Narrowed(f[n - 1], ip, at)
    <3>1. n + 1 \in 1 .. N + 1 /\ n \in 1 .. N + 1 /\ (n + 1) - 1 = n
      BY <1>1
    <3> QED
      BY <1>12, <3>1
  <2>2. CASE at[1] >= at[2] - 1
    BY <2>1, <2>2 DEF Narrowed
  <2>3. CASE ~(at[1] >= at[2] - 1)
    <3> DEFINE m == Between(at)
    <3>1. <<at[1], m>> \in Pairs /\ <<m, at[2]>> \in Pairs /\ m \in at[1] + 1 .. at[2] - 1
      BY <2>3, BetweenIs
    <3> HIDE DEF m
    <3>2. m - at[1] <= n - 1 /\ at[2] - m <= n - 1
      BY <1>1, <3>1
    <3>3. \A x \in Pairs : x[2] - x[1] <= n - 1 => f[n][x] = f[n - 1][x]
      BY <1>1, <1>14
    <3>4. f[n][<<at[1], m>>] = f[n - 1][<<at[1], m>>] /\ f[n][<<m, at[2]>>] = f[n - 1][<<m, at[2]>>]
      BY <3>1, <3>2, <3>3
    <3> QED
      BY <2>1, <2>3, <3>4 DEF Narrowed, m
  <2> QED
    BY <2>2, <2>3
<1> HIDE DEF Still
<1>15. N \in Still
  <2>1. 0 .. N \subseteq Still
    BY <1>1, <1>13, <1>14, UpTo
  <2> QED
    BY <1>1, <2>1
<1>16. f[N] \in S /\ f[N + 1] \in S /\ f[N + 1] = [at \in Pairs |-> Narrowed(f[N], ip, at)]
  <2>1. N + 1 \in 1 .. N + 1 /\ (N + 1) - 1 = N /\ N \in 0 .. N + 1 /\ N + 1 \in 0 .. N + 1
    BY <1>1
  <2> QED
    BY <1>7, <1>10, <2>1
<1>17. \A at \in Pairs : f[N + 1][at] = f[N][at]
  BY <1>1, <1>15 DEF Still
<1>18. f[N + 1] = f[N]
  BY <1>16, <1>17 DEF S
<1> QED
  BY <1>16, <1>18 DEF S, D

LEMMA NarrowFinds ==
    ASSUME NEW ip \in Int, NEW g, g = [at \in Pairs |-> Narrowed(g, ip, at)], NEW x \in Pairs,
           x[1] < x[2], Functions[x[1]].start <= ip, ip < Functions[x[2]].start
    PROVE  /\ g[x] \in x[1] .. x[2] - 1
           /\ Functions[g[x]].start <= ip /\ ip < Functions[g[x] + 1].start
<1> DEFINE N == Len(Functions)
           Right(at) == /\ g[at] \in at[1] .. at[2] - 1
                        /\ Functions[g[at]].start <= ip /\ ip < Functions[g[at] + 1].start
           Around(at) == at[1] < at[2] /\ Functions[at[1]].start <= ip /\ ip < Functions[at[2]].start
           Found == {n \in 0 .. N : \A at \in Pairs : at[2] - at[1] <= n /\ Around(at) => Right(at)}
<1>1. /\ N \in Nat
      /\ \A at \in Pairs : /\ at[1] \in 1 .. N /\ at[2] \in 1 .. N /\ at[1] \in Nat /\ at[2] \in Nat
                           /\ at[2] - at[1] <= N
  BY TableType DEF Pairs
<1>2. \A at \in Pairs : g[at] = Narrowed(g, ip, at)
  OBVIOUS
<1>3. \A i \in 1 .. N : Functions[i].start \in Nat
  BY TableType
<1> HIDE DEF N
<1>4. 0 \in Found
  BY <1>1
<1>5. ASSUME NEW n \in 1 .. N, n - 1 \in Found
      PROVE  n \in Found
  <2> SUFFICES ASSUME NEW at \in Pairs, at[2] - at[1] <= n, Around(at) PROVE Right(at)
    BY <1>1
  <2>1. CASE at[1] >= at[2] - 1
    <3>1. g[at] = at[1] /\ at[1] + 1 = at[2]
      BY <1>1, <1>2, <2>1 DEF Narrowed
    <3> QED
      BY <1>1, <3>1
  <2>2. CASE ~(at[1] >= at[2] - 1)
    <3> DEFINE m == Between(at)
    <3>1. <<at[1], m>> \in Pairs /\ <<m, at[2]>> \in Pairs /\ m \in at[1] + 1 .. at[2] - 1
      BY <2>2, BetweenIs
    <3>2. g[at] = IF ip < Functions[m].start THEN g[<<at[1], m>>] ELSE g[<<m, at[2]>>]
      BY <1>2, <2>2 DEF Narrowed
    <3> HIDE DEF m
    <3>3. m \in 1 .. N /\ m \in Nat /\ m - at[1] <= n - 1 /\ at[2] - m <= n - 1 /\ at[1] < m /\ m < at[2]
      BY <1>1, <3>1
    <3>4. \A y \in Pairs : y[2] - y[1] <= n - 1 /\ Around(y) => Right(y)
      BY <1>1, <1>5
    <3>5. CASE ip < Functions[m].start
      <4>1. Right(<<at[1], m>>)
        BY <3>1, <3>3, <3>4, <3>5
      <4> QED
        BY <1>1, <3>2, <3>3, <3>5, <4>1
    <3>6. CASE ~(ip < Functions[m].start)
      <4>1. Functions[m].start <= ip
        BY <1>3, <3>3, <3>6
      <4>2. Right(<<m, at[2]>>)
        BY <3>1, <3>3, <3>4, <4>1
      <4> QED
        BY <1>1, <3>2, <3>3, <3>6, <4>2
    <3> QED
      BY <3>5, <3>6
  <2> QED
    BY <2>1, <2>2
<1> HIDE DEF Found
<1>6. N \in Found
  <2>1. 0 .. N \subseteq Found
    BY <1>1, <1>4, <1>5, UpTo
  <2> QED
    BY <1>1, <2>1
<1> QED
  BY <1>1, <1>6 DEF Found

LEMMA SearchFinds ==
    ASSUME NEW ip \in Int, Functions[1].start <= ip, ip < Functions[Len(Functions)].start
    PROVE  /\ Search(ip) \in 1 .. Len(Functions) - 1
           /\ Functions[Search(ip)].start <= ip /\ ip < Functions[Search(ip) + 1].start
<1> DEFINE Is(g) == g = [at \in Pairs |-> Narrowed(g, ip, at)]
           narrow == CHOOSE g : Is(g)
           x == <<1, Len(Functions)>>
<1>1. Search(ip) = narrow[x]
  BY DEF Search, Narrowed, Between, Pairs
<1>2. Is(narrow)
  BY NarrowExists, Zenon
<1>3. x \in Pairs /\ x[1] = 1 /\ x[2] = Len(Functions) /\ x[1] < x[2]
  BY TableType DEF Pairs
<1> HIDE DEF narrow, x
<1>4. /\ narrow[x] \in x[1] .. x[2] - 1
      /\ Functions[narrow[x]].start <= ip /\ ip < Functions[narrow[x] + 1].start
  BY <1>2, <1>3, NarrowFinds
<1> QED
  BY <1>1, <1>3, <1>4

(* An address the table covers is looked up to the function it is in: the  *)
(* last that does not start behind it; others have no entry.               *)
THEOREM EntryFound ==
    ASSUME NEW ip \in Int
    PROVE  IF ~HasTable(ip) \/ ip < Functions[1].start THEN FindProcInfo(ip) = NULL
           ELSE /\ FindProcInfo(ip) \in 1 .. Len(Functions)
                /\ \A i \in 1 .. Len(Functions) : Functions[i].start <= ip <=> i <= FindProcInfo(ip)
<1>1. CASE ~HasTable(ip) \/ ip < Functions[1].start
  BY <1>1 DEF FindProcInfo
<1>2. CASE ~(~HasTable(ip) \/ ip < Functions[1].start)
  <2> DEFINE e == FindProcInfo(ip)
  <2>0. \A i, j \in 1 .. Len(Functions) : i < j => Functions[i].start < Functions[j].start
    BY TableAssumption, TableType
  <2>nat. \A i \in 1 .. Len(Functions) : i \in Nat /\ Functions[i].start \in Nat
    BY TableType
  <2>1. /\ e \in 1 .. Len(Functions) /\ Functions[e].start <= ip
        /\ e = Len(Functions) \/ (e + 1 \in 1 .. Len(Functions) /\ ip < Functions[e + 1].start)
    <3>1. CASE ip >= Functions[Len(Functions)].start
      BY <1>2, <3>1, TableType DEF FindProcInfo
    <3>2. CASE ~(ip >= Functions[Len(Functions)].start)
      <4>1. e = Search(ip) /\ Functions[1].start <= ip /\ ip < Functions[Len(Functions)].start
        BY <1>2, <3>2, TableType DEF FindProcInfo
      <4> HIDE DEF e
      <4> QED
        BY <4>1, SearchFinds, TableType
    <3> QED
      BY <3>1, <3>2
  <2> HIDE DEF e
  <2>2. \A i \in 1 .. Len(Functions) : Functions[i].start <= ip <=> i <= e
    <3> TAKE i \in 1 .. Len(Functions)
    <3>1. CASE i <= e
      <4>1. Functions[i].start <= Functions[e].start
        <5>1. CASE i = e
          BY <2>nat, <5>1
        <5>2. CASE i < e
          BY <2>nat, <2>0, <2>1, <5>2
        <5> QED
          BY <2>nat, <2>1, <3>1, <5>1, <5>2
      <4>2. Functions[i].start \in Nat /\ Functions[e].start \in Nat
        BY <2>nat, <2>1
      <4> QED
        BY <2>1, <3>1, <4>1, <4>2
    <3>2. CASE ~(i <= e)
      <4>1. e + 1 \in 1 .. Len(Functions) /\ ip < Functions[e + 1].start /\ e + 1 <= i
        BY <2>nat, <2>1, <3>2
      <4>2. Functions[e + 1].start <= Functions[i].start
        <5>1. CASE e + 1 = i
          BY <2>nat, <5>1
        <5>2. CASE e + 1 < i
          BY <2>nat, <2>0, <4>1, <5>2
        <5> QED
          BY <2>nat, <4>1, <5>1, <5>2, <2>1
      <4>3. Functions[i].start \in Nat /\ Functions[e + 1].start \in Nat
        BY <2>nat, <4>1
      <4> QED
        BY <3>2, <4>1, <4>2, <4>3
    <3> QED
      BY <3>1, <3>2
  <2> QED
    BY <1>2, <2>1, <2>2 DEF e
<1> QED
  BY <1>1, <1>2

-----------------------------------------------------------------------------
(* The words of memory: what the prologues of the calls in progress left.  *)
Memories(W) == UNION {[D -> W] : D \in SUBSET Int}
Machines(W) == [reg : [Regs -> W], mem : Memories(W)]
Ops == [save : Seq(Regs \ {SP}), room : Nat, fp : Regs \ {SP}, off : Nat]

(* The stack an instruction of a prologue uses.                            *)
Use(op) == 4 * Len(op.save) + op.room

LEMMA OpType ==
    ASSUME NEW op \in Ops
    PROVE  /\ op.save \in Seq(Regs \ {SP}) /\ op.save \in Seq(Regs) /\ Len(op.save) \in Nat
           /\ op.room \in Nat /\ op.off \in Nat /\ op.fp \in Regs /\ op.fp # SP
           /\ Use(op) \in Nat
<1>1. op.save \in Seq(Regs \ {SP}) /\ op.room \in Nat /\ op.off \in Nat /\ op.fp \in Regs \ {SP}
  BY Zenon DEF Ops
<1>2. op.save \in Seq(Regs)
  <2> DEFINE S == Regs \ {SP}
  <2>1. S \subseteq Regs /\ op.save \in Seq(S)
    BY <1>1
  <2> HIDE DEF S
  <2> QED
    BY <2>1
<1> QED
  BY <1>1, <1>2 DEF Use

LEMMA MachineType ==
    ASSUME NEW W, NEW m \in Machines(W)
    PROVE  m.reg \in [Regs -> W] /\ m.mem \in Memories(W) /\ SP \in Regs /\ m.reg[SP] \in W
<1>1. m.reg \in [Regs -> W] /\ m.mem \in Memories(W)
  BY Zenon DEF Machines
<1> QED
  BY <1>1 DEF Regs, SP

LEMMA Overlaid ==
    ASSUME NEW W, NEW f \in Memories(W), NEW g \in Memories(W)
    PROVE  Over(f, g) \in Memories(W)
<1>1. PICK D \in SUBSET Int : f \in [D -> W]
  BY DEF Memories
<1>2. PICK E \in SUBSET Int : g \in [E -> W]
  BY DEF Memories
<1>3. Over(f, g) \in [D \cup E -> W]
  BY <1>1, <1>2 DEF Over
<1>4. D \cup E \in SUBSET Int
  OBVIOUS
<1> QED
  BY <1>3, <1>4, Zenon DEF Memories

(* m has the words of l from an address on.                                *)
KeepsFrom(l, m, from) == \A a \in Int : a >= from => WordIn(m.mem, a) = WordIn(l.mem, a)

LEMMA PrologueType ==
    ASSUME NEW W, W = Int \/ W = Nat, NEW m \in Machines(W), NEW op \in Ops,
           m.reg[SP] - Use(op) \in W
    PROVE  /\ Prologue(m, op) \in Machines(W)
           /\ Prologue(m, op).reg[SP] = m.reg[SP] - Use(op)
           /\ KeepsFrom(m, Prologue(m, op), m.reg[SP])
<1> DEFINE L == Len(op.save)
           base == m.reg[SP] - 4 * L
           Stored(r) == IF r = 12 THEN m.reg[SP] ELSE m.reg[r]
           At == {base + 4 * (i - 1) : i \in DOMAIN op.save}
           slots == [a \in At |-> Stored(op.save[(a - base) \div 4 + 1])]
           sp == base - op.room
           reg == IF op.fp = NULL THEN [m.reg EXCEPT ![SP] = sp]
                  ELSE [m.reg EXCEPT ![SP] = sp, ![op.fp] = sp + op.off]
<1>1. /\ SP \in Regs /\ m.reg \in [Regs -> W] /\ m.mem \in Memories(W)
      /\ L \in Nat /\ DOMAIN op.save = 1 .. L /\ \A i \in 1 .. L : op.save[i] \in Regs
      /\ op.room \in Nat /\ op.off \in Nat /\ op.fp \in Regs /\ op.fp # SP
  BY MachineType, OpType, LenProperties
<1>2. m.reg[SP] \in Int /\ base \in Int /\ sp \in W /\ sp \in Int /\ sp = m.reg[SP] - Use(op)
  <2>1. m.reg[SP] \in Int
    BY <1>1
  <2>2. sp = m.reg[SP] - Use(op)
    BY <1>1, <2>1 DEF Use
  <2> QED
    BY <1>1, <2>1, <2>2
<1>3. Prologue(m, op) = [reg |-> reg, mem |-> Over(slots, m.mem)]
  BY DEF Prologue
<1>4. slots \in Memories(W)
  <2>1. \A r \in Regs : Stored(r) \in W
    BY <1>1
  <2> HIDE DEF Stored, base, L
  <2>2. At \in SUBSET Int
    BY <1>1, <1>2
  <2>3. \A a \in At : Stored(op.save[(a - base) \div 4 + 1]) \in W
    <3> SUFFICES ASSUME NEW i \in 1 .. L
                 PROVE  Stored(op.save[((base + 4 * (i - 1)) - base) \div 4 + 1]) \in W
      BY <1>1
    <3>1. ((base + 4 * (i - 1)) - base) \div 4 + 1 = i
      <4>1. i \in Int /\ (base + 4 * (i - 1)) - base = 4 * (i - 1)
        BY <1>1, <1>2
      <4>2. (4 * (i - 1)) \div 4 = i - 1
        BY <4>1
      <4> QED
        BY <4>1, <4>2
    <3> QED
      BY <1>1, <2>1, <3>1
  <2> HIDE DEF At
  <2>4. slots \in [At -> W]
    BY <2>3
  <2> HIDE DEF slots
  <2> QED
    BY <2>2, <2>4, Zenon DEF Memories
<1>5. Over(slots, m.mem) \in Memories(W)
  <2> HIDE DEF slots
  <2> QED
    BY <1>1, <1>4, Overlaid
<1>below. \A a \in Int : a >= m.reg[SP] => a \notin At
  <2> HIDE DEF base, L
  <2> SUFFICES ASSUME NEW i \in 1 .. L PROVE base + 4 * (i - 1) < m.reg[SP]
    BY <1>1, <1>2
  <2>1. base = m.reg[SP] - 4 * L
    BY DEF base
  <2> QED
    BY <1>1, <1>2, <2>1
<1>above. \A a \in Int : a >= m.reg[SP] => WordIn(Over(slots, m.mem), a) = WordIn(m.mem, a)
  <2> HIDE DEF At, Stored, base, L
  <2>1. DOMAIN slots = At
    OBVIOUS
  <2> HIDE DEF slots
  <2> QED
    BY <1>below, <2>1 DEF Over, WordIn
<1>6. reg \in [Regs -> W] /\ reg[SP] = sp
  <2> HIDE DEF sp, base, L, At, Stored, slots
  <2>1. sp + op.off \in W
    BY <1>1, <1>2
  <2> QED
    BY <1>1, <1>2, <2>1
<1> HIDE DEF reg, slots, sp, base, At, Stored, L
<1>7. Prologue(m, op) \in Machines(W)
  BY <1>3, <1>5, <1>6 DEF Machines
<1>8. Prologue(m, op).reg = reg /\ Prologue(m, op).mem = Over(slots, m.mem)
  BY <1>3
<1>9. sp = m.reg[SP] - Use(op)
  BY <1>2
<1>10. KeepsFrom(m, Prologue(m, op), m.reg[SP])
  BY <1>8, <1>above DEF KeepsFrom
<1> QED
  BY <1>6, <1>7, <1>8, <1>9, <1>10

LEMMA StackUseSteps ==
    ASSUME NEW ops \in Seq(Ops)
    PROVE  \E u \in [0 .. Len(ops) -> Nat] :
              /\ u[0] = 0 /\ u[Len(ops)] = StackUse(ops)
              /\ \A n \in 1 .. Len(ops) : u[n] = u[n - 1] + Use(ops[n])
              /\ \A n \in 0 .. Len(ops) : u[n] <= StackUse(ops)
<1> DEFINE N == Len(ops)
           step == [n \in 1 .. N |-> [x \in Nat |-> x + Use(ops[n])]]
           Is(u) == u = [n \in 0 .. N |-> IF n = 0 THEN 0 ELSE u[n - 1] + Use(ops[n])]
           used == CHOOSE u : Is(u)
<1>1. N \in Nat /\ \A n \in 1 .. N : ops[n] \in Ops
  OBVIOUS
<1>2. \A n \in 1 .. N : Use(ops[n]) \in Nat
  BY <1>1, OpType DEF Use
<1>3. step \in [1 .. N -> [Nat -> Nat]]
  BY <1>2
<1>4. \A n \in 1 .. N : \A x \in Nat : step[n][x] = x + Use(ops[n])
  OBVIOUS
<1>5. StackUse(ops) = used[N]
  BY DEF StackUse, Use
<1> HIDE DEF step, N
<1>6. PICK f \in [0 .. N -> Nat] : Recurs(f, N, 0, step)
  BY <1>1, <1>3, Recursion
<1>7. f = [n \in 0 .. N |-> IF n = 0 THEN 0 ELSE step[n][f[n - 1]]]
  BY <1>6, Zenon DEF Recurs
<1>8. \A n \in 0 .. N : n = 0 \/ step[n][f[n - 1]] = f[n - 1] + Use(ops[n])
  <2> SUFFICES ASSUME NEW n \in 1 .. N PROVE step[n][f[n - 1]] = f[n - 1] + Use(ops[n])
    BY <1>1
  <2>1. n - 1 \in 0 .. N
    BY <1>1
  <2> QED
    BY <1>4, <1>6, <2>1
<1>9. Is(f)
  BY <1>7, <1>8
<1>10. Is(used)
  BY <1>9, Zenon
<1> HIDE DEF used
<1>11. used[0] = 0 /\ \A n \in 1 .. N : used[n] = used[n - 1] + Use(ops[n])
  BY <1>1, <1>10
<1> DEFINE Typed == {n \in 0 .. N : used[n] \in Nat /\ \A k \in 0 .. n : used[k] \in Nat /\ used[k] <= used[n]}
<1>12. 0 \in Typed
  BY <1>1, <1>11
<1>13. \A n \in 1 .. N : n - 1 \in Typed => n \in Typed
  <2> SUFFICES ASSUME NEW n \in 1 .. N, n - 1 \in Typed PROVE n \in Typed
    OBVIOUS
  <2>1. used[n - 1] \in Nat /\ used[n] = used[n - 1] + Use(ops[n]) /\ Use(ops[n]) \in Nat
    BY <1>2, <1>11
  <2>2. used[n] \in Nat /\ used[n - 1] <= used[n]
    BY <2>1
  <2>3. \A k \in 0 .. n : k \in 0 .. n - 1 \/ k = n
    BY <1>1
  <2>4. \A k \in 0 .. n - 1 : used[k] \in Nat /\ used[k] <= used[n - 1]
    OBVIOUS
  <2>5. \A k \in 0 .. n : used[k] \in Nat /\ used[k] <= used[n]
    BY <2>1, <2>2, <2>3, <2>4
  <2>6. n \in 0 .. N
    BY <1>1
  <2> QED
    BY <2>2, <2>5, <2>6
<1> HIDE DEF Typed
<1>14. 0 .. N \subseteq Typed
  BY <1>1, <1>12, <1>13, UpTo
<1>15. \A n \in 0 .. N : used[n] \in Nat
  BY <1>14 DEF Typed
<1>16. \A n \in 0 .. N : used[n] <= used[N]
  BY <1>1, <1>14 DEF Typed
<1>17. used \in [0 .. N -> Nat]
  BY <1>10, <1>15
<1> QED
  BY <1>5, <1>11, <1>16, <1>17 DEF N


LEMMA MachinesNat ==
    /\ \A m \in Machines(Nat) : m \in Machines(Int)
    /\ \A f \in Memories(Nat) : f \in Memories(Int)
<1>1. \A f \in Memories(Nat) : f \in Memories(Int)
  BY DEF Memories
<1> QED
  BY <1>1 DEF Machines

LEMMA ProloguesSteps ==
    ASSUME NEW m \in Machines(Int), NEW ops \in Seq(Ops)
    PROVE  \E a \in [0 .. Len(ops) -> Machines(Int)] :
              /\ a[0] = m /\ a[Len(ops)] = Prologues(m, ops)
              /\ \A n \in 1 .. Len(ops) : a[n] = Prologue(a[n - 1], ops[n])
<1> DEFINE N == Len(ops)
           M == Machines(Int)
           step == [n \in 1 .. N |-> [x \in M |-> Prologue(x, ops[n])]]
           Is(a) == a = [n \in 0 .. N |-> IF n = 0 THEN m ELSE Prologue(a[n - 1], ops[n])]
           after == CHOOSE a : Is(a)
<1>1. N \in Nat /\ \A n \in 1 .. N : ops[n] \in Ops
  OBVIOUS
<1>2. \A x \in M, n \in 1 .. N : Prologue(x, ops[n]) \in M
  <2> TAKE x \in M, n \in 1 .. N
  <2>1. ops[n] \in Ops
    BY <1>1
  <2>2. x.reg[SP] - Use(ops[n]) \in Int
    <3>1. x.reg[SP] \in Int /\ Use(ops[n]) \in Nat
      BY <2>1, OpType, MachineType
    <3> QED
      BY <3>1
  <2> QED
    BY <2>1, <2>2, PrologueType, Zenon
<1>3. step \in [1 .. N -> [M -> M]]
  BY <1>2
<1>4. \A n \in 1 .. N : \A x \in M : step[n][x] = Prologue(x, ops[n])
  OBVIOUS
<1>5. Prologues(m, ops) = after[N]
  BY DEF Prologues
<1> HIDE DEF step, N, M
<1>6. m \in M
  BY DEF M
<1>7. PICK f \in [0 .. N -> M] : Recurs(f, N, m, step)
  BY <1>1, <1>3, <1>6, Recursion
<1>8. f = [n \in 0 .. N |-> IF n = 0 THEN m ELSE step[n][f[n - 1]]]
  BY <1>7, Zenon DEF Recurs
<1>9. \A n \in 0 .. N : n = 0 \/ step[n][f[n - 1]] = Prologue(f[n - 1], ops[n])
  <2> SUFFICES ASSUME NEW n \in 1 .. N PROVE step[n][f[n - 1]] = Prologue(f[n - 1], ops[n])
    BY <1>1
  <2>1. n - 1 \in 0 .. N
    BY <1>1
  <2> QED
    BY <1>4, <1>7, <2>1
<1>10. Is(f)
  BY <1>8, <1>9
<1>11. Is(after)
  BY <1>10, Zenon
<1> HIDE DEF after
<1>12. after[0] = m /\ \A n \in 1 .. N : after[n] = Prologue(after[n - 1], ops[n])
  BY <1>1, <1>11
<1> DEFINE Typed == {n \in 0 .. N : after[n] \in M}
<1>13. 0 \in Typed
  BY <1>1, <1>6, <1>12
<1>14. \A n \in 1 .. N : n - 1 \in Typed => n \in Typed
  BY <1>1, <1>2, <1>12
<1> HIDE DEF Typed
<1>15. 0 .. N \subseteq Typed
  BY <1>1, <1>13, <1>14, UpTo
<1>16. \A n \in 0 .. N : after[n] \in M
  BY <1>15 DEF Typed
<1>17. after \in [0 .. N -> M]
  BY <1>11, <1>16
<1> QED
  BY <1>5, <1>12, <1>17 DEF N, M

(* With room on the stack, a prologue's stores are to addresses.           *)
LEMMA ProloguesType ==
    ASSUME NEW m \in Machines(Nat), NEW ops \in Seq(Ops), m.reg[SP] >= StackUse(ops)
    PROVE  /\ Prologues(m, ops) \in Machines(Nat)
           /\ Prologues(m, ops).reg[SP] = m.reg[SP] - StackUse(ops)
           /\ KeepsFrom(m, Prologues(m, ops), m.reg[SP])
<1> DEFINE N == Len(ops)
<1>1. m \in Machines(Int) /\ m.reg[SP] \in Nat
  BY MachinesNat, MachineType
<1>2. N \in Nat /\ \A n \in 1 .. N : ops[n] \in Ops /\ Use(ops[n]) \in Nat
  BY OpType
<1>3. PICK a \in [0 .. N -> Machines(Int)] :
          /\ a[0] = m /\ a[N] = Prologues(m, ops)
          /\ \A n \in 1 .. N : a[n] = Prologue(a[n - 1], ops[n])
  BY <1>1, ProloguesSteps
<1>4. PICK u \in [0 .. N -> Nat] :
          /\ u[0] = 0 /\ u[N] = StackUse(ops)
          /\ \A n \in 1 .. N : u[n] = u[n - 1] + Use(ops[n])
          /\ \A n \in 0 .. N : u[n] <= StackUse(ops)
  BY StackUseSteps
<1> HIDE DEF N
<1> DEFINE Good == {n \in 0 .. N : /\ a[n] \in Machines(Nat) /\ a[n].reg[SP] = m.reg[SP] - u[n]
                                   /\ KeepsFrom(m, a[n], m.reg[SP])}
<1>5. 0 \in Good
  BY <1>1, <1>2, <1>3, <1>4 DEF KeepsFrom
<1>6. ASSUME NEW n \in 1 .. N, n - 1 \in Good
      PROVE  n \in Good
  <2>1. n \in 0 .. N /\ n - 1 \in 0 .. N /\ u[n] \in Nat /\ u[n - 1] \in Nat
    BY <1>2, <1>4
  <2>2. a[n - 1] \in Machines(Nat) /\ a[n - 1].reg[SP] = m.reg[SP] - u[n - 1]
    BY <1>6
  <2>3. u[n] = u[n - 1] + Use(ops[n]) /\ Use(ops[n]) \in Nat /\ u[n] <= StackUse(ops)
    BY <1>2, <1>4, <2>1
  <2>4. StackUse(ops) \in Nat
    BY <1>2, <1>4
  <2>5. a[n - 1].reg[SP] - Use(ops[n]) = m.reg[SP] - u[n]
    BY <1>1, <2>1, <2>2, <2>3
  <2>6. m.reg[SP] - u[n] \in Nat
    BY <1>1, <2>1, <2>3, <2>4
  <2>7. ops[n] \in Ops /\ a[n - 1].reg[SP] - Use(ops[n]) \in Nat
    BY <1>2, <2>5, <2>6
  <2>8. /\ Prologue(a[n - 1], ops[n]) \in Machines(Nat)
        /\ Prologue(a[n - 1], ops[n]).reg[SP] = a[n - 1].reg[SP] - Use(ops[n])
        /\ KeepsFrom(a[n - 1], Prologue(a[n - 1], ops[n]), a[n - 1].reg[SP])
    BY <2>2, <2>7, PrologueType, Zenon
  <2>9. a[n] = Prologue(a[n - 1], ops[n])
    BY <1>3
  <2>10. KeepsFrom(m, a[n], m.reg[SP])
    <3>1. a[n - 1].reg[SP] <= m.reg[SP] /\ a[n - 1].reg[SP] \in Int /\ m.reg[SP] \in Int
      BY <1>1, <2>1, <2>2
    <3>2. KeepsFrom(m, a[n - 1], m.reg[SP])
      BY <1>6
    <3> QED
      BY <2>8, <2>9, <3>1, <3>2 DEF KeepsFrom
  <2> QED
    BY <2>1, <2>5, <2>8, <2>9, <2>10
<1> HIDE DEF Good
<1>7. N \in Good
  <2>1. 0 .. N \subseteq Good
    BY <1>2, <1>5, <1>6, UpTo
  <2> QED
    BY <1>2, <2>1
<1> QED
  BY <1>3, <1>4, <1>7 DEF Good

LEMMA CallType ==
    ASSUME NEW call \in Calls
    PROVE  /\ call.f \in DOMAIN Functions /\ call.f \in Nat /\ call.site \in Nat \ {0}
           /\ Functions[call.f].prologue \in Seq(Ops) /\ Functions[call.f].start \in Nat
           /\ MaxFrames * (StackUse(Functions[call.f].prologue) + 68) <= StackTop
           /\ Functions[call.f].start + call.site <
                 IF call.f = Len(Functions) THEN CodeEnd ELSE Functions[call.f + 1].start
<1>1. call.f \in DOMAIN Functions /\ call.site \in Functions[call.f].sites
  BY DEF Calls
<1> QED
  <2> DEFINE f == Functions[call.f]
             behind == IF call.f = Len(Functions) THEN CodeEnd ELSE Functions[call.f + 1].start
  <2>1. /\ \A site \in f.sites : site \in Nat \ {0} /\ f.start + site < behind
        /\ f.prologue \in Seq(Ops)
        /\ MaxFrames * (StackUse(f.prologue) + RegSlot(16)) <= StackTop
    BY <1>1, ProgramAssumption, Zenon DEF Ops
  <2>2. call.f \in Nat /\ f.start \in Nat
    BY <1>1, TableType
  <2>3. RegSlot(16) = 68
    BY DEF RegSlot
  <2> QED
    BY <1>1, <2>1, <2>2, <2>3

(* A call has what its prologue has made of sp and of memory, returns to   *)
(* its site, and leaves the registers it has saved with other values.      *)
LEMMA RunType ==
    ASSUME NEW W, W = Int \/ W = Nat, NEW m \in Machines(Int), NEW call \in Calls,
           Prologues(m, Functions[call.f].prologue) \in Machines(W)
    PROVE  /\ Run(m, call) \in Machines(W)
           /\ Run(m, call).reg[SP] = Prologues(m, Functions[call.f].prologue).reg[SP]
           /\ Run(m, call).mem = Prologues(m, Functions[call.f].prologue).mem
           /\ Run(m, call).reg[LR] = Functions[call.f].start + call.site
           /\ Run(m, call).reg[PC] = Functions[call.f].start + call.site
<1> DEFINE f == Functions[call.f]
           in == Prologues(m, f.prologue)
           free == UNION {ToSet(op.save) : op \in ToSet(f.prologue)}
                       \ ({FP} \cup {op.fp : op \in ToSet(f.prologue)})
           reg == [r \in Regs |-> IF r \in {LR, PC} THEN f.start + call.site
                                  ELSE IF r \in free THEN 100000 + 16 * call.f + r
                                  ELSE in.reg[r]]
<1>1. f.start \in Nat /\ call.site \in Nat /\ call.f \in Nat
  BY CallType
<1>2. Run(m, call) = [in EXCEPT !.reg = reg]
  BY DEF Run
<1>3. SP \notin free
  <2> SUFFICES ASSUME NEW op \in ToSet(f.prologue) PROVE SP \notin ToSet(op.save)
    OBVIOUS
  <2>1. f.prologue \in Seq(Ops)
    BY CallType
  <2>2. op \in Ops
    <3> HIDE DEF f
    <3> QED
      BY <2>1 DEF ToSet
  <2>3. op.save \in Seq(Regs \ {SP})
    BY <2>2, OpType
  <2> QED
    BY <2>3 DEF ToSet
<1> HIDE DEF free, in, f
<1>4. in \in Machines(W)
  BY DEF in, f
<1>5. \A r \in Regs : reg[r] \in W
  <2> TAKE r \in Regs
  <2>1. in.reg[r] \in W /\ r \in Nat
    BY <1>4 DEF Machines, Regs
  <2>2. f.start + call.site \in W /\ 100000 + 16 * call.f + r \in W
    BY <1>1, <2>1
  <2> QED
    BY <2>1, <2>2
<1>6. reg[SP] = in.reg[SP] /\ reg[LR] = f.start + call.site /\ reg[PC] = f.start + call.site
  BY <1>3 DEF SP, LR, PC, Regs
<1>7. reg \in [Regs -> W]
  BY <1>5
<1> HIDE DEF reg
<1>8. Run(m, call) \in Machines(W) /\ Run(m, call).reg = reg /\ Run(m, call).mem = in.mem
  BY <1>2, <1>4, <1>7 DEF Machines
<1> QED
  BY <1>6, <1>8 DEF in, f

LEMMA RunInt ==
    ASSUME NEW m \in Machines(Int), NEW call \in Calls
    PROVE  Run(m, call) \in Machines(Int)
<1> DEFINE ops == Functions[call.f].prologue
<1>1. ops \in Seq(Ops)
  BY CallType
<1> HIDE DEF ops
<1>2. PICK a \in [0 .. Len(ops) -> Machines(Int)] : a[Len(ops)] = Prologues(m, ops)
  BY <1>1, ProloguesSteps
<1>3. Prologues(m, ops) \in Machines(Int)
  BY <1>1, <1>2
<1> QED
  BY <1>3, RunType, Zenon DEF ops

LEMMA RoomLeft ==
    ASSUME NEW M \in Nat \ {0}, NEW x \in Nat, NEW y \in Nat, M * x >= M * y
    PROVE  x >= y
<1> SUFFICES ASSUME x < y PROVE FALSE
  OBVIOUS
<1>1. M * y = M * x + M * (y - x)
  OBVIOUS
<1>2. M * (y - x) >= 1
  OBVIOUS
<1> QED
  BY <1>1, <1>2

(* The stack never reaches the register area, and each frame leaves the    *)
(* words of the frames that called it alone.                               *)
LEMMA FramesIs ==
    ASSUME NEW calls \in Seq(Calls), Len(calls) <= MaxFrames, NEW base \in Nat
    PROVE  LET M == Frames(calls, base)
           IN  /\ \A k \in 0 .. Len(calls) : M[k] \in Machines(Nat) /\ M[k].reg[SP] >= 68
               /\ M[0].reg[LR] = base
               /\ \A k \in 1 .. Len(calls) :
                     LET site == Functions[calls[k].f].start + calls[k].site
                     IN  /\ M[k].reg[LR] = site /\ M[k].reg[PC] = site
                         /\ M[k].reg[SP] <= M[k - 1].reg[SP]
                         /\ KeepsFrom(M[k - 1], M[k], M[k - 1].reg[SP])
<1> DEFINE N == Len(calls)
           M == Machines(Int)
           reg == [r \in Regs |-> IF r = SP THEN StackTop ELSE IF r = LR THEN base ELSE 200000 + r]
           start == [reg |-> reg, mem |-> <<>>]
           step == [n \in 1 .. N |-> [x \in M |-> Run(x, calls[n])]]
           Is(a) == a = [n \in 0 .. N |-> IF n = 0 THEN start ELSE Run(a[n - 1], calls[n])]
           after == CHOOSE a : Is(a)
           Site(n) == Functions[calls[n].f].start + calls[n].site
<1>1. N \in Nat /\ \A n \in 1 .. N : calls[n] \in Calls
  OBVIOUS
<1>2. start \in Machines(Nat) /\ start \in M /\ start.reg[SP] = StackTop /\ start.reg[LR] = base
  <2>1. reg \in [Regs -> Nat] /\ reg[SP] = StackTop /\ reg[LR] = base
    BY DEF Regs, StackTop, SP, LR
  <2>2. <<>> \in Memories(Nat)
    <3>1. <<>> \in [{} -> Nat] /\ {} \in SUBSET Int
      OBVIOUS
    <3> QED
      BY <3>1, Zenon DEF Memories
  <2> HIDE DEF reg
  <2> QED
    BY <2>1, <2>2, MachinesNat DEF Machines
<1>3. \A x \in M, n \in 1 .. N : Run(x, calls[n]) \in M
  BY <1>1, RunInt, Zenon
<1>4. step \in [1 .. N -> [M -> M]]
  BY <1>3
<1>5. \A n \in 1 .. N : \A x \in M : step[n][x] = Run(x, calls[n])
  OBVIOUS
<1>6. Frames(calls, base) = after
  BY DEF Frames
<1> HIDE DEF step, N, M, start
<1>7. PICK f \in [0 .. N -> M] : Recurs(f, N, start, step)
  BY <1>1, <1>2, <1>4, Recursion
<1>8. f = [n \in 0 .. N |-> IF n = 0 THEN start ELSE step[n][f[n - 1]]]
  BY <1>7, Zenon DEF Recurs
<1>9. \A n \in 0 .. N : n = 0 \/ step[n][f[n - 1]] = Run(f[n - 1], calls[n])
  <2> SUFFICES ASSUME NEW n \in 1 .. N PROVE step[n][f[n - 1]] = Run(f[n - 1], calls[n])
    BY <1>1
  <2>1. n - 1 \in 0 .. N
    BY <1>1
  <2> QED
    BY <1>5, <1>7, <2>1
<1>10. Is(f)
  BY <1>8, <1>9
<1>11. Is(after)
  BY <1>10, Zenon
<1> HIDE DEF after
<1>12. after[0] = start /\ \A n \in 1 .. N : after[n] = Run(after[n - 1], calls[n])
  BY <1>1, <1>11
<1> DEFINE Good == {n \in 0 .. N : /\ after[n] \in Machines(Nat) /\ after[n].reg[SP] >= 68
                                   /\ MaxFrames * after[n].reg[SP] >= (MaxFrames - n) * StackTop}
           Called(n) == /\ after[n].reg[LR] = Site(n) /\ after[n].reg[PC] = Site(n)
                        /\ after[n].reg[SP] <= after[n - 1].reg[SP]
                        /\ KeepsFrom(after[n - 1], after[n], after[n - 1].reg[SP])
<1>13. 0 \in Good
  BY <1>1, <1>2, <1>12, UnwindBoundAssumption DEF StackTop
<1>14. ASSUME NEW n \in 1 .. N, n - 1 \in Good
       PROVE  n \in Good /\ Called(n)
  <2> DEFINE m == after[n - 1]
             call == calls[n]
             ops == Functions[call.f].prologue
  <2>1. m \in Machines(Nat) /\ MaxFrames * m.reg[SP] >= (MaxFrames - (n - 1)) * StackTop
    BY <1>14
  <2>2. call \in Calls /\ after[n] = Run(m, call)
    BY <1>1, <1>12
  <2> HIDE DEF m, call
  <2>3. ops \in Seq(Ops) /\ MaxFrames * (StackUse(ops) + 68) <= StackTop
    BY <2>2, CallType
  <2> HIDE DEF ops
  <2>4. m.reg[SP] \in Nat /\ StackUse(ops) \in Nat
    <3>1. PICK u \in [0 .. Len(ops) -> Nat] : u[Len(ops)] = StackUse(ops)
      BY <2>3, StackUseSteps
    <3>2. StackUse(ops) \in Nat
      BY <2>3, <3>1
    <3> QED
      BY <2>1, <3>2, MachineType
  <2>5. MaxFrames \in Nat \ {0} /\ n \in Nat /\ n <= MaxFrames /\ n >= 1
    BY <1>1, UnwindBoundAssumption DEF N
  <2>6. m.reg[SP] >= StackUse(ops) + 68
    <3>1. (MaxFrames - (n - 1)) * StackTop >= StackTop
      BY <2>5 DEF StackTop
    <3>2. MaxFrames * m.reg[SP] >= MaxFrames * (StackUse(ops) + 68)
      <4> DEFINE p == MaxFrames * m.reg[SP]
                 q == MaxFrames * (StackUse(ops) + 68)
                 r == (MaxFrames - (n - 1)) * StackTop
      <4>1. p \in Int /\ q \in Int /\ r \in Int /\ p >= r /\ r >= StackTop /\ StackTop >= q
        BY <2>1, <2>3, <2>4, <2>5, <3>1 DEF StackTop
      <4> HIDE DEF p, q, r
      <4>2. p >= q
        BY <4>1 DEF StackTop
      <4> QED
        BY <4>2 DEF p, q
    <3>3. StackUse(ops) + 68 \in Nat
      BY <2>4
    <3> QED
      BY <2>4, <2>5, <3>2, <3>3, RoomLeft
  <2>7. /\ Prologues(m, ops) \in Machines(Nat)
        /\ Prologues(m, ops).reg[SP] = m.reg[SP] - StackUse(ops)
        /\ KeepsFrom(m, Prologues(m, ops), m.reg[SP])
    <3>1. m.reg[SP] >= StackUse(ops)
      BY <2>4, <2>6
    <3> QED
      BY <2>1, <2>3, <3>1, ProloguesType
  <2>8. /\ Run(m, call) \in Machines(Nat)
        /\ Run(m, call).reg[SP] = m.reg[SP] - StackUse(ops)
        /\ Run(m, call).mem = Prologues(m, ops).mem
        /\ Run(m, call).reg[LR] = Site(n)
        /\ Run(m, call).reg[PC] = Site(n)
    <3>1. m \in Machines(Int)
      BY <2>1, MachinesNat
    <3>2. /\ Run(m, call) \in Machines(Nat)
          /\ Run(m, call).reg[SP] = Prologues(m, ops).reg[SP]
          /\ Run(m, call).mem = Prologues(m, ops).mem
          /\ Run(m, call).reg[LR] = Functions[call.f].start + call.site
          /\ Run(m, call).reg[PC] = Functions[call.f].start + call.site
      BY <2>2, <2>7, <3>1, RunType, Zenon DEF ops
    <3> QED
      BY <2>7, <3>2 DEF call
  <2>9. MaxFrames * Run(m, call).reg[SP] >= (MaxFrames - n) * StackTop
    <3> DEFINE s == Run(m, call).reg[SP]
               p == MaxFrames * m.reg[SP]
               q == MaxFrames * (StackUse(ops) + 68)
               t == MaxFrames * s
    <3>1. s = m.reg[SP] - StackUse(ops) /\ s \in Int
      BY <2>4, <2>8
    <3>2. t = MaxFrames * m.reg[SP] - MaxFrames * StackUse(ops)
      BY <2>4, <2>5, <3>1
    <3>3. MaxFrames * StackUse(ops) <= q /\ q \in Int
      BY <2>4, <2>5
    <3>4. p \in Int /\ t \in Int /\ p >= (MaxFrames - (n - 1)) * StackTop /\ StackTop >= q
      <4>1. p \in Int /\ t \in Int
        BY <2>4, <2>5, <3>1
      <4> QED
        BY <2>1, <2>3, <4>1
    <3>5. t >= p - q
      <4> DEFINE u == MaxFrames * StackUse(ops)
      <4>1. u \in Int /\ u <= q /\ t = p - u
        BY <2>4, <2>5, <3>2, <3>3
      <4> HIDE DEF u, t, p, q
      <4> QED
        BY <3>3, <3>4, <4>1
    <3> HIDE DEF p, q, t
    <3>6. t >= (MaxFrames - n) * StackTop
      BY <2>5, <3>3, <3>4, <3>5 DEF StackTop
    <3> QED
      BY <3>6 DEF t
  <2>10. n \in 0 .. N
    BY <1>1
  <2>11. Run(m, call).reg[SP] >= 68 /\ Run(m, call).reg[SP] <= m.reg[SP]
    BY <2>4, <2>6, <2>8
  <2>12. n \in Good
    BY <2>2, <2>8, <2>9, <2>10, <2>11
  <2>13. KeepsFrom(m, Run(m, call), m.reg[SP])
    BY <2>7, <2>8 DEF KeepsFrom
  <2>14. Called(n)
    <3> HIDE DEF Site
    <3> QED
      BY <2>2, <2>8, <2>11, <2>13 DEF m
  <2> QED
    BY <2>12, <2>14
<1> HIDE DEF Good, Called
<1>15. 0 .. N \subseteq Good
  BY <1>1, <1>13, <1>14, UpTo
<1>16. \A k \in 0 .. N : after[k] \in Machines(Nat) /\ after[k].reg[SP] >= 68
  BY <1>15 DEF Good
<1>17. \A k \in 1 .. N : Called(k)
  <2> SUFFICES ASSUME NEW k \in 1 .. N PROVE Called(k)
    OBVIOUS
  <2>1. k - 1 \in Good
    BY <1>1, <1>15
  <2> QED
    BY <1>14, <2>1
<1>18. after[0].reg[LR] = base
  BY <1>2, <1>12
<1> QED
  BY <1>6, <1>16, <1>17, <1>18, Zenon DEF N, Called

(* Memory has the innermost frame's registers in the register area, and    *)
(* the words of every frame from its sp on.                                *)
LEMMA MemoryIs ==
    ASSUME NEW calls \in Seq(Calls), Len(calls) <= MaxFrames, NEW base \in Nat
    PROVE  LET M == Frames(calls, base)
           IN  /\ Memory(calls, base) \in Memories(Nat)
               /\ \A r \in Regs : WordIn(Memory(calls, base), RegSlot(r)) = M[Len(calls)].reg[r]
               /\ \A k \in 0 .. Len(calls), a \in Int :
                     a >= M[k].reg[SP] => WordIn(Memory(calls, base), a) = WordIn(M[k].mem, a)
<1> DEFINE N == Len(calls)
           M == Frames(calls, base)
           At == {RegSlot(r) : r \in Regs}
           saved == [a \in At |-> M[N].reg[a \div 4 - 1]]
           memory == Memory(calls, base)
<1>1. N \in Nat
  OBVIOUS
<1>2. /\ \A k \in 0 .. N : M[k] \in Machines(Nat) /\ M[k].reg[SP] >= 68
      /\ \A k \in 1 .. N : /\ M[k].reg[SP] <= M[k - 1].reg[SP]
                           /\ KeepsFrom(M[k - 1], M[k], M[k - 1].reg[SP])
  BY FramesIs
<1>3. memory = Over(saved, M[N].mem)
  BY DEF Memory
<1> HIDE DEF M, N, memory
<1>4. M[N].reg \in [Regs -> Nat] /\ M[N].mem \in Memories(Nat)
  BY <1>1, <1>2, MachineType
<1>5. \A r \in Regs : RegSlot(r) \div 4 - 1 = r /\ RegSlot(r) \in Int /\ RegSlot(r) < 68
  BY DEF Regs, RegSlot
<1>6. saved \in [At -> Nat] /\ \A r \in Regs : saved[RegSlot(r)] = M[N].reg[r]
  BY <1>4, <1>5
<1>7. At \in SUBSET Int /\ \A a \in At : a < 68
  BY <1>5
<1>8. \A r \in Regs : RegSlot(r) \in At
  OBVIOUS
<1> HIDE DEF saved, At
<1>9. saved \in Memories(Nat) /\ DOMAIN saved = At
  BY <1>6, <1>7, Zenon DEF Memories
<1>10. memory \in Memories(Nat)
  BY <1>3, <1>4, <1>9, Overlaid
<1>11. \A r \in Regs : WordIn(memory, RegSlot(r)) = M[N].reg[r]
  BY <1>3, <1>6, <1>8, <1>9 DEF Over, WordIn
<1>12. \A a \in Int : a >= 68 => WordIn(memory, a) = WordIn(M[N].mem, a)
  <2> TAKE a \in Int
  <2> HAVE a >= 68
  <2>1. a \notin At
    BY <1>7
  <2> QED
    BY <1>3, <1>9, <2>1 DEF Over, WordIn
<1> DEFINE Kept(n) == \A k \in 0 .. n : M[n].reg[SP] <= M[k].reg[SP] /\ KeepsFrom(M[k], M[n], M[k].reg[SP])
           Good == {n \in 0 .. N : Kept(n)}
<1>13. \A k \in 0 .. N : M[k].reg[SP] \in Nat
  BY <1>2, MachineType
<1>14. 0 \in Good
  BY <1>1, <1>13 DEF KeepsFrom
<1>15. ASSUME NEW n \in 1 .. N, n - 1 \in Good
       PROVE  n \in Good
  <2>1. n \in 0 .. N /\ n - 1 \in 0 .. N
    BY <1>1
  <2>2. ASSUME NEW k \in 0 .. n
        PROVE  M[n].reg[SP] <= M[k].reg[SP] /\ KeepsFrom(M[k], M[n], M[k].reg[SP])
    <3>0. k \in 0 .. N
      BY <1>1
    <3>1. CASE k = n
      BY <1>13, <2>1, <3>1 DEF KeepsFrom
    <3>2. CASE k # n
      <4>1. k \in 0 .. n - 1
        BY <1>1, <3>2
      <4>2. M[n - 1].reg[SP] <= M[k].reg[SP] /\ KeepsFrom(M[k], M[n - 1], M[k].reg[SP])
        BY <1>15, <4>1
      <4>3. M[n].reg[SP] <= M[n - 1].reg[SP] /\ KeepsFrom(M[n - 1], M[n], M[n - 1].reg[SP])
        BY <1>2
      <4>4. M[n].reg[SP] \in Nat /\ M[n - 1].reg[SP] \in Nat /\ M[k].reg[SP] \in Nat
        BY <1>13, <2>1, <3>0
      <4> QED
        BY <4>2, <4>3, <4>4 DEF KeepsFrom
    <3> QED
      BY <3>1, <3>2
  <2> QED
    BY <2>1, <2>2
<1> HIDE DEF Good
<1>16. 0 .. N \subseteq Good
  BY <1>1, <1>14, <1>15, UpTo
<1>17. \A k \in 0 .. N, a \in Int : a >= M[k].reg[SP] => WordIn(memory, a) = WordIn(M[k].mem, a)
  <2> SUFFICES ASSUME NEW k \in 0 .. N, NEW a \in Int, a >= M[k].reg[SP]
               PROVE  WordIn(memory, a) = WordIn(M[k].mem, a)
    OBVIOUS
  <2>1. N \in Good
    BY <1>1, <1>16
  <2>2. KeepsFrom(M[k], M[N], M[k].reg[SP])
    BY <2>1 DEF Good
  <2>3. a >= 68
    BY <1>2, <1>13
  <2> QED
    BY <1>12, <2>2, <2>3 DEF KeepsFrom
<1> QED
  BY <1>10, <1>11, <1>17 DEF M, N, memory

LEMMA ChainIs ==
    ASSUME NEW calls \in Chains
    PROVE  calls \in Seq(Calls) /\ Len(calls) \in Nat /\ Len(calls) >= 1 /\ Len(calls) <= MaxFrames
<1>1. PICK n \in 1 .. MaxFrames : calls \in [1 .. n -> Calls]
  BY DEF Chains
<1>2. n \in Nat /\ n <= MaxFrames /\ n >= 1
  BY <1>1, UnwindBoundAssumption
<1>3. calls \in Seq(Calls)
  BY <1>1, <1>2, SeqDef
<1>4. DOMAIN calls = 1 .. n /\ DOMAIN calls = 1 .. Len(calls) /\ Len(calls) \in Nat
  BY <1>1, <1>3
<1> QED
  BY <1>2, <1>3, <1>4

LEMMA InitMemory == Init => mem \in Memories(Nat)
<1> SUFFICES ASSUME Init PROVE mem \in Memories(Nat)
  OBVIOUS
<1>1. chain \in Chains /\ bottom \in Nat /\ mem = Memory(chain, bottom)
  BY ProgramAssumption DEF Init
<1> QED
  BY <1>1, ChainIs, MemoryIs

-----------------------------------------------------------------------------
(* The instructions of an entry.                                           *)
Byte == 0 .. 255
Words == [1 .. 4 -> Byte]

(* n whole words from the first.                                           *)
BytesOf(w, first, n) == [k \in 1 .. 4 * n |-> w[first + (k - 1) \div 4][((k - 1) % 4) + 1]]

LEMMA WordType ==
    ASSUME NEW w \in Words
    PROVE  /\ w \in Seq(Byte) /\ Len(w) = 4
           /\ Tail(w) \in Seq(Byte) /\ Len(Tail(w)) = 3
           /\ SubSeq(w, 3, 4) \in Seq(Byte) /\ Len(SubSeq(w, 3, 4)) = 2
<1>1. w \in Seq(Byte) /\ Len(w) = 4
  <2>1. w \in [1 .. 4 -> Byte] /\ 4 \in Nat
    BY DEF Words
  <2> HIDE DEF Byte
  <2>2. w \in Seq(Byte)
    BY <2>1, SeqDef
  <2>3. DOMAIN w = 1 .. 4 /\ DOMAIN w = 1 .. Len(w) /\ Len(w) \in Nat
    BY <2>1, <2>2, LenProperties
  <2> QED
    BY <2>2, <2>3
<1> HIDE DEF Byte
<1>2. Tail(w) \in Seq(Byte) /\ Len(Tail(w)) = 3
  BY <1>1
<1>3. SubSeq(w, 3, 4) \in Seq(Byte) /\ Len(SubSeq(w, 3, 4)) = 2
  <2>1. \A i \in 3 .. 4 : w[i] \in Byte
    BY DEF Words
  <2>2. SubSeq(w, 3, 4) = [i \in 1 .. 2 |-> w[i + 2]]
    BY <1>1
  <2>3. \A i \in 1 .. 2 : i + 2 \in 3 .. 4
    OBVIOUS
  <2>4. SubSeq(w, 3, 4) \in [1 .. 2 -> Byte]
    BY <2>1, <2>2, <2>3
  <2>5. SubSeq(w, 3, 4) \in Seq(Byte)
    BY <2>4, SeqDef
  <2>6. DOMAIN SubSeq(w, 3, 4) = 1 .. 2 /\ DOMAIN SubSeq(w, 3, 4) = 1 .. Len(SubSeq(w, 3, 4))
        /\ Len(SubSeq(w, 3, 4)) \in Nat
    BY <2>4, <2>5, LenProperties
  <2> QED
    BY <2>5, <2>6
<1> QED
  BY <1>1, <1>2, <1>3

LEMMA BytesType ==
    ASSUME NEW w \in Seq(Words), NEW first \in Nat \ {0}, NEW n \in Nat, first + n - 1 <= Len(w)
    PROVE  BytesOf(w, first, n) \in Seq(Byte) /\ Len(BytesOf(w, first, n)) = 4 * n
<1> DEFINE s == BytesOf(w, first, n)
<1>1. \A k \in 1 .. 4 * n : /\ first + (k - 1) \div 4 \in 1 .. Len(w)
                            /\ ((k - 1) % 4) + 1 \in 1 .. 4
  <2> TAKE k \in 1 .. 4 * n
  <2>1. k - 1 \in Nat /\ k - 1 < 4 * n
    OBVIOUS
  <2>2. (k - 1) \div 4 \in 0 .. n - 1 /\ (k - 1) % 4 \in 0 .. 3
    BY <2>1
  <2> DEFINE q == (k - 1) \div 4
             r == (k - 1) % 4
  <2> HIDE DEF q, r
  <2>3. q \in 0 .. n - 1 /\ r \in 0 .. 3
    BY <2>2 DEF q, r
  <2>4. first + q \in 1 .. Len(w) /\ r + 1 \in 1 .. 4
    BY <2>3, LenProperties
  <2> QED
    BY <2>4 DEF q, r
<1>2. \A j \in 1 .. Len(w) : \A c \in 1 .. 4 : w[j][c] \in Byte
  <2> TAKE j \in 1 .. Len(w)
  <2>1. w[j] \in Words
    BY ElementOfSeq
  <2> QED
    BY <2>1 DEF Words
<1> HIDE DEF Byte
<1>3. s \in [1 .. 4 * n -> Byte]
  BY <1>1, <1>2 DEF BytesOf
<1>4. 4 * n \in Nat
  OBVIOUS
<1> HIDE DEF s
<1>5. s \in Seq(Byte)
  BY <1>3, <1>4, SeqDef
<1>6. DOMAIN s = 1 .. 4 * n /\ DOMAIN s = 1 .. Len(s) /\ Len(s) \in Nat
  BY <1>3, <1>5, LenProperties
<1>7. Len(s) = 4 * n
  BY <1>4, <1>6
<1> QED
  BY <1>5, <1>7 DEF s

(* The entries that can be unwound.                                        *)
Unwindable == {i \in DOMAIN Functions : Functions[i].words # <<CANT_UNWIND>>}

LEMMA EntryType ==
    ASSUME NEW e \in Unwindable
    PROVE  LET f == Functions[e]
               w == f.words
           IN  /\ w \in Seq(Words) /\ Len(w) \in Nat \ {0} /\ w[1] \in Words
               /\ ~f.inline /\ ~Compact(w[1]) =>
                     /\ w[2] \in Words /\ w[2][1] \in 0 .. 5 /\ Len(w) = w[2][1] + 2
               /\ ~f.inline /\ Compact(w[1]) /\ w[1][1] % 16 \in {1, 2} =>
                     w[1][2] \in 0 .. 5 /\ Len(w) = w[1][2] + 1
               /\ \A j \in Begins(Extract(f)) : j <= Len(Extract(f)) /\ Extract(f)[j] = 178 =>
                     \E k \in j + 1 .. Len(Extract(f)) : Extract(f)[k] < 128
<1> DEFINE f == Functions[e]
           w == f.words
           b == Extract(f)
           more == IF Compact(w[1]) THEN w[1][2] ELSE w[2][1]
<1>1. e \in DOMAIN Functions /\ w # <<CANT_UNWIND>>
  BY DEF Unwindable
<1>2. /\ w \in Seq(Words) /\ w # <<>>
      /\ ~f.inline /\ (Compact(w[1]) => w[1][1] % 16 \in {1, 2}) =>
            more \in 0 .. 5 /\ Len(w) = more + (IF Compact(w[1]) THEN 1 ELSE 2)
      /\ \A j \in Begins(b) : j <= Len(b) /\ b[j] = 178 => \E k \in j + 1 .. Len(b) : b[k] < 128
  BY <1>1, EntriesAssumption, Zenon DEF Words, Byte
<1> HIDE DEF b
<1>3. Len(w) \in Nat \ {0} /\ w[1] \in Words
  BY <1>2, EmptySeq, LenProperties, ElementOfSeq
<1>4. ASSUME ~f.inline, ~Compact(w[1])
      PROVE  w[2] \in Words /\ w[2][1] \in 0 .. 5 /\ Len(w) = w[2][1] + 2
  <2>1. w[2][1] \in 0 .. 5 /\ Len(w) = w[2][1] + 2
    BY <1>2, <1>4
  <2>2. 2 \in 1 .. Len(w)
    BY <2>1
  <2>3. w[2] \in Words
    BY <1>2, <2>2, ElementOfSeq
  <2> QED
    BY <2>1, <2>3
<1>5. ASSUME ~f.inline, Compact(w[1]), w[1][1] % 16 \in {1, 2}
      PROVE  w[1][2] \in 0 .. 5 /\ Len(w) = w[1][2] + 1
  BY <1>2, <1>5
<1> QED
  BY <1>2, <1>3, <1>4, <1>5 DEF b

LEMMA InstructionsType ==
    ASSUME NEW e \in Unwindable
    PROVE  /\ Instructions(Functions[e]) \in Seq(Byte)
           /\ Len(Instructions(Functions[e])) \in 2 .. 23
<1> DEFINE f == Functions[e]
           w == f.words
           s == Instructions(f)
<1>1. /\ w \in Seq(Words) /\ Len(w) \in Nat \ {0} /\ w[1] \in Words
      /\ ~f.inline /\ ~Compact(w[1]) =>
            /\ w[2] \in Words /\ w[2][1] \in 0 .. 5 /\ Len(w) = w[2][1] + 2
      /\ ~f.inline /\ Compact(w[1]) /\ w[1][1] % 16 \in {1, 2} =>
            w[1][2] \in 0 .. 5 /\ Len(w) = w[1][2] + 1
  BY EntryType
<1>2. s = IF f.inline THEN Tail(w[1])
          ELSE IF ~Compact(w[1]) THEN Tail(w[2]) \o BytesOf(w, 3, w[2][1])
          ELSE IF w[1][1] % 16 \in {1, 2}
          THEN SubSeq(w[1], 3, 4) \o BytesOf(w, 2, w[1][2])
          ELSE Tail(w[1])
  BY DEF Instructions, BytesOf
<1> HIDE DEF s, w, f, Byte
<1>3. CASE f.inline \/ (Compact(w[1]) /\ ~(w[1][1] % 16 \in {1, 2}))
  <2>1. s = Tail(w[1])
    BY <1>2, <1>3
  <2>2. s \in Seq(Byte) /\ Len(s) = 3
    BY <1>1, <2>1, WordType
  <2> QED
    BY <2>2 DEF s, f
<1>4. CASE ~f.inline /\ ~Compact(w[1])
  <2> DEFINE t == Tail(w[2])
             u == BytesOf(w, 3, w[2][1])
             n == w[2][1]
  <2>1. s = t \o u
    BY <1>2, <1>4
  <2>2. t \in Seq(Byte) /\ Len(t) = 3
    BY <1>1, <1>4, WordType
  <2>3. n \in Nat /\ n <= 5 /\ 3 + n - 1 <= Len(w) /\ 3 \in Nat \ {0}
    BY <1>1, <1>4
  <2>4. u \in Seq(Byte) /\ Len(u) = 4 * n
    BY <1>1, <2>3, BytesType, Zenon
  <2> HIDE DEF t, u, n
  <2>5. s \in Seq(Byte) /\ Len(s) = Len(t) + Len(u)
    BY <2>1, <2>2, <2>4, ConcatProperties, Zenon
  <2> QED
    BY <2>2, <2>3, <2>4, <2>5 DEF s, f
<1>5. CASE ~f.inline /\ Compact(w[1]) /\ w[1][1] % 16 \in {1, 2}
  <2> DEFINE t == SubSeq(w[1], 3, 4)
             u == BytesOf(w, 2, w[1][2])
             n == w[1][2]
  <2>1. s = t \o u
    BY <1>2, <1>5
  <2>2. t \in Seq(Byte) /\ Len(t) = 2
    BY <1>1, WordType
  <2>3. n \in Nat /\ n <= 5 /\ 2 + n - 1 <= Len(w) /\ 2 \in Nat \ {0}
    BY <1>1, <1>5
  <2>4. u \in Seq(Byte) /\ Len(u) = 4 * n
    BY <1>1, <2>3, BytesType, Zenon
  <2> HIDE DEF t, u, n
  <2>5. s \in Seq(Byte) /\ Len(s) = Len(t) + Len(u)
    BY <2>1, <2>2, <2>4, ConcatProperties, Zenon
  <2> QED
    BY <2>2, <2>3, <2>4, <2>5 DEF s, f
<1> QED
  BY <1>3, <1>4, <1>5

(* The instructions fit the code's buffer and end with FINISH.             *)
Buffers == {b \in Seq(Byte) : Len(b) \in 1 .. 24 /\ b[Len(b)] = FINISH}

LEMMA ExtractType ==
    ASSUME NEW e \in Unwindable
    PROVE  Extract(Functions[e]) \in Buffers
<1> DEFINE s == Instructions(Functions[e])
           b == Extract(Functions[e])
<1>1. s \in Seq(Byte) /\ Len(s) \in 2 .. 23
  BY InstructionsType
<1>2. b = IF s[Len(s)] # FINISH THEN Append(s, FINISH) ELSE s
  BY DEF Extract, Last
<1>3. FINISH \in Byte
  BY DEF Byte, FINISH
<1> HIDE DEF s, b, Byte
<1>4. CASE s[Len(s)] # FINISH
  <2>1. b = Append(s, FINISH)
    BY <1>2, <1>4
  <2>2. b \in Seq(Byte) /\ Len(b) = Len(s) + 1 /\ b[Len(s) + 1] = FINISH
    BY <1>1, <1>3, <2>1, AppendProperties
  <2>3. Len(b) \in 1 .. 24
    <3> DEFINE n == Len(s)
               m == Len(b)
    <3>1. n \in 2 .. 23 /\ m = n + 1
      BY <1>1, <2>2
    <3> HIDE DEF n, m
    <3>2. m \in 1 .. 24
      BY <3>1
    <3> QED
      BY <3>2 DEF m
  <2>4. b[Len(b)] = FINISH
    BY <2>2, Zenon
  <2> QED
    BY <2>2, <2>3, <2>4 DEF Buffers, b
<1>5. CASE s[Len(s)] = FINISH
  BY <1>1, <1>2, <1>5 DEF Buffers, b
<1> QED
  BY <1>4, <1>5

LEMMA BufferType ==
    ASSUME NEW b \in Buffers
    PROVE  /\ b \in Seq(Byte) /\ Len(b) \in Nat /\ Len(b) \in 1 .. 24 /\ b[Len(b)] = FINISH
           /\ \A i \in 1 .. Len(b) : b[i] \in Nat /\ b[i] <= 255
<1>1. b \in Seq(Byte) /\ Len(b) \in Nat /\ Len(b) \in 1 .. 24 /\ b[Len(b)] = FINISH
  BY DEF Buffers
<1>2. \A i \in 1 .. Len(b) : b[i] \in Byte
  BY <1>1, ElementOfSeq
<1>3. \A x \in Byte : x \in Nat /\ x <= 255
  BY DEF Byte
<1> QED
  BY <1>1, <1>2, <1>3

LEMMA Positive ==
    ASSUME NEW n \in Nat
    PROVE  \A k \in 0 .. n : k = 0 \/ k \in 1 .. n
  OBVIOUS

(* The operand at i, when one of its bytes is the last of it.              *)
LEMMA UlebType ==
    ASSUME NEW b \in Buffers, NEW i \in 1 .. Len(b), \E k \in i .. Len(b) : b[k] < 128
    PROVE  UlebLength(b, i) \in 1 .. Len(b) + 1 - i /\ Uleb128(b, i) \in Nat
<1> DEFINE L == Len(b)
           Ends(n) == b[i + n - 1] < 128 /\ \A m \in 1 .. n - 1 : b[i + m - 1] >= 128
           high == UlebLength(b, i)
           T == {n \in 1 .. L + 1 - i : b[i + n - 1] < 128}
           digit(n) == b[i + high - n] % 128
           step == [n \in 1 .. high |-> [x \in Nat |-> 128 * x + digit(n)]]
           Is(u) == u = [n \in 0 .. high |-> IF n = 0 THEN 0 ELSE 128 * u[n - 1] + digit(n)]
           sum == CHOOSE u : Is(u)
<1>1. L \in Nat /\ i \in Nat /\ \A k \in 1 .. L : b[k] \in Nat
  BY BufferType
<1>2. high = CHOOSE n \in 1 .. L + 1 - i : Ends(n)
  BY DEF UlebLength
<1>3. Uleb128(b, i) = sum[high]
  BY DEF Uleb128
<1> HIDE DEF L, high
<1>4. T # {} /\ T \subseteq Nat
  <2>1. PICK k \in i .. L : b[k] < 128
    BY DEF L
  <2>2. k + 1 - i \in 1 .. L + 1 - i /\ i + (k + 1 - i) - 1 = k
    BY <1>1
  <2>3. k + 1 - i \in T
    BY <2>1, <2>2
  <2>4. T \subseteq Nat
    BY <1>1
  <2> QED
    BY <2>3, <2>4
<1>5. PICK n \in T : \A m \in T : n <= m
  <2> HIDE DEF T
  <2> QED
    BY <1>4, LeastNat
<1>6. n \in 1 .. L + 1 - i /\ Ends(n)
  <2>1. n \in 1 .. L + 1 - i /\ b[i + n - 1] < 128
    OBVIOUS
  <2>2. ASSUME NEW m \in 1 .. n - 1
        PROVE  b[i + m - 1] >= 128
    <3>1. m \in 1 .. L + 1 - i /\ m < n /\ i + m - 1 \in 1 .. L
      BY <1>1, <2>1 DEF L
    <3>2. ~(b[i + m - 1] < 128)
      BY <1>5, <3>1, <2>1
    <3> QED
      BY <1>1, <3>1, <3>2
  <2> QED
    BY <2>1, <2>2
<1> HIDE DEF Ends
<1>7. high \in 1 .. L + 1 - i
  BY <1>2, <1>6, Zenon
<1>high. high \in Nat
  BY <1>1, <1>7
<1>8. \A k \in 1 .. high : i + high - k \in 1 .. L
  BY <1>1, <1>7 DEF L
<1>9. \A k \in 1 .. high : digit(k) \in Nat
  <2> TAKE k \in 1 .. high
  <2> DEFINE x == b[i + high - k]
  <2>1. x \in Nat
    BY <1>1, <1>8
  <2> HIDE DEF x
  <2>2. x % 128 \in Nat
    BY <2>1
  <2> QED
    BY <2>2 DEF x
<1> HIDE DEF digit
<1>10. step \in [1 .. high -> [Nat -> Nat]]
  BY <1>9
<1>11. \A k \in 1 .. high : \A x \in Nat : step[k][x] = 128 * x + digit(k)
  OBVIOUS
<1> HIDE DEF step
<1>12. PICK f \in [0 .. high -> Nat] : Recurs(f, high, 0, step)
  BY <1>high, <1>10, Recursion
<1>13. f = [k \in 0 .. high |-> IF k = 0 THEN 0 ELSE step[k][f[k - 1]]]
  BY <1>12, Zenon DEF Recurs
<1>14. \A k \in 0 .. high : k = 0 \/ step[k][f[k - 1]] = 128 * f[k - 1] + digit(k)
  <2>0. \A k \in 0 .. high : k = 0 \/ k \in 1 .. high
    BY <1>high, Positive
  <2> SUFFICES ASSUME NEW k \in 1 .. high
               PROVE  step[k][f[k - 1]] = 128 * f[k - 1] + digit(k)
    BY <2>0
  <2>1. k - 1 \in 0 .. high
    BY <1>high
  <2> QED
    BY <1>11, <1>12, <2>1
<1>15. Is(f)
  BY <1>13, <1>14
<1>16. Is(sum)
  BY <1>15, Zenon
<1> HIDE DEF sum
<1>17. sum[0] = 0 /\ \A k \in 1 .. high : sum[k] = 128 * sum[k - 1] + digit(k)
  BY <1>high, <1>16
<1> DEFINE Typed == {k \in 0 .. high : sum[k] \in Nat}
<1>18. 0 \in Typed
  BY <1>high, <1>17
<1>19. \A k \in 1 .. high : k - 1 \in Typed => k \in Typed
  <2> SUFFICES ASSUME NEW k \in 1 .. high, k - 1 \in Typed PROVE k \in Typed
    OBVIOUS
  <2>1. sum[k - 1] \in Nat /\ digit(k) \in Nat /\ k \in 0 .. high
    BY <1>high, <1>9
  <2>2. sum[k] = 128 * sum[k - 1] + digit(k)
    BY <1>17
  <2>3. sum[k] \in Nat
    BY <2>1, <2>2
  <2> QED
    BY <2>1, <2>3
<1> HIDE DEF Typed
<1>20. 0 .. high \subseteq Typed
  BY <1>high, <1>18, <1>19, UpTo
<1>21. sum[high] \in Nat
  BY <1>high, <1>20 DEF Typed
<1> QED
  BY <1>3, <1>7, <1>21 DEF high, L

(* What an instruction that is not refused is, and where the next begins.  *)
Decoded(edata, room) ==
    /\ edata.cmd \in {"MOVE", "REG_POP", "REG_TO_SP", "FINISH"}
    /\ edata.by \in Int /\ edata.regs \subseteq Regs
    /\ edata.cmd = "REG_TO_SP" => edata.by \in Regs
    /\ edata.size \in 1 .. room

LEMMA BitsType ==
    ASSUME NEW n
    PROVE  /\ Bits(n) \subseteq Regs /\ {r + 4 : r \in Bits(n)} \subseteq Regs
           /\ Cardinality(Bits(n)) \in Nat
<1>1. Bits(n) \subseteq 0 .. 11
  BY DEF Bits
<1>2. IsFiniteSet(0 .. 11)
  BY FS_Interval, 0 \in Int, 11 \in Int, Zenon
<1>3. IsFiniteSet(Bits(n))
  BY <1>1, <1>2, FS_Subset
<1>4. Cardinality(Bits(n)) \in Nat
  BY <1>3, FS_CardinalityType
<1> QED
  BY <1>1, <1>4 DEF Regs

LEMMA MoveIs ==
    ASSUME NEW n \in Int, NEW room \in Nat, NEW size \in 1 .. room
    PROVE  Decoded(Move(n, size), room)
  BY DEF Decoded, Move

LEMMA PopIs ==
    ASSUME NEW regs, regs \subseteq Regs, NEW room \in Nat, NEW size \in 1 .. room
    PROVE  Decoded(Pop(regs, size), room)
  BY DEF Decoded, Pop

(* Which instruction an opcode is.                                         *)
ByOpcode(op, at0, at64, at128, at144, at160, at176,
         at177, at178, at179, at198, at184, at192, at199, refuse) ==
    CASE op \in 0 .. 63 -> at0
      [] op \in 64 .. 127 -> at64
      [] op \in 128 .. 143 -> at128
      [] op \in 144 .. 159 \ {144 + SP, 144 + PC} -> at144
      [] op \in 160 .. 175 -> at160
      [] op = FINISH -> at176
      [] op = 177 -> at177
      [] op = 178 -> at178
      [] op = 179 -> at179
      [] op \in {198, 200, 201} -> at198
      [] op \in 184 .. 191 -> at184
      [] op \in 192 .. 197 \cup 208 .. 215 -> at192
      [] op = 199 -> at199
      [] OTHER -> refuse

LEMMA ByOpcodeIs ==
    ASSUME NEW op \in Nat, op <= 255, NEW refuse,
           NEW at0, NEW at64, NEW at128, NEW at144, NEW at160, NEW at176, NEW at177,
           NEW at178, NEW at179, NEW at198, NEW at184, NEW at192, NEW at199
    PROVE  LET e == ByOpcode(op, at0, at64, at128, at144, at160, at176,
                             at177, at178, at179, at198, at184, at192, at199, refuse)
           IN  /\ op \in 0 .. 63 => e = at0
               /\ op \in 64 .. 127 => e = at64
               /\ op \in 128 .. 143 => e = at128
               /\ op \in 144 .. 159 \ {144 + SP, 144 + PC} => e = at144
               /\ op \in 160 .. 175 => e = at160
               /\ op = FINISH => e = at176
               /\ op = 177 => e = at177
               /\ op = 178 => e = at178
               /\ op = 179 => e = at179
               /\ op \in {198, 200, 201} => e = at198
               /\ op \in 184 .. 191 => e = at184
               /\ op \in 192 .. 197 \cup 208 .. 215 => e = at192
               /\ op = 199 => e = at199
               /\ op \in {157, 159} \cup 180 .. 183 \cup 202 .. 207 \cup 216 .. 255 => e = refuse
<1> DEFINE e == ByOpcode(op, at0, at64, at128, at144, at160, at176,
                         at177, at178, at179, at198, at184, at192, at199, refuse)
<1>1. FINISH = 176 /\ SP = 13 /\ PC = 15
  BY DEF FINISH, SP, PC
<1>2. op \in 0 .. 63 => e = at0
  BY <1>1 DEF ByOpcode
<1>3. op \in 64 .. 127 => e = at64
  BY <1>1 DEF ByOpcode
<1>4. op \in 128 .. 143 => e = at128
  BY <1>1 DEF ByOpcode
<1>5. op \in 144 .. 159 \ {144 + SP, 144 + PC} => e = at144
  BY <1>1 DEF ByOpcode
<1>6. op \in 160 .. 175 => e = at160
  BY <1>1 DEF ByOpcode
<1>7. op = FINISH => e = at176
  BY <1>1 DEF ByOpcode
<1>8. op = 177 => e = at177
  BY <1>1 DEF ByOpcode
<1>9. op = 178 => e = at178
  BY <1>1 DEF ByOpcode
<1>10. op = 179 => e = at179
  BY <1>1 DEF ByOpcode
<1>11. op \in {198, 200, 201} => e = at198
  BY <1>1 DEF ByOpcode
<1>12. op \in 184 .. 191 => e = at184
  BY <1>1 DEF ByOpcode
<1>13. op \in 192 .. 197 \cup 208 .. 215 => e = at192
  BY <1>1 DEF ByOpcode
<1>14. op = 199 => e = at199
  BY <1>1 DEF ByOpcode
<1>15. op \in {157, 159} \cup 180 .. 183 \cup 202 .. 207 \cup 216 .. 255 => e = refuse
  BY <1>1 DEF ByOpcode
<1> HIDE DEF e
<1> QED
  BY <1>2, <1>3, <1>4, <1>5, <1>6, <1>7, <1>8, <1>9, <1>10, <1>11, <1>12, <1>13, <1>14, <1>15, Zenon DEF e

LEMMA PopRange ==
    ASSUME NEW m \in 0 .. 7
    PROVE  4 .. 4 + m \subseteq Regs
  BY DEF Regs

(* An instruction that is not refused has all its bytes.                   *)
LEMMA DecodeIs ==
    ASSUME NEW b \in Buffers, NEW i \in 1 .. Len(b),
           b[i] = 178 => \E k \in i + 1 .. Len(b) : b[k] < 128,
           DecodeAt(b, i).cmd # "REFUSED"
    PROVE  Decoded(DecodeAt(b, i), Len(b) + 1 - i)
<1> DEFINE op == b[i]
           op2 == b[i + 1]
           room == Len(b) + 1 - i
           e == DecodeAt(b, i)
           at0 == Move((4 * op) + 4, 1)
           at64 == Move(-((4 * (op % 64)) + 4), 1)
           at128 == IF op = 128 /\ op2 = 0 THEN Refuse
                    ELSE Pop({r + 4 : r \in Bits(((op % 16) * 256) + op2)}, 2)
           at144 == [cmd |-> "REG_TO_SP", by |-> op % 16, regs |-> {}, size |-> 1]
           at160 == Pop((4 .. 4 + (op % 8)) \cup (IF op % 16 >= 8 THEN {LR} ELSE {}), 1)
           at176 == [cmd |-> "FINISH", by |-> 0, regs |-> {}, size |-> room]
           at177 == IF op2 \in 1 .. 15 THEN Pop(Bits(op2), 2) ELSE Refuse
           at178 == Move(516 + (4 * Uleb128(b, i + 1)), 1 + UlebLength(b, i + 1))
           at179 == Move(8 * ((op2 % 16) + 1) + 4, 2)
           at198 == Move(8 * ((op2 % 16) + 1), 2)
           at184 == Move(8 * ((op % 8) + 1) + 4, 1)
           at192 == Move(8 * ((op % 8) + 1), 1)
           at199 == IF op2 \in 1 .. 15 THEN Move(4 * Cardinality(Bits(op2)), 2) ELSE Refuse
<1>1. Len(b) \in Nat /\ i \in Nat /\ i <= Len(b) /\ op \in Nat /\ op <= 255 /\ b[Len(b)] = FINISH
  BY BufferType
<1>2. room \in Nat /\ 1 \in 1 .. room
  BY <1>1
<1>3. ASSUME op # FINISH
      PROVE  i + 1 \in 1 .. Len(b) /\ op2 \in Nat /\ 2 \in 1 .. room
  <2>1. i # Len(b)
    BY <1>1, <1>3
  <2>2. i + 1 \in 1 .. Len(b) /\ 2 \in 1 .. room
    BY <1>1, <2>1
  <2> QED
    BY <2>2, BufferType
<1>4. Refuse.cmd = "REFUSED"
  BY DEF Refuse
<1>5. e # Refuse
  BY <1>4
<1>6. e = ByOpcode(op, at0, at64, at128, at144, at160, at176,
                   at177, at178, at179, at198, at184, at192, at199, Refuse)
  BY DEF DecodeAt, ByOpcode
<1>7. FINISH = 176 /\ SP = 13 /\ PC = 15
  BY DEF FINISH, SP, PC
<1>8. op % 64 \in Nat /\ op % 16 \in 0 .. 15 /\ op % 8 \in 0 .. 7
  <2> HIDE DEF op
  <2> QED
    BY <1>1
<1> HIDE DEF op, op2, room, e
<1> HIDE DEF at0, at64, at128, at144, at160, at176, at177, at178, at179, at198, at184, at192, at199
<1>opcode. op \in Nat /\ op <= 255
  BY <1>1 DEF op
<1>is. /\ op \in 0 .. 63 => e = at0
       /\ op \in 64 .. 127 => e = at64
       /\ op \in 128 .. 143 => e = at128
       /\ op \in 144 .. 159 \ {144 + SP, 144 + PC} => e = at144
       /\ op \in 160 .. 175 => e = at160
       /\ op = FINISH => e = at176
       /\ op = 177 => e = at177
       /\ op = 178 => e = at178
       /\ op = 179 => e = at179
       /\ op \in {198, 200, 201} => e = at198
       /\ op \in 184 .. 191 => e = at184
       /\ op \in 192 .. 197 \cup 208 .. 215 => e = at192
       /\ op = 199 => e = at199
       /\ op \in {157, 159} \cup 180 .. 183 \cup 202 .. 207 \cup 216 .. 255 => e = Refuse
  BY <1>opcode, <1>6, ByOpcodeIs
<1>9. ASSUME op2 \in Nat PROVE op2 % 16 \in Nat
  BY <1>9
<1>10. CASE op \in 0 .. 63
  <2>1. e = Move((4 * op) + 4, 1)
    <3>1. e = at0
      BY <1>is, <1>7, <1>10
    <3> QED
      BY <3>1 DEF at0
  <2>2. (4 * op) + 4 \in Int
    BY <1>1
  <2> QED
    BY <1>2, <2>1, <2>2, MoveIs DEF e, room
<1>11. CASE op \in 64 .. 127
  <2>1. e = Move(-((4 * (op % 64)) + 4), 1)
    <3>1. e = at64
      BY <1>is, <1>7, <1>11
    <3> QED
      BY <3>1 DEF at64
  <2>2. -((4 * (op % 64)) + 4) \in Int
    BY <1>8
  <2> QED
    BY <1>2, <2>1, <2>2, MoveIs DEF e, room
<1>12. CASE op \in 128 .. 143
  <2>1. e = Pop({r + 4 : r \in Bits(((op % 16) * 256) + op2)}, 2)
    <3>1. e = at128
      BY <1>is, <1>7, <1>12
    <3> QED
      BY <1>5, <3>1 DEF at128
  <2>2. 2 \in 1 .. room
    BY <1>1, <1>3, <1>7, <1>12 DEF op, room
  <2> QED
    BY <1>2, <2>1, <2>2, BitsType, PopIs DEF e, room
<1>13. CASE op \in 144 .. 159
  <2>1. CASE op \in {144 + SP, 144 + PC}
    <3>1. e = Refuse
      BY <1>is, <1>7, <1>13, <2>1
    <3> QED
      BY <1>5, <3>1
  <2>2. CASE op \notin {144 + SP, 144 + PC}
    <3>1. e = [cmd |-> "REG_TO_SP", by |-> op % 16, regs |-> {}, size |-> 1]
      <4>1. e = at144
        BY <1>is, <1>7, <1>13, <2>2
      <4> QED
        BY <4>1 DEF at144
    <3>2. op % 16 \in Regs /\ op % 16 \in Int
      BY <1>8 DEF Regs
    <3>3. Decoded(e, room)
      BY <1>2, <3>1, <3>2 DEF Decoded
    <3> QED
      BY <3>3 DEF e, room
  <2> QED
    BY <2>1, <2>2
<1>14. CASE op \in 160 .. 175
  <2> DEFINE regs == (4 .. 4 + (op % 8)) \cup (IF op % 16 >= 8 THEN {LR} ELSE {})
  <2>1. e = Pop(regs, 1)
    <3>1. e = at160
      BY <1>is, <1>7, <1>14
    <3> QED
      BY <3>1 DEF at160
  <2>2. regs \subseteq Regs
    <3>1. 4 .. 4 + (op % 8) \subseteq Regs
      BY <1>8, PopRange
    <3>2. LR \in Regs
      BY DEF Regs, LR
    <3> QED
      BY <3>1, <3>2
  <2> HIDE DEF regs
  <2> QED
    BY <1>2, <2>1, <2>2, PopIs DEF e, room
<1>15. CASE op = 176
  <2>1. e = [cmd |-> "FINISH", by |-> 0, regs |-> {}, size |-> room]
    <3>1. e = at176
      BY <1>is, <1>7, <1>15
    <3> QED
      BY <3>1 DEF at176
  <2>2. room \in 1 .. room
    BY <1>2
  <2>3. Decoded(e, room)
    BY <2>1, <2>2 DEF Decoded
  <2> QED
    BY <2>3 DEF e, room
<1>16. CASE op = 177
  <2>1. e = Pop(Bits(op2), 2)
    <3>1. e = at177
      BY <1>is, <1>7, <1>16
    <3> QED
      BY <1>5, <3>1 DEF at177
  <2>2. 2 \in 1 .. room
    BY <1>3, <1>7, <1>16 DEF op, room
  <2> QED
    BY <1>2, <2>1, <2>2, BitsType, PopIs DEF e, room
<1>17. CASE op = 178
  <2> DEFINE n == Uleb128(b, i + 1)
             high == UlebLength(b, i + 1)
  <2>1. e = Move(516 + (4 * n), 1 + high)
    <3>1. e = at178
      BY <1>is, <1>7, <1>17
    <3> QED
      BY <3>1 DEF at178
  <2>2. i + 1 \in 1 .. Len(b)
    BY <1>3, <1>7, <1>17 DEF op
  <2>3. \E k \in i + 1 .. Len(b) : b[k] < 128
    BY <1>17 DEF op
  <2>4. high \in 1 .. Len(b) + 1 - (i + 1) /\ n \in Nat
    BY <2>2, <2>3, UlebType
  <2> HIDE DEF n, high
  <2>5. 516 + (4 * n) \in Int /\ 1 + high \in 1 .. room
    BY <1>1, <2>4 DEF room
  <2> QED
    BY <1>2, <2>1, <2>5, MoveIs DEF e, room
<1>18. CASE op = 179
  <2>1. e = Move(8 * ((op2 % 16) + 1) + 4, 2)
    <3>1. e = at179
      BY <1>is, <1>7, <1>18
    <3> QED
      BY <3>1 DEF at179
  <2>2. 2 \in 1 .. room /\ op2 \in Nat
    BY <1>3, <1>7, <1>18 DEF op, op2, room
  <2>3. 8 * ((op2 % 16) + 1) + 4 \in Int
    BY <1>9, <2>2
  <2> QED
    BY <1>2, <2>1, <2>2, <2>3, MoveIs DEF e, room
<1>19. CASE op \in {198, 200, 201}
  <2>1. e = Move(8 * ((op2 % 16) + 1), 2)
    <3>1. e = at198
      BY <1>is, <1>7, <1>19
    <3> QED
      BY <3>1 DEF at198
  <2>2. 2 \in 1 .. room /\ op2 \in Nat
    BY <1>3, <1>7, <1>19 DEF op, op2, room
  <2>3. 8 * ((op2 % 16) + 1) \in Int
    BY <1>9, <2>2
  <2> QED
    BY <1>2, <2>1, <2>2, <2>3, MoveIs DEF e, room
<1>20. CASE op \in 184 .. 191
  <2>1. e = Move(8 * ((op % 8) + 1) + 4, 1)
    <3>1. e = at184
      BY <1>is, <1>7, <1>20
    <3> QED
      BY <3>1 DEF at184
  <2>2. 8 * ((op % 8) + 1) + 4 \in Int
    BY <1>8
  <2> QED
    BY <1>2, <2>1, <2>2, MoveIs DEF e, room
<1>21. CASE op \in 192 .. 197 \cup 208 .. 215
  <2>1. e = Move(8 * ((op % 8) + 1), 1)
    <3>1. e = at192
      BY <1>is, <1>7, <1>21
    <3> QED
      BY <3>1 DEF at192
  <2>2. 8 * ((op % 8) + 1) \in Int
    BY <1>8
  <2> QED
    BY <1>2, <2>1, <2>2, MoveIs DEF e, room
<1>22. CASE op = 199
  <2>1. e = Move(4 * Cardinality(Bits(op2)), 2)
    <3>1. e = at199
      BY <1>is, <1>7, <1>22
    <3> QED
      BY <1>5, <3>1 DEF at199
  <2>2. 2 \in 1 .. room
    BY <1>3, <1>7, <1>22 DEF op, room
  <2>3. 4 * Cardinality(Bits(op2)) \in Int
    BY BitsType
  <2> QED
    BY <1>2, <2>1, <2>2, <2>3, MoveIs DEF e, room
<1>23. CASE op \in 180 .. 183 \cup 202 .. 207 \cup 216 .. 255
  <2>1. e = Refuse
    BY <1>is, <1>7, <1>23
  <2> QED
    BY <1>5, <2>1
<1> QED
  BY <1>opcode, <1>10, <1>11, <1>12, <1>13, <1>14, <1>15, <1>16, <1>17, <1>18, <1>19, <1>20, <1>21, <1>22, <1>23

-----------------------------------------------------------------------------
(* Where the instructions of an entry begin.                               *)
LEMMA BeginsIs ==
    ASSUME NEW b \in Buffers
    PROVE  /\ 1 \in Begins(b)
           /\ \A i \in 1 .. Len(b), k \in 1 .. Len(b) + 1 :
                 i \in Begins(b) /\ i < k /\ i + DecodeAt(b, i).size = k => k \in Begins(b)
<1> DEFINE L == Len(b)
           S == SUBSET Int
           next(n, x) == x \cup {i \in {n + 1} : \E j \in x : j + DecodeAt(b, j).size = i}
           step == [n \in 1 .. L |-> [x \in S |-> next(n, x)]]
           Is(u) == u = [n \in 0 .. L |-> IF n = 0 THEN {1} ELSE next(n, u[n - 1])]
           upTo == CHOOSE u : Is(u)
<1>1. L \in Nat
  BY BufferType
<1>2. {1} \in S /\ \A n \in 1 .. L : \A x \in S : next(n, x) \in S
  <2> SUFFICES ASSUME NEW n \in 1 .. L, NEW x \in S PROVE next(n, x) \in S
    OBVIOUS
  <2>1. n + 1 \in Int
    OBVIOUS
  <2> QED
    BY <2>1
<1>3. Begins(b) = upTo[L]
  BY DEF Begins
<1>4. \A n \in 1 .. L : \A x \in S :
                           /\ x \subseteq next(n, x)
                           /\ \A i \in next(n, x) : i \in x \/ i = n + 1
                           /\ \A j \in x : j + DecodeAt(b, j).size = n + 1 => n + 1 \in next(n, x)
  OBVIOUS
<1> HIDE DEF next, S
<1>5. step \in [1 .. L -> [S -> S]]
  BY <1>2
<1>6. \A n \in 1 .. L : \A x \in S : step[n][x] = next(n, x)
  OBVIOUS
<1> HIDE DEF step, L
<1>7. PICK f \in [0 .. L -> S] : Recurs(f, L, {1}, step)
  BY <1>1, <1>2, <1>5, Recursion
<1>8. f = [n \in 0 .. L |-> IF n = 0 THEN {1} ELSE step[n][f[n - 1]]]
  BY <1>7, Zenon DEF Recurs
<1>9. \A n \in 0 .. L : n = 0 \/ step[n][f[n - 1]] = next(n, f[n - 1])
  <2>0. \A n \in 0 .. L : n = 0 \/ n \in 1 .. L
    BY <1>1, Positive
  <2> SUFFICES ASSUME NEW n \in 1 .. L PROVE step[n][f[n - 1]] = next(n, f[n - 1])
    BY <2>0
  <2>1. n - 1 \in 0 .. L
    BY <1>1
  <2> QED
    BY <1>6, <1>7, <2>1
<1>10. Is(f)
  BY <1>8, <1>9
<1>11. Is(upTo)
  BY <1>10, Zenon
<1> HIDE DEF upTo
<1>12. upTo[0] = {1} /\ \A n \in 1 .. L : upTo[n] = next(n, upTo[n - 1])
  <2>1. 0 \in 0 .. L /\ \A n \in 1 .. L : n \in 0 .. L /\ n # 0
    BY <1>1
  <2> QED
    BY <1>11, <2>1
<1> DEFINE Kept == {n \in 0 .. L : \A m \in 0 .. n : /\ upTo[m] \subseteq upTo[n]
                                                     /\ \A i \in upTo[n] : i <= m + 1 => i \in upTo[m]}
<1>sets. \A n \in 0 .. L : upTo[n] \in S
  <2> DEFINE Typed == {n \in 0 .. L : upTo[n] \in S}
  <2>0. 0 \in 0 .. L
    BY <1>1
  <2>1. 0 \in Typed
    BY <1>2, <1>12, <2>0
  <2>2. \A n \in 1 .. L : n - 1 \in Typed => n \in Typed
    BY <1>1, <1>2, <1>12
  <2> HIDE DEF Typed
  <2>3. 0 .. L \subseteq Typed
    BY <1>1, <2>1, <2>2, UpTo
  <2> QED
    BY <2>3 DEF Typed
<1>13. 0 \in Kept
  BY <1>1, <1>12
<1>14. ASSUME NEW n \in 1 .. L, n - 1 \in Kept
       PROVE  n \in Kept
  <2>1. upTo[n - 1] \subseteq upTo[n] /\ \A i \in upTo[n] : i \in upTo[n - 1] \/ i = n + 1
    <3>1. n - 1 \in 0 .. L
      BY <1>1
    <3>2. upTo[n - 1] \in S /\ upTo[n] = next(n, upTo[n - 1])
      BY <1>12, <1>sets, <3>1
    <3> QED
      BY <1>4, <3>2
  <2>2. n \in 0 .. L /\ n \in Nat /\ \A m \in 0 .. n : m = n \/ (m \in 0 .. n - 1 /\ ~(n + 1 <= m + 1))
    BY <1>1
  <2>3. \A m \in 0 .. n - 1 : /\ upTo[m] \subseteq upTo[n - 1]
                              /\ \A i \in upTo[n - 1] : i <= m + 1 => i \in upTo[m]
    BY <1>14
  <2>4. ASSUME NEW m \in 0 .. n - 1, ~(n + 1 <= m + 1)
        PROVE  upTo[m] \subseteq upTo[n] /\ \A i \in upTo[n] : i <= m + 1 => i \in upTo[m]
    BY <2>1, <2>3, <2>4
  <2>5. \A m \in 0 .. n : upTo[m] \subseteq upTo[n] /\ \A i \in upTo[n] : i <= m + 1 => i \in upTo[m]
    BY <2>2, <2>4
  <2> QED
    BY <2>2, <2>5
<1> HIDE DEF Kept
<1>15. 0 .. L \subseteq Kept
  BY <1>1, <1>13, <1>14, UpTo
<1>16. L \in 0 .. L /\ 0 \in 0 .. L
  BY <1>1
<1>17. \A m \in 0 .. L : upTo[m] \subseteq upTo[L] /\ \A i \in upTo[L] : i <= m + 1 => i \in upTo[m]
  BY <1>15, <1>16 DEF Kept
<1>18. ASSUME NEW i \in 1 .. L, NEW k \in 1 .. L + 1,
              i \in upTo[L], i < k, i + DecodeAt(b, i).size = k
       PROVE  k \in upTo[L]
  <2> DEFINE n == k - 1
  <2>1. n \in 1 .. L /\ n \in 0 .. L /\ n - 1 \in 0 .. L /\ n + 1 = k /\ i <= (n - 1) + 1
    BY <1>1, <1>18
  <2> HIDE DEF n
  <2>2. i \in upTo[n - 1]
    BY <1>17, <1>18, <2>1
  <2>3. k \in upTo[n]
    <3>1. upTo[n - 1] \in S /\ upTo[n] = next(n, upTo[n - 1])
      BY <1>12, <1>sets, <2>1
    <3> QED
      BY <1>4, <1>18, <2>1, <2>2, <3>1
  <2> QED
    BY <1>17, <2>1, <2>3
<1> QED
  BY <1>3, <1>12, <1>16, <1>17, <1>18 DEF L

-----------------------------------------------------------------------------
(* The cursor and the instructions.                                        *)
Cursors == [loc : [Regs -> Int], ip : Nat, cfa : Int]

CursorInv ==
    /\ mem \in Memories(Nat)
    /\ cursor \in Cursors
    /\ buf = <<>> \/ buf \in Buffers
    /\ pos \in 1 .. Len(buf) + 1
    /\ len \in 0 .. MAX_BACKTRACES
    /\ pc = "decode" => \E e \in Unwindable : buf = Extract(Functions[e]) /\ pos \in Begins(buf)

LEMMA WordNat ==
    ASSUME mem \in Memories(Nat)
    PROVE  \A a : Word(a) \in Nat
<1>1. PICK D \in SUBSET Int : mem \in [D -> Nat]
  BY DEF Memories
<1> QED
  BY <1>1 DEF Word, WordIn

LEMMA CursorIs ==
    /\ \A c \in Cursors : c.loc \in [Regs -> Int] /\ c.ip \in Nat /\ c.cfa \in Int
    /\ \A loc \in [Regs -> Int], ip \in Nat, cfa \in Int :
          [loc |-> loc, ip |-> ip, cfa |-> cfa] \in Cursors
  BY Zenon DEF Cursors

LEMMA RegsFinite ==
    ASSUME NEW regs, regs \subseteq Regs
    PROVE  \A s \in SUBSET regs : Cardinality(s) \in Nat
<1>1. IsFiniteSet(0 .. 15)
  BY FS_Interval, 0 \in Int, 15 \in Int, Zenon
<1> SUFFICES ASSUME NEW s \in SUBSET regs PROVE Cardinality(s) \in Nat
  OBVIOUS
<1>2. s \subseteq 0 .. 15
  BY DEF Regs
<1>3. IsFiniteSet(s)
  BY <1>1, <1>2, FS_Subset
<1> QED
  BY <1>3, FS_CardinalityType

LEMMA PopRegsType ==
    ASSUME mem \in Memories(Nat), NEW c \in Cursors, NEW regs, regs \subseteq Regs
    PROVE  PopRegs(c, regs) \in Cursors
<1> DEFINE loc == [r \in Regs |-> IF r \in regs
                                  THEN c.cfa + 4 * Cardinality({q \in regs : q < r})
                                  ELSE c.loc[r]]
           cfa == IF SP \in regs THEN Word(loc[SP]) ELSE c.cfa + 4 * Cardinality(regs)
<1>1. c.loc \in [Regs -> Int] /\ c.ip \in Nat /\ c.cfa \in Int
  BY CursorIs
<1>2. \A s \in SUBSET regs : Cardinality(s) \in Nat
  BY RegsFinite
<1>3. PopRegs(c, regs) = [c EXCEPT !.loc = loc, !.cfa = cfa]
  BY DEF PopRegs
<1>4. loc \in [Regs -> Int]
  <2>1. \A r \in Regs : Cardinality({q \in regs : q < r}) \in Nat
    BY <1>2
  <2> QED
    BY <1>1, <2>1
<1> HIDE DEF loc
<1>5. cfa \in Int
  <2>1. Word(loc[SP]) \in Nat
    BY WordNat
  <2>2. Cardinality(regs) \in Nat
    BY <1>2
  <2> QED
    BY <1>1, <2>1, <2>2
<1> HIDE DEF cfa
<1> QED
  BY <1>3, <1>4, <1>5 DEF Cursors

LEMMA ApplyType ==
    ASSUME mem \in Memories(Nat), NEW c \in Cursors, NEW edata, NEW room, Decoded(edata, room)
    PROVE  Apply(c, edata) \in Cursors
<1>1. c.loc \in [Regs -> Int] /\ c.ip \in Nat /\ c.cfa \in Int
  BY CursorIs
<1>2. edata.cmd \in {"MOVE", "REG_POP", "REG_TO_SP", "FINISH"}
  BY DEF Decoded
<1>3. CASE edata.cmd = "MOVE"
  <2>1. Apply(c, edata) = [c EXCEPT !.cfa = @ + edata.by]
    BY <1>3 DEF Apply
  <2>2. c.cfa + edata.by \in Int
    BY <1>1 DEF Decoded
  <2> QED
    BY <2>1, <2>2 DEF Cursors
<1>4. CASE edata.cmd = "REG_POP"
  <2>1. Apply(c, edata) = PopRegs(c, edata.regs)
    BY <1>4 DEF Apply
  <2> QED
    BY <2>1, PopRegsType DEF Decoded
<1>5. CASE edata.cmd = "REG_TO_SP"
  <2>1. Apply(c, edata) = [c EXCEPT !.loc[SP] = c.loc[edata.by], !.cfa = Word(c.loc[edata.by])]
    BY <1>5 DEF Apply
  <2>2. c.loc[edata.by] \in Int /\ Word(c.loc[edata.by]) \in Int
    BY <1>1, <1>5, WordNat DEF Decoded
  <2> QED
    BY <1>1, <2>1, <2>2 DEF Cursors
<1>6. CASE edata.cmd = "FINISH"
  <2> DEFINE saved == IF c.loc[PC] = NULL THEN c.loc[LR] ELSE c.loc[PC]
  <2>1. Apply(c, edata) = [c EXCEPT !.loc[PC] = saved, !.ip = Word(saved)]
    BY <1>6 DEF Apply
  <2>2. saved \in Int
    BY <1>1 DEF Regs, PC, LR
  <2> HIDE DEF saved
  <2>3. Word(saved) \in Nat
    BY WordNat
  <2> QED
    BY <1>1, <2>1, <2>2, <2>3 DEF Cursors
<1> QED
  BY <1>2, <1>3, <1>4, <1>5, <1>6

LEMMA InitCursor == Init => CursorInv
<1> SUFFICES ASSUME Init PROVE CursorInv
  OBVIOUS
<1>1. /\ pc = "get" /\ cursor = [loc |-> [r \in Regs |-> NULL], ip |-> 0, cfa |-> 0]
      /\ buf = <<>> /\ pos = 1 /\ len = 0
  BY DEF Init
<1>2. cursor \in Cursors
  BY <1>1 DEF Cursors, NULL
<1>3. mem \in Memories(Nat)
  BY InitMemory
<1>4. pos \in 1 .. Len(buf) + 1
  BY <1>1
<1> QED
  BY <1>1, <1>2, <1>3, <1>4, UnwindBoundAssumption DEF CursorInv

(* The cursor that init_dwarf makes.                                       *)
LEMMA BeginCursor ==
    ASSUME CursorInv, Begin
    PROVE  CursorInv'
<1>1. pc' # "decode" /\ UNCHANGED <<mem, buf, pos, len>>
  BY DEF Begin, program
<1>2. cursor' \in Cursors
  <2>1. cursor' = [loc |-> [r \in Regs |-> RegSlot(r)],
                   ip |-> Word(RegSlot(PC)), cfa |-> Word(RegSlot(SP))]
    BY DEF Begin
  <2>2. [r \in Regs |-> RegSlot(r)] \in [Regs -> Int]
    BY DEF Regs, RegSlot
  <2>3. \A a : Word(a) \in Nat /\ Word(a) \in Int
    BY WordNat DEF CursorInv
  <2> QED
    BY <2>1, <2>2, <2>3, CursorIs
<1> QED
  BY <1>1, <1>2 DEF CursorInv

LEMMA EntryIs ==
    ASSUME NEW ip \in Nat, FindProcInfo(ip) # NULL
    PROVE  FindProcInfo(ip) \in DOMAIN Functions
BY EntryFound, TableType

LEMMA StepCursor ==
    ASSUME CursorInv, Step
    PROVE  CursorInv'
<1> DEFINE entry == FindProcInfo(cursor.ip)
<1>1. UNCHANGED <<mem, len>> /\ cursor' = [cursor EXCEPT !.loc[PC] = NULL]
  BY DEF Step, program
<1>2. cursor' \in Cursors
  BY <1>1 DEF CursorInv, Cursors, NULL
<1>3. CASE entry = NULL \/ (entry # NULL /\ Functions[entry].words = <<CANT_UNWIND>>)
  <2>1. pc' = "return" /\ UNCHANGED <<buf, pos>>
    BY <1>3 DEF Step
  <2> QED
    BY <1>1, <1>2, <2>1 DEF CursorInv
<1>4. CASE ~(entry = NULL \/ (entry # NULL /\ Functions[entry].words = <<CANT_UNWIND>>))
  <2>1. buf' = Extract(Functions[entry]) /\ pos' = 1
    BY <1>4 DEF Step
  <2>2. entry \in Unwindable
    <3>1. cursor.ip \in Nat
      BY CursorIs DEF CursorInv
    <3>2. entry \in DOMAIN Functions
      BY <1>4, <3>1, EntryIs
    <3> QED
      BY <1>4, <3>2 DEF Unwindable
  <2> HIDE DEF entry
  <2>3. buf' \in Buffers
    BY <2>1, <2>2, ExtractType
  <2>4. pos' \in Begins(buf') /\ pos' \in 1 .. Len(buf') + 1
    <3>1. 1 \in Begins(buf') /\ Len(buf') \in Nat
      BY <2>3, BeginsIs, BufferType
    <3> QED
      BY <2>1, <3>1
  <2> QED
    BY <1>1, <1>2, <2>1, <2>2, <2>3, <2>4 DEF CursorInv
<1> QED
  BY <1>3, <1>4

LEMMA DecodeCursor ==
    ASSUME CursorInv, Decode
    PROVE  CursorInv'
<1> DEFINE edata == DecodeAt(buf, pos)
<1>1. pc = "decode" /\ pos <= Len(buf) /\ UNCHANGED <<mem, buf, len>>
  BY DEF Decode, program
<1>2. CASE edata.cmd = "REFUSED"
  <2>1. pc' = "callback" /\ UNCHANGED <<cursor, pos>>
    BY <1>2 DEF Decode
  <2> QED
    BY <1>1, <2>1 DEF CursorInv
<1>3. CASE edata.cmd # "REFUSED"
  <2>1. cursor' = Apply(cursor, edata) /\ pos' = pos + edata.size /\ pc' = pc
    BY <1>3 DEF Decode
  <2>2. PICK e \in Unwindable : buf = Extract(Functions[e]) /\ pos \in Begins(buf)
    BY <1>1 DEF CursorInv
  <2>3. buf \in Buffers
    BY <2>2, ExtractType
  <2>4. Len(buf) \in Nat /\ pos \in Nat /\ pos \in 1 .. Len(buf)
    <3>1. Len(buf) \in Nat
      BY <2>3, BufferType
    <3>2. pos \in 1 .. Len(buf) + 1
      BY DEF CursorInv
    <3> QED
      BY <1>1, <3>1, <3>2
  <2>5. buf[pos] = 178 => \E k \in pos + 1 .. Len(buf) : buf[k] < 128
    BY <1>1, <2>2, EntryType
  <2>6. Decoded(edata, Len(buf) + 1 - pos)
    BY <1>3, <2>3, <2>4, <2>5, DecodeIs
  <2>7. cursor' \in Cursors
    BY <2>1, <2>6, ApplyType DEF CursorInv
  <2>8. edata.size \in 1 .. Len(buf) + 1 - pos
    BY <2>6 DEF Decoded
  <2>9. pos' \in 1 .. Len(buf) + 1 /\ pos < pos'
    <3> DEFINE n == Len(buf)
               s == edata.size
    <3>1. n \in Nat /\ pos \in Nat /\ s \in 1 .. n + 1 - pos /\ pos' = pos + s /\ pos >= 1
      BY <2>1, <2>4, <2>8
    <3> HIDE DEF n, s
    <3>2. pos' \in 1 .. n + 1 /\ pos < pos'
      BY <3>1
    <3> QED
      BY <3>2 DEF n
  <2>10. pos' \in Begins(buf)
    BY <2>1, <2>2, <2>3, <2>4, <2>9, BeginsIs
  <2> QED
    BY <1>1, <2>1, <2>2, <2>3, <2>7, <2>9, <2>10 DEF CursorInv
<1> QED
  BY <1>2, <1>3

LEMMA LengthTold ==
    ASSUME StoreInv, len \in 0 .. MAX_BACKTRACES, Unwound \/ FastDone
    PROVE  len' \in 0 .. MAX_BACKTRACES
<1>1. crawl.count \in 0 .. MAX_BACKTRACES /\ fast.size \in 0 .. MAX_BACKTRACES
  BY DEF StoreInv
<1>2. len' = len \/ len' = MAX_BACKTRACES - crawl.count \/ len' = MAX_BACKTRACES - fast.size
  <2>1. CASE Unwound
    BY <2>1 DEF Unwound
  <2>2. CASE FastDone
    BY <2>2 DEF FastDone
  <2> QED
    BY <2>1, <2>2
<1> QED
  BY <1>1, <1>2, UnwindBoundAssumption

LEMMA NextCursor ==
    ASSUME StoreInv, CursorInv, [Next]_vars
    PROVE  CursorInv'
<1>1. CASE Begin
  BY <1>1, BeginCursor
<1>2. CASE Step
  BY <1>2, StepCursor
<1>3. CASE Decode
  BY <1>3, DecodeCursor
<1>4. CASE Stepped
  BY <1>4 DEF Stepped, CursorInv, program, frameVars
<1>5. CASE Callback
  BY <1>5 DEF Callback, CursorInv, program, frameVars
<1>6. CASE Unwound
  <2>1. len' \in 0 .. MAX_BACKTRACES
    BY <1>6, LengthTold DEF CursorInv
  <2>2. pc' # "decode" /\ UNCHANGED <<mem, cursor, buf, pos>>
    BY <1>6 DEF Unwound, program, frameVars
  <2> QED
    BY <2>1, <2>2 DEF CursorInv
<1>7. CASE FastStep
  BY <1>7 DEF FastStep, CursorInv, program, frameVars
<1>8. CASE FastDone
  <2>1. len' \in 0 .. MAX_BACKTRACES
    BY <1>8, LengthTold DEF CursorInv
  <2>2. pc' # "decode" /\ UNCHANGED <<mem, cursor, buf, pos>>
    BY <1>8 DEF FastDone, program, frameVars
  <2> QED
    BY <2>1, <2>2 DEF CursorInv
<1>9. CASE UNCHANGED vars
  BY <1>9 DEF vars, CursorInv, program, frameVars
<1> QED
  BY <1>1, <1>2, <1>3, <1>4, <1>5, <1>6, <1>7, <1>8, <1>9 DEF Next

(* Whatever the program and its calls, the instructions of an entry fit    *)
(* the 32 bytes the code extracts them to, they are run from one beginning *)
(* to the next, and none is read past their end.                           *)
THEOREM UnwindTypeCorrect == Spec => []TypeOK
<1>1. StoreInv /\ CursorInv => TypeOK
  <2> SUFFICES ASSUME StoreInv, CursorInv PROVE TypeOK
    OBVIOUS
  <2>1. Len(buf) <= 32
    <3>1. CASE buf = <<>>
      BY <3>1
    <3>2. CASE buf \in Buffers
      <4> DEFINE n == Len(buf)
      <4>1. n \in 1 .. 24
        BY <3>2, BufferType
      <4> HIDE DEF n
      <4>2. n <= 32
        BY <4>1
      <4> QED
        BY <4>2 DEF n
    <3> QED
      BY <3>1, <3>2 DEF CursorInv
  <2>2. pc \in {"get", "step", "decode", "callback", "return", "fast", "end"}
    BY DEF StoreInv, UnwinderSteps
  <2> QED
    BY <2>1, <2>2 DEF StoreInv, CursorInv, TypeOK, Cursors
<1>2. Init => StoreInv /\ CursorInv
  BY InitStore, InitCursor
<1>3. StoreInv /\ CursorInv /\ [Next]_vars => StoreInv' /\ CursorInv'
  BY NextStore, NextCursor
<1> QED
  BY <1>1, <1>2, <1>3, PTL DEF Spec

-----------------------------------------------------------------------------
(* The callers.  The unwinder is followed frame by frame: its cursor has   *)
(* the places of the values that the ABI's reader has.                     *)

(* A call's site is looked up to the function that makes the call.         *)
LEMMA CallFound ==
    ASSUME NEW call \in Calls
    PROVE  FindProcInfo(Functions[call.f].start + call.site) = call.f
<1> DEFINE f == call.f
           N == Len(Functions)
           ip == Functions[f].start + call.site
           e == FindProcInfo(ip)
           Start(i) == Functions[i].start
<1>1. /\ f \in 1 .. N /\ call.site \in Nat \ {0} /\ Start(f) \in Nat
      /\ ip < IF f = N THEN CodeEnd ELSE Start(f + 1)
  BY CallType, TableType
<1>2. /\ N \in Nat /\ CodeEnd \in Nat
      /\ \A i \in 1 .. N : Start(i) \in Nat /\ Start(i) < CodeEnd
      /\ \A i, j \in 1 .. N : i < j => Start(i) < Start(j)
  BY TableAssumption, TableType
<1>3. ip \in Int
  BY <1>1
<1>4. IF ~HasTable(ip) \/ ip < Start(1) THEN e = NULL
      ELSE e \in 1 .. N /\ \A i \in 1 .. N : Start(i) <= ip <=> i <= e
  BY <1>3, EntryFound
<1>5. ip = Start(f) + call.site
  OBVIOUS
<1>6. HasTable(ip) <=> ip >= Start(1) - 50 /\ ip < CodeEnd
  BY DEF HasTable
<1> HIDE DEF f, N, ip, e, Start
<1>7. Start(1) <= Start(f) /\ 1 \in 1 .. N
  <2>1. CASE f = 1
    BY <1>1, <1>2, <2>1
  <2>2. CASE f # 1
    BY <1>1, <1>2, <2>2
  <2> QED
    BY <2>1, <2>2
<1>8. ip < CodeEnd
  <2>1. CASE f = N
    BY <1>1, <2>1
  <2>2. CASE f # N
    <3>1. f + 1 \in 1 .. N
      BY <1>1, <1>2, <2>2
    <3>2. ip < Start(f + 1) /\ Start(f + 1) < CodeEnd /\ Start(f + 1) \in Nat
      BY <1>1, <1>2, <2>2, <3>1
    <3> QED
      BY <1>2, <1>3, <3>2
  <2> QED
    BY <2>1, <2>2
<1>9. HasTable(ip) /\ ~(ip < Start(1))
  BY <1>1, <1>2, <1>3, <1>5, <1>6, <1>7, <1>8
<1>10. e \in 1 .. N /\ \A i \in 1 .. N : Start(i) <= ip <=> i <= e
  BY <1>4, <1>9
<1>11. f <= e
  BY <1>1, <1>5, <1>10
<1>12. e <= f
  <2> SUFFICES ASSUME ~(e <= f) PROVE FALSE
    OBVIOUS
  <2>1. f + 1 \in 1 .. N /\ f + 1 <= e /\ f # N
    BY <1>1, <1>2, <1>10
  <2>2. Start(f + 1) <= ip /\ ip < Start(f + 1) /\ Start(f + 1) \in Nat
    BY <1>1, <1>2, <1>10, <2>1
  <2> QED
    BY <1>3, <2>2
<1>13. e = f
  BY <1>1, <1>2, <1>10, <1>11, <1>12
<1> QED
  BY <1>13 DEF e, f, ip, Start

(* The reader after an instruction.                                        *)
Read(b, m, s) ==
    [pos |-> s.pos + DecodeAt(b, s.pos).size, v |-> Executed(s.v, m.mem, DecodeAt(b, s.pos))]

LEMMA ExecutionIs ==
    ASSUME NEW b, Len(b) \in Nat, NEW m
    PROVE  LET run == Execution(b, m)
           IN  /\ run[0] = [pos |-> 1, v |-> Entered(m)]
               /\ \A n \in 1 .. Len(b) : run[n] = Read(b, m, run[n - 1])
<1> DEFINE N == Len(b)
           base == [pos |-> 1, v |-> Entered(m)]
           Is(f, k) == f = [n \in 0 .. k |-> IF n = 0 THEN base ELSE Read(b, m, f[n - 1])]
           Have == {k \in 0 .. N : \E f : Is(f, k)}
           run == CHOOSE f : Is(f, N)
<1>1. Execution(b, m) = run
  BY DEF Execution, Read
<1> HIDE DEF N, base
<1>2. N \in Nat
  BY DEF N
<1>3. 0 \in Have
  <2>1. Is([n \in 0 .. 0 |-> base], 0)
    OBVIOUS
  <2>2. 0 \in 0 .. N
    BY <1>2
  <2> QED
    BY <2>1, <2>2, Zenon
<1>4. ASSUME NEW k \in 1 .. N, k - 1 \in Have
      PROVE  k \in Have
  <2>1. PICK f : Is(f, k - 1)
    BY <1>4
  <2> DEFINE g == [n \in 0 .. k |-> IF n < k THEN f[n] ELSE Read(b, m, f[k - 1])]
  <2>2. k \in Nat /\ k >= 1 /\ k \in 0 .. N
    BY <1>2
  <2>3. \A n \in 0 .. k - 1 : f[n] = IF n = 0 THEN base ELSE Read(b, m, f[n - 1])
    BY <2>1
  <2>4. g = [n \in 0 .. k |-> g[n]] /\ g[k] = Read(b, m, f[k - 1]) /\ \A n \in 0 .. k - 1 : g[n] = f[n]
    BY <2>2
  <2> HIDE DEF g
  <2>5. \A n \in 0 .. k : g[n] = IF n = 0 THEN base ELSE Read(b, m, g[n - 1])
    <3> TAKE n \in 0 .. k
    <3>1. CASE n = k
      <4>1. k - 1 \in 0 .. k - 1 /\ n # 0
        BY <2>2, <3>1
      <4> QED
        BY <2>4, <3>1, <4>1
    <3>2. CASE n < k /\ n # 0
      <4>1. n \in 0 .. k - 1 /\ n - 1 \in 0 .. k - 1
        BY <2>2, <3>2
      <4> QED
        BY <2>3, <2>4, <3>2, <4>1
    <3>3. CASE n = 0
      <4>1. n \in 0 .. k - 1
        BY <2>2, <3>3
      <4> QED
        BY <2>3, <2>4, <3>3, <4>1
    <3> QED
      BY <2>2, <3>1, <3>2, <3>3
  <2>6. Is(g, k)
    BY <2>4, <2>5
  <2> QED
    BY <2>2, <2>6, Zenon
<1>5. \A k \in 1 .. N : k - 1 \in Have => k \in Have
  BY <1>4
<1> HIDE DEF Have
<1>6. N \in Have
  <2>1. 0 .. N \subseteq Have
    BY <1>2, <1>3, <1>5, UpTo
  <2> QED
    BY <1>2, <2>1
<1>7. Is(run, N)
  <2>1. PICK f : Is(f, N)
    BY <1>6, Zenon DEF Have
  <2> QED
    BY <2>1, Zenon
<1> HIDE DEF run
<1>8. run[0] = base /\ \A n \in 1 .. N : run[n] = Read(b, m, run[n - 1])
  BY <1>2, <1>7
<1> QED
  BY <1>1, <1>8 DEF N, base

(* How many addresses are stored when j have been handed on.               *)
Kept(j) ==
    IF j <= Ignore THEN 0 ELSE IF j - Ignore <= MAX_BACKTRACES THEN j - Ignore ELSE MAX_BACKTRACES

HandedOn(j) ==
    /\ Len(stored) = Kept(j)
    /\ \A i \in 1 .. Len(stored) : stored[i] = Returns(Len(chain) + 1 - (Ignore + i))
    /\ crawl.ignore = IF j <= Ignore THEN Ignore - j ELSE 0

Machine(k) == Frames(chain, bottom)[k]

(* The cursor is that of frame k, or of what called the outermost, and the *)
(* frames above can be unwound.                                            *)
Passed(k) == \A j \in k + 1 .. Len(chain) : ~Opaque(j)

AtFrame(k) ==
    /\ Passed(k)
    /\ cursor.ip = Machine(k).reg[LR]
    /\ cursor.cfa = Machine(k).reg[SP]
    /\ \A r \in Preserved : cursor.loc[r] # NULL /\ Word(cursor.loc[r]) = Machine(k).reg[r]

(* The cursor has the places of the values the ABI's reader knows.         *)
Holds(c, v) ==
    /\ \A r \in DOMAIN v.val : r \in Regs \ {SP} /\ c.loc[r] # NULL /\ Word(c.loc[r]) = v.val[r]
    /\ c.loc[PC] # NULL => PC \in DOMAIN v.val
    /\ c.cfa = v.vsp
    /\ c.ip = v.ip

InFrame(k) ==
    LET run == Execution(buf, Machine(k))
    IN  /\ Passed(k - 1)
        /\ buf = Extract(Functions[chain[k].f])
        /\ \E n \in 0 .. Len(buf) :
              /\ RestoresAfter(n, buf, Machine(k), Machine(k - 1))
              /\ \E i \in 0 .. n : pos = run[i].pos /\ Holds(cursor, run[i].v)

(* All the callers have been handed on, or as many as fit.                 *)
Complete ==
    \E j \in 0 .. Len(chain) - Outermost :
        /\ HandedOn(j)
        /\ j = Len(chain) - Outermost \/ Ignore + MAX_BACKTRACES <= j

UnwindsChain ==
    /\ MAX_BACKTRACES > 0
    /\ \A i \in DOMAIN chain : ~Refuses(Functions[chain[i].f])

ProgramInv == chain \in Chains /\ bottom \in Bottoms /\ mem = Memory(chain, bottom)

AtStep ==
    \E k \in 0 .. Len(chain) : AtFrame(k) /\ HandedOn(Len(chain) - k) /\ (k = 0 => bottom # 0)

AtDecode == \E k \in 1 .. Len(chain) : InFrame(k) /\ HandedOn(Len(chain) - k)

AtCallback ==
    \E k \in 0 .. Len(chain) - 1 :
        AtFrame(k) /\ HandedOn(Len(chain) - k - 1) /\ cursor.ip # 0

FrameInv ==
    UnwindsChain =>
        /\ pc = "get" => HandedOn(0)
        /\ pc = "step" => AtStep
        /\ pc = "decode" => AtDecode
        /\ pc = "callback" => AtCallback
        /\ pc = "return" => Complete
        /\ pc = "fast" => Len(chain) - Outermost <= Ignore
        /\ pc = "end" => Len(chain) - Outermost <= Ignore \/ (Complete /\ len = Len(stored))

(* Popping from the frame m or behind it gives the code places, and the    *)
(* reader the words at them.                                               *)
LEMMA PoppedHolds ==
    ASSUME NEW c \in Cursors, NEW v, Holds(c, v),
           NEW m, m.reg[SP] \in Nat, m.reg[SP] >= 68, v.vsp >= m.reg[SP],
           \A a \in Int : a >= m.reg[SP] => Word(a) = WordIn(m.mem, a),
           NEW regs, regs \subseteq Regs
    PROVE  Holds(PopRegs(c, regs), Popped(v, m.mem, regs))
<1> DEFINE Slot(r) == c.cfa + 4 * Cardinality({q \in regs : q < r})
           Slots == [r \in regs \ {SP} |-> WordIn(m.mem, Slot(r))]
           d == PopRegs(c, regs)
           w == Popped(v, m.mem, regs)
<1>1. c.loc \in [Regs -> Int] /\ c.cfa \in Int /\ v.vsp = c.cfa /\ c.ip = v.ip
  BY CursorIs DEF Holds
<1>2. /\ d.loc = [r \in Regs |-> IF r \in regs THEN Slot(r) ELSE c.loc[r]]
      /\ d.cfa = IF SP \in regs THEN Word(d.loc[SP]) ELSE c.cfa + 4 * Cardinality(regs)
      /\ d.ip = c.ip
  BY DEF PopRegs, Cursors
<1>3. /\ w.val = Over(Slots, v.val)
      /\ w.vsp = IF SP \in regs THEN WordIn(m.mem, Slot(SP)) ELSE c.cfa + 4 * Cardinality(regs)
      /\ w.ip = v.ip
  BY <1>1 DEF Popped
<1> HIDE DEF d, w
<1>4. \A r \in regs : Slot(r) \in Int /\ Slot(r) # NULL /\ Word(Slot(r)) = WordIn(m.mem, Slot(r))
  <2> TAKE r \in regs
  <2>1. Cardinality({q \in regs : q < r}) \in Nat
    BY RegsFinite
  <2>2. Slot(r) \in Int /\ Slot(r) >= m.reg[SP]
    BY <1>1, <2>1
  <2> HIDE DEF Slot
  <2> QED
    BY <2>2 DEF NULL
<1> HIDE DEF Slot
<1>5. DOMAIN w.val = (regs \ {SP}) \cup DOMAIN v.val
  BY <1>3 DEF Over
<1>6. \A r \in regs \ {SP} : w.val[r] = WordIn(m.mem, Slot(r))
  BY <1>3 DEF Over
<1>7. \A r \in DOMAIN v.val \ (regs \ {SP}) : w.val[r] = v.val[r]
  BY <1>3 DEF Over
<1>8. \A r \in DOMAIN w.val : r \in Regs \ {SP} /\ d.loc[r] # NULL /\ Word(d.loc[r]) = w.val[r]
  <2> TAKE r \in DOMAIN w.val
  <2>1. CASE r \in regs \ {SP}
    BY <1>2, <1>4, <1>6, <2>1
  <2>2. CASE r \notin regs \ {SP}
    <3>1. r \in DOMAIN v.val /\ r \in Regs \ {SP} /\ c.loc[r] # NULL /\ Word(c.loc[r]) = v.val[r]
      BY <1>5, <2>2 DEF Holds
    <3>2. d.loc[r] = c.loc[r]
      BY <1>2, <2>2, <3>1
    <3> QED
      BY <1>7, <2>2, <3>1, <3>2
  <2> QED
    BY <2>1, <2>2
<1>9. d.loc[PC] # NULL => PC \in DOMAIN w.val
  <2>1. PC \in Regs /\ PC # SP
    BY DEF PC, SP, Regs
  <2>2. PC \in regs \/ d.loc[PC] = c.loc[PC]
    BY <1>2, <2>1
  <2> QED
    BY <1>5, <2>1, <2>2 DEF Holds
<1>10. d.cfa = w.vsp
  <2>1. CASE SP \in regs
    BY <1>2, <1>3, <1>4, <2>1
  <2>2. CASE SP \notin regs
    BY <1>2, <1>3, <2>2
  <2> QED
    BY <2>1, <2>2
<1> QED
  BY <1>1, <1>2, <1>3, <1>8, <1>9, <1>10, Zenon DEF Holds, d, w

LEMMA FinishedHolds ==
    ASSUME NEW c \in Cursors, NEW v, Holds(c, v), {LR, PC} \cap DOMAIN v.val # {},
           NEW edata, edata.cmd = "FINISH"
    PROVE  Holds(Apply(c, edata), Finished(v))
<1> DEFINE saved == IF c.loc[PC] = NULL THEN c.loc[LR] ELSE c.loc[PC]
           r == IF PC \in DOMAIN v.val THEN PC ELSE LR
           to == v.val[r]
           d == Apply(c, edata)
           w == Finished(v)
<1>1. c.loc \in [Regs -> Int] /\ v.vsp = c.cfa /\ PC \in Regs /\ PC # SP
  BY CursorIs DEF Holds, PC, SP, Regs
<1>2. d = [c EXCEPT !.loc[PC] = saved, !.ip = Word(saved)]
  BY DEF Apply
<1> HIDE DEF saved
<1>3. d.loc = [c.loc EXCEPT ![PC] = saved] /\ d.cfa = c.cfa /\ d.ip = Word(saved)
  BY <1>2 DEF Cursors
<1>4. w.val = Over([q \in {PC} |-> to], v.val) /\ w.vsp = v.vsp /\ w.ip = to
  BY DEF Finished
<1>5. r \in DOMAIN v.val /\ saved = c.loc[r]
  <2>1. PC \in DOMAIN v.val => c.loc[PC] # NULL
    BY DEF Holds
  <2>2. c.loc[PC] # NULL => PC \in DOMAIN v.val
    BY DEF Holds
  <2> QED
    BY <2>1, <2>2 DEF saved
<1> HIDE DEF r
<1>6. saved # NULL /\ Word(saved) = to
  BY <1>5 DEF Holds
<1> HIDE DEF to, d, w
<1>7. DOMAIN w.val = {PC} \cup DOMAIN v.val /\ w.val[PC] = to
      /\ \A q \in DOMAIN v.val \ {PC} : w.val[q] = v.val[q]
  BY <1>4 DEF Over
<1>8. d.loc[PC] = saved /\ \A q \in Regs \ {PC} : d.loc[q] = c.loc[q]
  BY <1>1, <1>3
<1>9. \A q \in DOMAIN w.val : q \in Regs \ {SP} /\ d.loc[q] # NULL /\ Word(d.loc[q]) = w.val[q]
  <2> TAKE q \in DOMAIN w.val
  <2>1. CASE q = PC
    BY <1>1, <1>6, <1>7, <1>8, <2>1
  <2>2. CASE q # PC
    <3>1. q \in DOMAIN v.val \ {PC}
      BY <1>7, <2>2
    <3>2. q \in Regs \ {SP} /\ c.loc[q] # NULL /\ Word(c.loc[q]) = v.val[q]
      BY <3>1 DEF Holds
    <3> QED
      BY <1>7, <1>8, <2>2, <3>1, <3>2
  <2> QED
    BY <2>1, <2>2
<1> QED
  BY <1>1, <1>3, <1>4, <1>6, <1>7, <1>9, Zenon DEF Holds, d, w

(* The code's instruction is the ABI's.                                    *)
LEMMA ExecutedHolds ==
    ASSUME NEW c \in Cursors, NEW v, Holds(c, v),
           NEW m, m.reg[SP] \in Nat, m.reg[SP] >= 68,
           \A a \in Int : a >= m.reg[SP] => Word(a) = WordIn(m.mem, a),
           NEW edata, NEW room, Decoded(edata, room), Allowed(v, m, edata)
    PROVE  Holds(Apply(c, edata), Executed(v, m.mem, edata))
<1>1. CASE edata.cmd = "MOVE"
  <2>1. /\ Apply(c, edata).loc = c.loc /\ Apply(c, edata).ip = c.ip
        /\ Apply(c, edata).cfa = c.cfa + edata.by
    BY <1>1 DEF Apply, Cursors
  <2>2. Executed(v, m.mem, edata) = [val |-> v.val, vsp |-> v.vsp + edata.by, ip |-> v.ip]
    BY <1>1 DEF Executed
  <2> QED
    BY <2>1, <2>2 DEF Holds
<1>2. CASE edata.cmd = "REG_POP"
  <2>1. Apply(c, edata) = PopRegs(c, edata.regs)
    BY <1>2 DEF Apply
  <2>2. Executed(v, m.mem, edata) = Popped(v, m.mem, edata.regs)
    BY <1>2 DEF Executed
  <2>3. v.vsp >= m.reg[SP] /\ edata.regs \subseteq Regs
    BY <1>2 DEF Allowed, Decoded
  <2> QED
    BY <2>1, <2>2, <2>3, PoppedHolds
<1>3. CASE edata.cmd = "REG_TO_SP"
  <2>1. edata.by \in DOMAIN v.val
    BY <1>3 DEF Allowed
  <2>2. Apply(c, edata) = [c EXCEPT !.loc[SP] = c.loc[edata.by], !.cfa = Word(c.loc[edata.by])]
    BY <1>3 DEF Apply
  <2>3. /\ Apply(c, edata).ip = c.ip /\ Apply(c, edata).cfa = Word(c.loc[edata.by])
        /\ Apply(c, edata).loc = [c.loc EXCEPT ![SP] = c.loc[edata.by]]
    BY <2>2 DEF Cursors
  <2>4. \A r \in Regs \ {SP} : Apply(c, edata).loc[r] = c.loc[r]
    <3>1. c.loc \in [Regs -> Int]
      BY CursorIs
    <3> QED
      BY <2>3, <3>1
  <2>5. Executed(v, m.mem, edata) = [val |-> v.val, vsp |-> v.val[edata.by], ip |-> v.ip]
    BY <1>3 DEF Executed
  <2>6. PC \in Regs \ {SP}
    BY DEF PC, SP, Regs
  <2> QED
    BY <2>1, <2>3, <2>4, <2>5, <2>6 DEF Holds
<1>4. CASE edata.cmd = "FINISH"
  <2>1. Executed(v, m.mem, edata) = Finished(v)
    BY <1>4 DEF Executed
  <2>2. {LR, PC} \cap DOMAIN v.val # {}
    BY <1>4 DEF Allowed
  <2> QED
    BY <1>4, <2>1, <2>2, FinishedHolds
<1> QED
  BY <1>1, <1>2, <1>3, <1>4 DEF Decoded

-----------------------------------------------------------------------------
LEMMA MachinesIs ==
    ASSUME ProgramInv
    PROVE  /\ Len(chain) \in Nat /\ Len(chain) >= 1 /\ DOMAIN chain = 1 .. Len(chain)
           /\ bottom \in Nat /\ FindProcInfo(bottom) = NULL /\ Machine(0).reg[LR] = bottom
           /\ \A k \in 0 .. Len(chain) :
                 /\ Machine(k).reg[SP] \in Nat /\ Machine(k).reg[SP] >= 68
                 /\ Machine(k).reg[LR] \in Nat /\ Machine(k).reg[LR] = Returns(k + 1)
                 /\ \A a \in Int : a >= Machine(k).reg[SP] => Word(a) = WordIn(Machine(k).mem, a)
           /\ \A k \in 1 .. Len(chain) :
                 /\ chain[k].f \in DOMAIN Functions /\ chain[k].f # NULL
                 /\ Machine(k).reg[PC] = Machine(k).reg[LR] /\ Machine(k).reg[LR] # 0
                 /\ FindProcInfo(Machine(k).reg[LR]) = chain[k].f
           /\ \A r \in Regs : Word(RegSlot(r)) = Machine(Len(chain)).reg[r]
<1> DEFINE n == Len(chain)
           Site(k) == Functions[chain[k].f].start + chain[k].site
<1>1. chain \in Seq(Calls) /\ n \in Nat /\ n >= 1 /\ n <= MaxFrames
  BY ChainIs DEF ProgramInv
<1>2. bottom \in Nat /\ FindProcInfo(bottom) = NULL
  BY ProgramAssumption, BottomAssumption DEF ProgramInv
<1>3. /\ \A k \in 0 .. n : Machine(k) \in Machines(Nat) /\ Machine(k).reg[SP] >= 68
      /\ Machine(0).reg[LR] = bottom
      /\ \A k \in 1 .. n : Machine(k).reg[LR] = Site(k) /\ Machine(k).reg[PC] = Site(k)
  BY <1>1, <1>2, FramesIs DEF Machine
<1>4. /\ \A r \in Regs : Word(RegSlot(r)) = Machine(n).reg[r]
      /\ \A k \in 0 .. n, a \in Int : a >= Machine(k).reg[SP] => Word(a) = WordIn(Machine(k).mem, a)
  BY <1>1, <1>2, MemoryIs DEF Machine, Word, ProgramInv
<1>5. DOMAIN chain = 1 .. n
  BY <1>1
<1>6. \A k \in 1 .. n : /\ chain[k].f \in DOMAIN Functions /\ chain[k].f # NULL
                       /\ Site(k) \in Nat /\ Site(k) # 0 /\ FindProcInfo(Site(k)) = chain[k].f
  <2> TAKE k \in 1 .. n
  <2>1. chain[k] \in Calls
    BY <1>1
  <2>2. /\ chain[k].f \in DOMAIN Functions /\ chain[k].site \in Nat \ {0}
        /\ Functions[chain[k].f].start \in Nat
    BY <2>1, CallType
  <2>3. chain[k].f # NULL
    BY <2>2, TableType DEF NULL
  <2> QED
    BY <2>1, <2>2, <2>3, CallFound
<1>7. \A k \in 0 .. n : Machine(k).reg[SP] \in Nat
  BY <1>3, MachineType
<1>8. \A k \in 0 .. n : Machine(k).reg[LR] = Returns(k + 1)
  <2> TAKE k \in 0 .. n
  <2>1. CASE k = 0
    BY <1>3, <2>1 DEF Returns
  <2>2. CASE k # 0
    <3>1. k \in 1 .. n /\ (k + 1) - 1 = k /\ k + 1 # 1
      BY <1>1, <2>2
    <3> QED
      BY <1>3, <3>1 DEF Returns
  <2> QED
    BY <2>1, <2>2
<1>9. \A k \in 0 .. n : Machine(k).reg[LR] \in Nat
  BY <1>1, <1>2, <1>3, <1>6, Positive
<1> QED
  BY <1>1, <1>2, <1>3, <1>4, <1>5, <1>6, <1>7, <1>8, <1>9

(* The outermost frame whose return is not found.                          *)
LEMMA OutermostIs ==
    ASSUME Len(chain) \in Nat, Len(chain) >= 1, NEW k \in 0 .. Len(chain), Passed(k)
    PROVE  /\ Outermost \in 0 .. Len(chain) /\ Outermost <= k + 1
           /\ k = 0 => Outermost = IF bottom = 0 THEN 1 ELSE 0
           /\ k # 0 /\ Opaque(k) => Outermost = k
<1> DEFINE n == Len(chain)
           Ends(i) == (i > 0 => Opaque(i)) /\ \A j \in i + 1 .. n : ~Opaque(j)
           last == CHOOSE i \in 0 .. n : Ends(i)
           S == {m \in 0 .. n : \E i \in 0 .. m : (i > 0 => Opaque(i)) /\ \A j \in i + 1 .. m : ~Opaque(j)}
<1>1. Outermost = IF last = 0 /\ bottom = 0 THEN 1 ELSE last
  BY DEF Outermost
<1> HIDE DEF n
<1>2. n \in Nat /\ n >= 1 /\ k \in 0 .. n
  BY DEF n
<1>3. 0 \in S
  BY <1>2
<1>4. ASSUME NEW m \in 1 .. n, m - 1 \in S
      PROVE  m \in S
  <2>1. m \in 0 .. n /\ m \in Nat /\ m > 0
    BY <1>2
  <2>2. CASE Opaque(m)
    <3>1. m \in 0 .. m /\ m + 1 .. m = {}
      BY <2>1
    <3> QED
      BY <2>1, <2>2, <3>1
  <2>3. CASE ~Opaque(m)
    <3>1. PICK i \in 0 .. m - 1 : (i > 0 => Opaque(i)) /\ \A j \in i + 1 .. m - 1 : ~Opaque(j)
      BY <1>4
    <3>2. i \in 0 .. m /\ \A j \in i + 1 .. m : j = m \/ j \in i + 1 .. m - 1
      BY <2>1, <3>1
    <3>3. \A j \in i + 1 .. m : ~Opaque(j)
      BY <2>3, <3>1, <3>2
    <3> QED
      BY <2>1, <3>1, <3>2, <3>3
  <2> QED
    BY <2>2, <2>3
<1> HIDE DEF S
<1>5. n \in S
  <2>1. 0 .. n \subseteq S
    BY <1>2, <1>3, <1>4, UpTo
  <2> QED
    BY <1>2, <2>1
<1>6. PICK i \in 0 .. n : Ends(i)
  BY <1>5 DEF S
<1>7. last \in 0 .. n /\ Ends(last)
  BY <1>6, Zenon
<1> HIDE DEF last
<1>8. last <= k
  <2> SUFFICES ASSUME ~(last <= k) PROVE FALSE
    OBVIOUS
  <2>1. last \in k + 1 .. n /\ last > 0
    BY <1>2, <1>7
  <2> QED
    BY <1>7, <2>1 DEF Passed, n
<1>9. k # 0 /\ Opaque(k) => k <= last
  <2> SUFFICES ASSUME k # 0, Opaque(k), ~(k <= last) PROVE FALSE
    BY <1>2, <1>7
  <2>1. k \in last + 1 .. n
    BY <1>2, <1>7
  <2> QED
    BY <1>7, <2>1
<1>10. Outermost \in 0 .. n /\ Outermost <= k + 1
  BY <1>1, <1>2, <1>7, <1>8
<1>11. k = 0 => last = 0
  BY <1>2, <1>7, <1>8
<1>12. k # 0 /\ Opaque(k) => last = k
  BY <1>2, <1>7, <1>8, <1>9
<1> QED
  BY <1>1, <1>2, <1>10, <1>11, <1>12 DEF n

-----------------------------------------------------------------------------
(* What a step leaves alone.                                               *)
LEMMA SameProgram ==
    ASSUME UNCHANGED program
    PROVE  /\ ProgramInv' <=> ProgramInv
           /\ UnwindsChain' <=> UnwindsChain
           /\ Len(chain)' = Len(chain) /\ Outermost' = Outermost /\ bottom' = bottom
           /\ \A k : Machine(k)' = Machine(k) /\ Returns(k)' = Returns(k)
           /\ \A k : Passed(k)' <=> Passed(k)
           /\ \A a : Word(a)' = Word(a)
<1>1. chain' = chain /\ bottom' = bottom /\ mem' = mem
  BY DEF program
<1>2. Outermost' = Outermost
  BY <1>1 DEF Outermost, Opaque
<1>3. UnwindsChain' <=> UnwindsChain
  BY <1>1 DEF UnwindsChain
<1>4. \A k : Machine(k)' = Machine(k) /\ Returns(k)' = Returns(k)
  BY <1>1 DEF Machine, Returns
<1>5. \A k : Passed(k)' <=> Passed(k)
  BY <1>1 DEF Passed, Opaque
<1>6. \A a : Word(a)' = Word(a)
  BY <1>1 DEF Word
<1>7. ProgramInv' <=> ProgramInv
  BY <1>1 DEF ProgramInv
<1> QED
  BY <1>1, <1>2, <1>3, <1>4, <1>5, <1>6, <1>7

LEMMA SameHanded ==
    ASSUME UNCHANGED <<program, stored, crawl>>
    PROVE  /\ \A j : HandedOn(j)' <=> HandedOn(j)
           /\ Complete' <=> Complete
<1>1. UNCHANGED program /\ stored' = stored /\ crawl' = crawl
  OBVIOUS
<1>2. Len(chain)' = Len(chain) /\ Outermost' = Outermost /\ \A k : Returns(k)' = Returns(k)
  BY <1>1, SameProgram
<1>3. \A j : HandedOn(j)' <=> HandedOn(j)
  BY <1>1, <1>2 DEF HandedOn, Kept
<1> QED
  BY <1>2, <1>3 DEF Complete

LEMMA SameFrame ==
    ASSUME UNCHANGED <<program, cursor>>
    PROVE  \A k : AtFrame(k)' <=> AtFrame(k)
<1>1. UNCHANGED program /\ cursor' = cursor
  OBVIOUS
<1>2. /\ \A k : Machine(k)' = Machine(k) /\ (Passed(k)' <=> Passed(k))
      /\ \A a : Word(a)' = Word(a)
  BY <1>1, SameProgram
<1> QED
  BY <1>1, <1>2 DEF AtFrame

(* A frame or the reader's values, for the cursor a step makes.            *)
LEMMA FrameNext ==
    ASSUME UNCHANGED program, NEW k
    PROVE  AtFrame(k)' <=>
               /\ Passed(k)
               /\ cursor'.ip = Machine(k).reg[LR]
               /\ cursor'.cfa = Machine(k).reg[SP]
               /\ \A r \in Preserved : /\ cursor'.loc[r] # NULL
                                       /\ Word(cursor'.loc[r]) = Machine(k).reg[r]
<1>1. mem' = mem /\ Machine(k)' = Machine(k) /\ (Passed(k)' <=> Passed(k))
  BY SameProgram DEF program
<1> QED
  BY <1>1 DEF AtFrame, Word

LEMMA HoldsNext ==
    ASSUME UNCHANGED program, NEW v
    PROVE  Holds(cursor, v)' <=> Holds(cursor', v)
<1>1. mem' = mem
  BY DEF program
<1> QED
  BY <1>1 DEF Holds, Word

-----------------------------------------------------------------------------
LEMMA BeginFrame ==
    ASSUME ProgramInv, UnwindsChain, HandedOn(0), Begin
    PROVE  pc' = "step" /\ AtStep'
<1>1. /\ pc' = "step" /\ UNCHANGED <<program, stored, crawl>>
      /\ cursor' = [loc |-> [r \in Regs |-> RegSlot(r)],
                    ip |-> Word(RegSlot(PC)), cfa |-> Word(RegSlot(SP))]
  BY DEF Begin, UnwindsChain
<1>2. PICK n \in Nat : n = Len(chain) /\ n >= 1
  BY MachinesIs
<1>3. /\ Machine(n).reg[PC] = Machine(n).reg[LR]
      /\ \A r \in Regs : Word(RegSlot(r)) = Machine(n).reg[r]
  <2>1. n \in 1 .. n
    BY <1>2
  <2> QED
    BY <1>2, <2>1, MachinesIs
<1>4. /\ PC \in Regs /\ SP \in Regs /\ Preserved \subseteq Regs
      /\ \A r \in Preserved : RegSlot(r) # NULL
  BY DEF PC, SP, Regs, Preserved, RegSlot, NULL
<1>5. Len(chain)' = n /\ HandedOn(0)'
  BY <1>1, <1>2, SameProgram, SameHanded
<1>6. Passed(n)
  BY <1>2 DEF Passed
<1>7. AtFrame(n)'
  <2>1. /\ cursor'.ip = Machine(n).reg[LR] /\ cursor'.cfa = Machine(n).reg[SP]
        /\ \A r \in Preserved : cursor'.loc[r] = RegSlot(r)
    BY <1>1, <1>3, <1>4
  <2>2. \A r \in Preserved : cursor'.loc[r] # NULL /\ Word(cursor'.loc[r]) = Machine(n).reg[r]
    BY <1>3, <1>4, <2>1
  <2> QED
    BY <1>1, <1>6, <2>1, <2>2, FrameNext
<1>8. n - n = 0 /\ n # 0 /\ n \in 0 .. n
  BY <1>2
<1> QED
  BY <1>1, <1>5, <1>7, <1>8 DEF AtStep

(* All the callers have been handed on when the frame the trace has come   *)
(* to is the last.                                                         *)
LEMMA AllHanded ==
    ASSUME Len(chain) \in Nat, NEW k \in 0 .. Len(chain), HandedOn(Len(chain) - k), Outermost = k
    PROVE  Complete
<1>1. Len(chain) - k \in 0 .. Len(chain) - Outermost
  OBVIOUS
<1> QED
  BY <1>1 DEF Complete

LEMMA StepFrame ==
    ASSUME ProgramInv, CursorInv, UnwindsChain, AtStep, Step
    PROVE  (pc' = "return" /\ Complete') \/ (pc' = "decode" /\ AtDecode')
<1> DEFINE n == Len(chain)
           entry == FindProcInfo(cursor.ip)
<1>1. UNCHANGED <<program, stored, crawl>> /\ cursor' = [cursor EXCEPT !.loc[PC] = NULL]
  BY DEF Step
<1>2. PICK k \in 0 .. n : AtFrame(k) /\ HandedOn(n - k) /\ (k = 0 => bottom # 0)
  BY DEF AtStep
<1>3. n \in Nat /\ n >= 1 /\ DOMAIN chain = 1 .. n
  BY MachinesIs
<1>4. /\ Len(chain)' = n /\ \A i : Machine(i)' = Machine(i)
      /\ \A a : Word(a)' = Word(a)
      /\ \A i : Passed(i)' <=> Passed(i)
      /\ \A j : HandedOn(j)' <=> HandedOn(j)
      /\ Complete' <=> Complete
      /\ chain' = chain
  BY <1>1, SameProgram, SameHanded DEF program
<1>5. Passed(k) /\ cursor.ip = Machine(k).reg[LR]
  BY <1>2 DEF AtFrame
<1>6. CASE k = 0
  <2>1. entry = NULL
    BY <1>5, <1>6, MachinesIs
  <2>2. pc' = "return"
    BY <2>1 DEF Step
  <2>3. Outermost = 0
    BY <1>2, <1>3, <1>5, <1>6, OutermostIs
  <2>4. Complete
    BY <1>2, <1>3, <1>6, <2>3, AllHanded
  <2> QED
    BY <1>4, <2>2, <2>4
<1>7. CASE k # 0
  <2> DEFINE f == Functions[chain[k].f]
             m == Machine(k)
  <2>0. k \in 1 .. n
    BY <1>3, <1>7
  <2>1. entry = chain[k].f /\ entry # NULL
    BY <1>5, <2>0, MachinesIs
  <2>2. CASE Opaque(k)
    <3>1. pc' = "return"
      BY <2>1, <2>2 DEF Step, Opaque
    <3>2. Outermost = k
      BY <1>3, <1>5, <1>7, <2>2, OutermostIs
    <3>3. Complete
      BY <1>2, <1>3, <3>2, AllHanded
    <3> QED
      BY <1>4, <3>1, <3>3
  <2>3. CASE ~Opaque(k)
    <3>1. pc' = "decode" /\ buf' = Extract(f) /\ pos' = 1
      BY <2>1, <2>3 DEF Step, Opaque
    <3>2. Passed(k - 1)
      <4>1. \A j \in (k - 1) + 1 .. n : j = k \/ j \in k + 1 .. n
        BY <1>3, <2>0
      <4> QED
        BY <1>5, <2>3, <4>1 DEF Passed
    <3>3. Restores(Extract(f), m, Machine(k - 1))
      <4>1. f.words # <<CANT_UNWIND>> /\ ~Refuses(f)
        BY <1>3, <2>0, <2>3 DEF Opaque, UnwindsChain
      <4>2. chain \in Chains /\ bottom \in Bottoms /\ k \in DOMAIN chain
        BY <1>3, <2>0 DEF ProgramInv
      <4> QED
        BY <4>1, <4>2, FramesAssumption DEF Machine
    <3> DEFINE b == Extract(f)
               run == Execution(b, m)
    <3>4. PICK N \in 0 .. Len(b) : RestoresAfter(N, b, m, Machine(k - 1))
      BY <3>3 DEF Restores
    <3>5. Len(b) \in Nat
      <4>1. chain[k].f \in Unwindable
        BY <2>0, <2>3, MachinesIs DEF Unwindable, Opaque
      <4> QED
        BY <4>1, ExtractType, BufferType
    <3>6. run[0] = [pos |-> 1, v |-> Entered(m)]
      <4> HIDE DEF b, m
      <4> QED
        BY <3>5, ExecutionIs
    <3>7. PICK v : v = Entered(m)
      OBVIOUS
    <3>8. Holds(cursor', v)
      <4>1. /\ v.val = [r \in Preserved |-> m.reg[r]]
            /\ v.vsp = m.reg[SP] /\ v.ip = m.reg[LR]
        <5>1. m.reg[PC] = m.reg[LR]
          BY <2>0, MachinesIs
        <5> QED
          BY <3>7, <5>1 DEF Entered
      <4>2. Preserved \subseteq Regs \ {SP, PC} /\ PC \in Regs
        BY DEF Preserved, Regs, SP, PC
      <4>3. cursor.loc \in [Regs -> Int] /\ cursor \in Cursors
        BY CursorIs DEF CursorInv
      <4>4. /\ cursor'.loc = [cursor.loc EXCEPT ![PC] = NULL]
            /\ cursor'.cfa = cursor.cfa /\ cursor'.ip = cursor.ip
        BY <1>1, <4>3 DEF Cursors
      <4>5. cursor'.loc[PC] = NULL /\ \A r \in Preserved : cursor'.loc[r] = cursor.loc[r]
        BY <4>2, <4>3, <4>4
      <4>6. /\ cursor.cfa = m.reg[SP] /\ cursor.ip = m.reg[LR]
            /\ \A r \in Preserved : cursor.loc[r] # NULL /\ Word(cursor.loc[r]) = m.reg[r]
        BY <1>2 DEF AtFrame
      <4> HIDE DEF m
      <4>7. DOMAIN v.val = Preserved /\ \A r \in Preserved : v.val[r] = m.reg[r]
        BY <4>1
      <4> QED
        BY <4>1, <4>2, <4>4, <4>5, <4>6, <4>7 DEF Holds
    <3>10. InFrame(k)'
      <4>1. 0 \in 0 .. N /\ pos' = run[0].pos /\ run[0].v = v
        <5>1. 0 \in 0 .. N
          BY <3>5
        <5> HIDE DEF run
        <5> QED
          BY <3>1, <3>6, <3>7, <5>1
      <4>2. Holds(cursor, run[0].v)'
        <5>1. Holds(cursor, v)'
          BY <1>1, <3>8, HoldsNext
        <5>2. run[0].v' = v
          <6>1. run' = run
            BY <1>4
          <6> HIDE DEF run
          <6> QED
            BY <4>1, <6>1
        <5> HIDE DEF run
        <5> QED
          BY <5>1, <5>2 DEF Holds
      <4> QED
        BY <1>4, <3>1, <3>2, <3>4, <4>1, <4>2 DEF InFrame
    <3>9. HandedOn(n - k)'
      BY <1>2, <1>4
    <3> QED
      BY <1>4, <2>0, <3>1, <3>10, <3>9 DEF AtDecode
  <2> QED
    BY <2>2, <2>3
<1> QED
  BY <1>6, <1>7

(* What runs next in a frame is not refused, and is all there.             *)
LEMMA DecodedHere ==
    ASSUME CursorInv, pc = "decode", pos <= Len(buf), DecodeAt(buf, pos).cmd # "REFUSED"
    PROVE  Len(buf) \in Nat /\ Decoded(DecodeAt(buf, pos), Len(buf) + 1 - pos)
<1>1. PICK e \in Unwindable : buf = Extract(Functions[e]) /\ pos \in Begins(buf)
  BY DEF CursorInv
<1>2. buf \in Buffers
  BY <1>1, ExtractType
<1>3. Len(buf) \in Nat
  BY <1>2, BufferType
<1>4. pos \in 1 .. Len(buf)
  <2>1. pos \in 1 .. Len(buf) + 1
    BY DEF CursorInv
  <2> QED
    BY <1>3, <2>1
<1>5. buf[pos] = 178 => \E k \in pos + 1 .. Len(buf) : buf[k] < 128
  BY <1>1, EntryType
<1> QED
  BY <1>2, <1>3, <1>4, <1>5, DecodeIs

LEMMA DecodeFrame ==
    ASSUME ProgramInv, CursorInv, UnwindsChain, AtDecode, Decode
    PROVE  pc' = "decode" /\ AtDecode'
<1>1. /\ pc = "decode" /\ pos <= Len(buf) /\ UNCHANGED <<program, stored, crawl>> /\ buf' = buf
  BY DEF Decode
<1>2. PICK k \in 1 .. Len(chain) : InFrame(k) /\ HandedOn(Len(chain) - k)
  BY DEF AtDecode
<1>3. PICK b : b = buf
  OBVIOUS
<1>4. PICK m : m = Machine(k)
  OBVIOUS
<1> DEFINE run == Execution(b, m)
<1>n. PICK N \in 0 .. Len(b) : /\ RestoresAfter(N, b, m, Machine(k - 1))
                               /\ \E i \in 0 .. N : pos = run[i].pos /\ Holds(cursor, run[i].v)
  BY <1>2, <1>3, <1>4 DEF InFrame
<1>5. PICK i \in 0 .. N : /\ RestoresAfter(N, b, m, Machine(k - 1))
                          /\ pos = run[i].pos
                          /\ Holds(cursor, run[i].v)
  BY <1>n
<1>6. Passed(k - 1) /\ b = Extract(Functions[chain[k].f])
  BY <1>2, <1>3 DEF InFrame
<1>7. buf \in Buffers /\ Len(b) \in Nat
  <2>1. buf \in Buffers
    BY <1>1, ExtractType DEF CursorInv
  <2> QED
    BY <1>3, <2>1, BufferType
<1> DEFINE edata == DecodeAt(b, pos)
<1>8. i < N
  <2>1. run[N].pos = Len(b) + 1
    BY <1>5 DEF RestoresAfter
  <2> HIDE DEF run
  <2>2. i # N
    BY <1>1, <1>3, <1>5, <1>7, <2>1
  <2> QED
    BY <1>5, <1>7, <2>2
<1>9. Allowed(run[i].v, m, edata)
  <2>1. i \in 0 .. N - 1
    BY <1>7, <1>8
  <2>2. Allowed(run[i].v, m, DecodeAt(b, run[i].pos))
    BY <1>5, <2>1 DEF RestoresAfter
  <2> QED
    BY <1>5, <2>2
<1> HIDE DEF run
<1>10. edata.cmd # "REFUSED"
  BY <1>9 DEF Allowed
<1>11. cursor' = Apply(cursor, edata) /\ pos' = pos + edata.size /\ pc' = "decode"
  BY <1>1, <1>3, <1>10 DEF Decode
<1>12. Decoded(edata, Len(b) + 1 - pos)
  BY <1>1, <1>3, <1>10, DecodedHere
<1>13. i + 1 \in 1 .. Len(b) /\ i + 1 \in 0 .. N /\ (i + 1) - 1 = i
  BY <1>7, <1>8
<1>14. run[i + 1] = Read(b, m, run[i])
  BY <1>7, <1>13, ExecutionIs DEF run
<1>15. run[i + 1].pos = pos' /\ run[i + 1].v = Executed(run[i].v, m.mem, edata)
  <2>1. run[i + 1] = [pos |-> pos + edata.size, v |-> Executed(run[i].v, m.mem, edata)]
    BY <1>5, <1>14 DEF Read
  <2> HIDE DEF edata
  <2> QED
    BY <1>11, <2>1
<1>16. Holds(cursor', run[i + 1].v)
  <2>1. k \in 0 .. Len(chain)
    BY <1>2, MachinesIs
  <2>2. /\ m.reg[SP] \in Nat /\ m.reg[SP] >= 68
        /\ \A a \in Int : a >= m.reg[SP] => Word(a) = WordIn(m.mem, a)
    BY <1>4, <2>1, MachinesIs
  <2>3. cursor \in Cursors
    BY DEF CursorInv
  <2> HIDE DEF edata
  <2>4. Holds(Apply(cursor, edata), Executed(run[i].v, m.mem, edata))
    BY <1>5, <1>9, <1>12, <2>2, <2>3, ExecutedHolds
  <2> QED
    BY <1>11, <1>15, <2>4
<1>17. Holds(cursor, run[i + 1].v)'
  <2>1. PICK v : v = run[i + 1].v
    OBVIOUS
  <2>2. Holds(cursor, v)'
    BY <1>1, <1>16, <2>1, HoldsNext
  <2>3. run[i + 1].v' = v
    BY <2>1
  <2> QED
    BY <2>2, <2>3 DEF Holds
<1>18. /\ Len(chain)' = Len(chain) /\ Machine(k)' = m /\ Machine(k - 1)' = Machine(k - 1)
       /\ Passed(k - 1)' /\ HandedOn(Len(chain) - k)' /\ chain' = chain
  <2>1. PICK j : j = Len(chain) - k
    OBVIOUS
  <2>2. HandedOn(j)'
    BY <1>1, <1>2, <2>1, SameHanded
  <2>3. chain' = chain
    BY <1>1 DEF program
  <2> QED
    BY <1>1, <1>4, <1>6, <2>1, <2>2, <2>3, SameProgram
<1>19. InFrame(k)'
  BY <1>1, <1>3, <1>5, <1>6, <1>13, <1>15, <1>17, <1>18 DEF InFrame, run
<1> QED
  BY <1>11, <1>18, <1>19 DEF AtDecode

LEMMA SteppedFrame ==
    ASSUME ProgramInv, CursorInv, UnwindsChain, AtDecode, Stepped
    PROVE  (pc' = "return" /\ Complete') \/ (pc' = "callback" /\ AtCallback')
<1>1. /\ pc = "decode" /\ pos > Len(buf) /\ UNCHANGED <<program, cursor, stored, crawl>>
      /\ pc' = IF cursor.ip = 0 THEN "return" ELSE "callback"
  BY DEF Stepped, frameVars
<1>2. PICK k \in 1 .. Len(chain) : InFrame(k) /\ HandedOn(Len(chain) - k)
  BY DEF AtDecode
<1>3. PICK l \in Nat : l = Len(chain) /\ l >= 1
  BY MachinesIs
<1> DEFINE run == Execution(buf, Machine(k))
<1>n. PICK N \in 0 .. Len(buf) : /\ RestoresAfter(N, buf, Machine(k), Machine(k - 1))
                                 /\ \E i \in 0 .. N : pos = run[i].pos /\ Holds(cursor, run[i].v)
  BY <1>2 DEF InFrame
<1>4. PICK i \in 0 .. N : /\ RestoresAfter(N, buf, Machine(k), Machine(k - 1))
                          /\ pos = run[i].pos
                          /\ Holds(cursor, run[i].v)
  BY <1>n
<1>5. Len(buf) \in Nat
  BY <1>1, ExtractType, BufferType DEF CursorInv
<1>6. i = N
  <2> SUFFICES ASSUME i # N PROVE FALSE
    OBVIOUS
  <2>1. i \in 0 .. N - 1
    BY <1>5
  <2>2. run[i].pos <= Len(buf)
    BY <1>4, <2>1 DEF RestoresAfter
  <2>3. pos \in Int
    BY <1>5 DEF CursorInv
  <2> HIDE DEF run
  <2> QED
    BY <1>1, <1>4, <1>5, <2>2, <2>3
<1>7. AtFrame(k - 1)
  <2> DEFINE v == run[N].v
             c == Machine(k - 1)
  <2>1. /\ v.ip = c.reg[LR] /\ v.vsp = c.reg[SP]
        /\ \A r \in Preserved : r \in DOMAIN v.val /\ v.val[r] = c.reg[r]
    BY <1>4 DEF RestoresAfter
  <2>2. Holds(cursor, v)
    BY <1>4, <1>6
  <2>3. Passed(k - 1)
    BY <1>2 DEF InFrame
  <2> HIDE DEF v
  <2> QED
    BY <2>1, <2>2, <2>3 DEF AtFrame, Holds
<1>8. /\ Len(chain)' = l /\ AtFrame(k - 1)' /\ (Complete' <=> Complete)
      /\ \A j : HandedOn(j)' <=> HandedOn(j)
  BY <1>1, <1>3, <1>7, SameProgram, SameFrame, SameHanded
<1>9. CASE cursor.ip = 0
  <2>1. Machine(k - 1).reg[LR] = 0 /\ Passed(k - 1)
    BY <1>7, <1>9 DEF AtFrame
  <2>2. k = 1
    <3> SUFFICES ASSUME k # 1 PROVE FALSE
      OBVIOUS
    <3>1. k - 1 \in 1 .. Len(chain)
      BY <1>2, <1>3
    <3> QED
      BY <2>1, <3>1, MachinesIs
  <2>3. bottom = 0
    BY <2>1, <2>2, MachinesIs
  <2>4. Outermost = 1
    <3>1. 0 \in 0 .. Len(chain) /\ Passed(0)
      BY <1>3, <2>1, <2>2
    <3> QED
      BY <1>3, <2>3, <3>1, OutermostIs
  <2>5. Complete
    <3>1. 1 \in 0 .. Len(chain)
      BY <1>3
    <3> QED
      BY <1>2, <1>3, <2>2, <2>4, <3>1, AllHanded
  <2> QED
    BY <1>1, <1>8, <1>9, <2>5
<1>10. CASE cursor.ip # 0
  <2>1. k - 1 \in 0 .. l - 1 /\ l - (k - 1) - 1 = l - k
    BY <1>2, <1>3
  <2>2. HandedOn(l - (k - 1) - 1)'
    BY <1>2, <1>3, <1>8, <2>1
  <2>3. cursor'.ip # 0
    BY <1>1, <1>10
  <2> QED
    BY <1>1, <1>8, <1>10, <2>1, <2>2, <2>3 DEF AtCallback
<1> QED
  BY <1>9, <1>10

LEMMA KeptIs ==
    ASSUME NEW j \in Nat
    PROVE  /\ Kept(j) \in Nat /\ Kept(j) <= MAX_BACKTRACES
           /\ j <= Ignore => Kept(j) = 0
           /\ j > Ignore /\ j - Ignore <= MAX_BACKTRACES => Kept(j) = j - Ignore
           /\ j >= Ignore + MAX_BACKTRACES => Kept(j) = MAX_BACKTRACES
           /\ Kept(j) = MAX_BACKTRACES /\ MAX_BACKTRACES > 0 => j >= Ignore + MAX_BACKTRACES
  BY UnwindBoundAssumption DEF Kept

(* trace_function passes one address on, until the record is full.         *)
LEMMA CallbackFrame ==
    ASSUME ProgramInv, StoreInv, UnwindsChain, AtCallback, Callback
    PROVE  (pc' = "return" /\ Complete') \/ (pc' = "step" /\ AtStep')
<1>1. /\ pc = "callback" /\ UNCHANGED <<program, cursor>>
      /\ pc' = IF crawl.count > 0 THEN "step" ELSE "return"
  BY DEF Callback, frameVars
<1>2. PICK k \in 0 .. Len(chain) - 1 :
          AtFrame(k) /\ HandedOn(Len(chain) - k - 1) /\ cursor.ip # 0
  BY DEF AtCallback
<1>3. PICK n \in Nat : n = Len(chain) /\ n >= 1
  BY MachinesIs
<1>4. PICK j \in Nat : j = n - k - 1
  BY <1>2, <1>3
<1>5. /\ crawl.count \in 0 .. MAX_BACKTRACES /\ crawl.ignore \in 0 .. Ignore
      /\ crawl = [count |-> crawl.count, ignore |-> crawl.ignore]
      /\ Len(stored) \in Nat /\ Len(stored) + crawl.count = MAX_BACKTRACES
      /\ IsSequence(stored)
  <2>1. Len(stored) \in Nat /\ IsSequence(stored)
    BY AppendGrows DEF StoreInv
  <2> QED
    BY <1>1, <2>1 DEF StoreInv, UnwinderSteps
<1>6. /\ Len(stored) = Kept(j) /\ crawl.ignore = IF j <= Ignore THEN Ignore - j ELSE 0
      /\ \A i \in 1 .. Len(stored) : stored[i] = Returns(n + 1 - (Ignore + i))
  BY <1>2, <1>3, <1>4 DEF HandedOn
<1>7. /\ Ignore \in Nat /\ MAX_BACKTRACES \in Nat /\ MAX_BACKTRACES > 0
      /\ k \in 0 .. n - 1 /\ k \in 0 .. n
  BY <1>2, <1>3, UnwindBoundAssumption DEF UnwindsChain
<1>8. Passed(k) /\ cursor.ip = Machine(k).reg[LR]
  BY <1>2 DEF AtFrame
<1>9. /\ Len(chain)' = n /\ bottom' = bottom /\ AtFrame(k)' /\ \A i : Returns(i)' = Returns(i)
  BY <1>1, <1>2, <1>3, SameProgram, SameFrame
<1>10. k = 0 => bottom # 0
  BY <1>2, <1>8, MachinesIs
<1>11. CASE crawl.count = 0
  <2>1. UNCHANGED <<program, crawl, stored>> /\ pc' = "return"
    BY <1>1, <1>11 DEF Callback
  <2>2. j >= Ignore + MAX_BACKTRACES
    BY <1>5, <1>6, <1>7, <1>11, KeptIs
  <2>3. Outermost \in 0 .. n /\ Outermost <= k + 1
    BY <1>3, <1>7, <1>8, OutermostIs
  <2>4. j \in 0 .. n - Outermost
    BY <1>4, <1>7, <2>3
  <2>5. HandedOn(j)
    BY <1>2, <1>3, <1>4
  <2>6. Complete
    BY <1>3, <2>2, <2>4, <2>5 DEF Complete
  <2> QED
    BY <2>1, <2>6, SameHanded
<1>12. CASE crawl.count # 0
  <2>1. pc' = "step" /\ crawl.count > 0
    BY <1>1, <1>5, <1>7, <1>12
  <2>2. HandedOn(j + 1)'
    <3>1. CASE crawl.ignore > 0
      <4>1. stored' = stored /\ crawl'.ignore = crawl.ignore - 1
        <5>1. stored' = stored /\ crawl' = [crawl EXCEPT !.ignore = @ - 1]
          BY <1>2, <1>12, <3>1 DEF Callback
        <5> QED
          BY <1>5, <5>1
      <4>2. j < Ignore /\ crawl.ignore = Ignore - j
        BY <1>6, <1>7, <3>1
      <4>3. Kept(j) = 0 /\ Kept(j + 1) = 0
        BY <1>7, <4>2, KeptIs
      <4>4. crawl'.ignore = IF j + 1 <= Ignore THEN Ignore - (j + 1) ELSE 0
        BY <1>7, <4>1, <4>2
      <4> QED
        BY <1>6, <1>9, <4>1, <4>3, <4>4 DEF HandedOn, Kept
    <3>2. CASE ~(crawl.ignore > 0)
      <4>1. stored' = Append(stored, cursor.ip) /\ crawl'.ignore = crawl.ignore
        <5>1. stored' = Append(stored, cursor.ip) /\ crawl' = [crawl EXCEPT !.count = @ - 1]
          BY <1>2, <1>12, <3>2 DEF Callback
        <5> QED
          BY <1>5, <5>1
      <4>2. crawl.ignore = 0 /\ j >= Ignore
        BY <1>5, <1>6, <1>7, <3>2
      <4>3. Len(stored) = j - Ignore /\ Len(stored) + 1 = Kept(j + 1)
        <5>1. Len(stored) < MAX_BACKTRACES
          BY <1>5, <1>7, <2>1
        <5>2. j < Ignore + MAX_BACKTRACES
          BY <1>6, <1>7, <5>1, KeptIs
        <5>3. Kept(j) = j - Ignore
          BY <1>7, <4>2, <5>2, KeptIs
        <5>4. j + 1 \in Nat /\ j + 1 > Ignore /\ (j + 1) - Ignore <= MAX_BACKTRACES
          BY <1>7, <4>2, <5>2
        <5>5. Kept(j + 1) = (j + 1) - Ignore
          BY <5>4, KeptIs
        <5> QED
          BY <1>6, <1>7, <5>3, <5>5
      <4>4. PICK L \in Nat : L = Len(stored)
        BY <1>5
      <4>5. /\ Len(stored') = L + 1 /\ stored'[L + 1] = cursor.ip
            /\ \A i \in 1 .. L : stored'[i] = stored[i]
        <5>1. stored \in Seq(ToSet(stored) \cup {cursor.ip})
          BY <1>5 DEF IsSequence, ToSet
        <5> QED
          BY <4>1, <4>4, <5>1
      <4>6. \A i \in 1 .. L + 1 : stored'[i] = Returns(n + 1 - (Ignore + i))
        <5> TAKE i \in 1 .. L + 1
        <5>1. CASE i = L + 1
          <6>1. n + 1 - (Ignore + i) = k + 1
            BY <1>4, <1>7, <4>3, <4>4, <5>1
          <6>2. cursor.ip = Returns(k + 1)
            BY <1>3, <1>7, <1>8, MachinesIs
          <6> QED
            BY <4>5, <5>1, <6>1, <6>2
        <5>2. CASE i # L + 1
          <6>1. i \in 1 .. L
            BY <5>2
          <6> QED
            BY <1>6, <4>4, <4>5, <6>1
        <5> QED
          BY <5>1, <5>2
      <4>7. crawl'.ignore = IF j + 1 <= Ignore THEN Ignore - (j + 1) ELSE 0
        BY <1>7, <4>1, <4>2
      <4> QED
        BY <1>9, <4>3, <4>4, <4>5, <4>6, <4>7 DEF HandedOn, Kept
    <3> QED
      BY <3>1, <3>2
  <2>3. j + 1 = n - k
    BY <1>4, <1>7
  <2>4. HandedOn(n - k)'
    BY <2>2, <2>3
  <2> QED
    BY <1>7, <1>9, <1>10, <2>1, <2>4 DEF AtStep
<1> QED
  BY <1>11, <1>12

(* The fallback only runs when there is nothing to record.                 *)
LEMMA UnwoundFrame ==
    ASSUME ProgramInv, StoreInv, UnwindsChain, Complete, Unwound
    PROVE  \/ pc' = "fast" /\ (Len(chain) - Outermost <= Ignore)'
           \/ pc' = "end" /\ (Complete /\ len = Len(stored))'
<1>1. pc = "return" /\ UNCHANGED <<program, crawl, stored>>
  BY DEF Unwound
<1>n. PICK n \in Nat : n = Len(chain) /\ n >= 1
  BY MachinesIs
<1>o. PICK o \in 0 .. n : o = Outermost
  <2>1. n \in 0 .. n /\ Passed(n)
    BY <1>n DEF Passed
  <2> QED
    BY <1>n, <2>1, OutermostIs
<1>2. n = Len(chain) /\ n >= 1 /\ o = Outermost
  BY <1>n, <1>o
<1>3. /\ crawl.count \in 0 .. MAX_BACKTRACES /\ Len(stored) \in Nat
      /\ Len(stored) + crawl.count = MAX_BACKTRACES
      /\ Ignore \in Nat /\ MAX_BACKTRACES \in Nat /\ MAX_BACKTRACES > 0
  <2>1. Len(stored) \in Nat
    BY AppendGrows DEF StoreInv
  <2> QED
    BY <1>1, <2>1, UnwindBoundAssumption DEF StoreInv, UnwinderSteps, UnwindsChain
<1>4. Len(chain)' = n /\ Outermost' = o /\ Complete'
  BY <1>1, <1>2, SameProgram, SameHanded
<1>5. CASE crawl.count = MAX_BACKTRACES
  <2>1. pc' = "fast"
    BY <1>5 DEF Unwound
  <2>2. PICK j \in 0 .. n - o : HandedOn(j) /\ (j = n - o \/ Ignore + MAX_BACKTRACES <= j)
    BY <1>2 DEF Complete
  <2>3. j \in Nat /\ Kept(j) = 0
    BY <1>2, <1>3, <1>5, <2>2 DEF HandedOn
  <2>4. j <= Ignore
    <3> SUFFICES ASSUME ~(j <= Ignore) PROVE FALSE
      OBVIOUS
    <3> QED
      BY <1>3, <2>3 DEF Kept
  <2>5. n - o <= Ignore
    BY <1>2, <1>3, <2>2, <2>4
  <2> QED
    BY <1>4, <2>1, <2>5
<1>6. CASE crawl.count # MAX_BACKTRACES
  <2>1. pc' = "end" /\ len' = MAX_BACKTRACES - crawl.count
    BY <1>6 DEF Unwound
  <2>2. len' = Len(stored)'
    BY <1>1, <1>3, <2>1
  <2> QED
    BY <1>4, <2>1, <2>2
<1> QED
  BY <1>5, <1>6

-----------------------------------------------------------------------------
LEMMA InitFrame == Init => ProgramInv /\ FrameInv
<1> SUFFICES ASSUME Init PROVE ProgramInv /\ FrameInv
  OBVIOUS
<1>1. /\ ProgramInv /\ pc = "get" /\ stored = <<>>
      /\ crawl = [count |-> MAX_BACKTRACES, ignore |-> Ignore]
  BY DEF Init, ProgramInv
<1>2. HandedOn(0)
  BY <1>1, UnwindBoundAssumption DEF HandedOn, Kept
<1> QED
  BY <1>1, <1>2 DEF FrameInv

LEMMA NextProgram == ProgramInv /\ [Next]_vars => ProgramInv'
<1> SUFFICES ASSUME ProgramInv, [Next]_vars PROVE ProgramInv'
  OBVIOUS
<1>1. UNCHANGED program
  BY DEF Next, Begin, Step, Decode, Stepped, Callback, Unwound, FastStep, FastDone, vars
<1> QED
  BY <1>1, SameProgram

LEMMA NextFrame ==
    ASSUME ProgramInv, StoreInv, CursorInv, FrameInv, [Next]_vars
    PROVE  FrameInv'
<1>1. UNCHANGED program
  BY DEF Next, Begin, Step, Decode, Stepped, Callback, Unwound, FastStep, FastDone, vars
<1> SUFFICES ASSUME UnwindsChain'
             PROVE  /\ pc' = "get" => HandedOn(0)'
                    /\ pc' = "step" => AtStep'
                    /\ pc' = "decode" => AtDecode'
                    /\ pc' = "callback" => AtCallback'
                    /\ pc' = "return" => Complete'
                    /\ pc' = "fast" => (Len(chain) - Outermost <= Ignore)'
                    /\ pc' = "end" => \/ (Len(chain) - Outermost <= Ignore)'
                                     \/ (Complete /\ len = Len(stored))'
  BY DEF FrameInv
<1>2. UnwindsChain
  BY <1>1, SameProgram
<1>3. CASE Begin
  BY <1>2, <1>3, BeginFrame DEF FrameInv, Begin
<1>4. CASE Step
  BY <1>2, <1>4, StepFrame DEF FrameInv, Step
<1>5. CASE Decode
  BY <1>2, <1>5, DecodeFrame DEF FrameInv, Decode
<1>6. CASE Stepped
  BY <1>2, <1>6, SteppedFrame DEF FrameInv, Stepped
<1>7. CASE Callback
  BY <1>2, <1>7, CallbackFrame DEF FrameInv, Callback
<1>8. CASE Unwound
  BY <1>2, <1>8, UnwoundFrame DEF FrameInv, Unwound
<1>9. CASE FastStep
  <2>1. pc = "fast" /\ pc' = "fast"
    BY <1>9 DEF FastStep
  <2>2. Len(chain) - Outermost <= Ignore
    BY <1>2, <2>1 DEF FrameInv
  <2>3. (Len(chain) - Outermost <= Ignore)'
    BY <1>1, <2>2, SameProgram
  <2> QED
    BY <2>1, <2>3
<1>10. CASE FastDone
  <2>1. pc = "fast" /\ pc' = "end"
    BY <1>10 DEF FastDone
  <2>2. Len(chain) - Outermost <= Ignore
    BY <1>2, <2>1 DEF FrameInv
  <2>3. (Len(chain) - Outermost <= Ignore)'
    BY <1>1, <2>2, SameProgram
  <2> QED
    BY <2>1, <2>3
<1>11. CASE UNCHANGED vars
  <2>1. pc' = pc /\ len' = len /\ UNCHANGED <<program, cursor, buf, pos, crawl, stored>>
    BY <1>11 DEF vars, frameVars
  <2>2. /\ Len(chain)' = Len(chain) /\ Outermost' = Outermost /\ bottom' = bottom /\ cursor' = cursor
        /\ \A k : (AtFrame(k)' <=> AtFrame(k)) /\ (HandedOn(k)' <=> HandedOn(k))
        /\ Complete' <=> Complete
    BY <2>1, SameProgram, SameFrame, SameHanded
  <2>3. \A k : InFrame(k)' <=> InFrame(k)
    <3>1. /\ \A k : Machine(k)' = Machine(k) /\ (Passed(k)' <=> Passed(k))
          /\ \A v : Holds(cursor, v)' <=> Holds(cursor, v)
          /\ chain' = chain /\ buf' = buf /\ pos' = pos
      BY <2>1, SameProgram DEF program, Holds, Word
    <3> QED
      BY <3>1 DEF InFrame
  <2>4. (AtStep' <=> AtStep) /\ (AtCallback' <=> AtCallback) /\ (AtDecode' <=> AtDecode)
    BY <2>2, <2>3 DEF AtStep, AtCallback, AtDecode
  <2> QED
    BY <1>2, <2>1, <2>2, <2>4 DEF FrameInv
<1> QED
  BY <1>3, <1>4, <1>5, <1>6, <1>7, <1>8, <1>9, <1>10, <1>11 DEF Next

LEMMA RecordedIs ==
    ASSUME ProgramInv, NEW n \in Nat, n = Len(chain), NEW o \in 0 .. n, o = Outermost
    PROVE  LET all == n - o
               end == IF all < Ignore + MAX_BACKTRACES THEN all ELSE Ignore + MAX_BACKTRACES
           IN  IF end <= Ignore THEN Recorded = <<>>
               ELSE Recorded = [i \in 1 .. end - Ignore |-> Returns(n + 1 - (Ignore + i))]
<1> DEFINE all == n - o
           end == IF all < Ignore + MAX_BACKTRACES THEN all ELSE Ignore + MAX_BACKTRACES
<1>1. all \in Nat /\ end \in Nat /\ end <= all /\ Ignore \in Nat
  BY UnwindBoundAssumption
<1>2. Callers = [k \in 1 .. all |-> Returns(n + 1 - k)]
  BY DEF Callers
<1>3. \A k \in 1 .. all : Returns(n + 1 - k) \in Nat
  <2> TAKE k \in 1 .. all
  <2>1. n - k \in 0 .. n /\ (n - k) + 1 = n + 1 - k
    OBVIOUS
  <2> QED
    BY <2>1, MachinesIs
<1> HIDE DEF all
<1>4. Callers \in Seq(Nat) /\ Len(Callers) = all
  <2>1. Callers \in [1 .. all -> Nat]
    BY <1>2, <1>3
  <2>2. Callers \in Seq(Nat)
    BY <1>1, <2>1, SeqDef
  <2>3. DOMAIN Callers = 1 .. all /\ DOMAIN Callers = 1 .. Len(Callers) /\ Len(Callers) \in Nat
    BY <2>1, <2>2
  <2> QED
    BY <1>1, <2>2, <2>3
<1>5. Recorded = SubSeq(Callers, Ignore + 1, end)
  BY <1>4 DEF Recorded
<1> HIDE DEF end
<1>6. CASE end <= Ignore
  <2>1. SubSeq(Callers, Ignore + 1, end) = <<>>
    BY <1>1, <1>4, <1>6
  <2> QED
    BY <1>5, <1>6, <2>1 DEF end, all
<1>7. CASE ~(end <= Ignore)
  <2>1. SubSeq(Callers, Ignore + 1, end) = [i \in 1 .. end - Ignore |-> Callers[Ignore + i]]
    BY <1>1, <1>4, <1>7
  <2>2. \A i \in 1 .. end - Ignore : Callers[Ignore + i] = Returns(n + 1 - (Ignore + i))
    BY <1>1, <1>2, <1>7
  <2>3. Recorded = [i \in 1 .. end - Ignore |-> Returns(n + 1 - (Ignore + i))]
    BY <1>5, <2>1, <2>2
  <2> QED
    BY <1>7, <2>3 DEF end, all
<1> QED
  BY <1>6, <1>7

LEMMA FramesRecorded ==
    ASSUME ProgramInv, StoreInv, FrameInv
    PROVE  CallersFound
<1> SUFFICES ASSUME pc = "end", Recorded # <<>>,
                    \A i \in DOMAIN chain : ~Refuses(Functions[chain[i].f])
             PROVE  stored = Recorded /\ len = Len(stored)
  BY DEF CallersFound
<1>n. PICK n \in Nat : n = Len(chain) /\ n >= 1
  BY MachinesIs
<1>o. PICK o \in 0 .. n : o = Outermost
  <2>1. n \in 0 .. n /\ Passed(n)
    BY <1>n DEF Passed
  <2> QED
    BY <1>n, <2>1, OutermostIs
<1> DEFINE all == n - o
           end == IF all < Ignore + MAX_BACKTRACES THEN all ELSE Ignore + MAX_BACKTRACES
<1>1. /\ ~(end <= Ignore)
      /\ Recorded = [i \in 1 .. end - Ignore |-> Returns(n + 1 - (Ignore + i))]
  BY <1>n, <1>o, RecordedIs
<1>2. all \in Nat /\ Ignore \in Nat /\ MAX_BACKTRACES \in Nat
  BY UnwindBoundAssumption
<1>3. MAX_BACKTRACES > 0 /\ all > Ignore
  BY <1>1, <1>2
<1>4. UnwindsChain
  BY <1>3 DEF UnwindsChain
<1>5. Complete /\ len = Len(stored)
  BY <1>n, <1>o, <1>2, <1>3, <1>4 DEF FrameInv
<1>6. PICK j \in 0 .. all : HandedOn(j) /\ (j = all \/ Ignore + MAX_BACKTRACES <= j)
  BY <1>n, <1>o, <1>5 DEF Complete
<1>7. Len(stored) = end - Ignore
  <2>1. j \in Nat /\ Len(stored) = Kept(j)
    BY <1>2, <1>6 DEF HandedOn
  <2>2. CASE j >= Ignore + MAX_BACKTRACES
    <3>1. Kept(j) = MAX_BACKTRACES
      BY <2>1, <2>2, KeptIs
    <3>2. end = Ignore + MAX_BACKTRACES
      BY <1>2, <1>6, <2>2
    <3> HIDE DEF end
    <3> QED
      BY <1>2, <2>1, <3>1, <3>2
  <2>3. CASE ~(j >= Ignore + MAX_BACKTRACES)
    <3>1. j = all /\ end = all
      BY <1>2, <1>6, <2>1, <2>3
    <3>2. Kept(j) = j - Ignore
      BY <1>2, <1>3, <2>1, <2>3, <3>1, KeptIs
    <3> HIDE DEF end, all
    <3> QED
      BY <2>1, <3>1, <3>2
  <2> QED
    BY <2>2, <2>3
<1>8. \A i \in 1 .. Len(stored) : stored[i] = Returns(n + 1 - (Ignore + i))
  BY <1>n, <1>6 DEF HandedOn
<1>9. stored = [i \in 1 .. Len(stored) |-> stored[i]]
  <2>1. IsSequence(stored)
    BY DEF StoreInv
  <2> QED
    BY <2>1 DEF IsSequence
<1> HIDE DEF end
<1>10. stored = Recorded
  BY <1>1, <1>7, <1>8, <1>9
<1> QED
  BY <1>5, <1>10

(* On a chain of functions whose entries undo their prologues, the record  *)
(* of an allocation holds its callers, innermost first, without the        *)
(* library's own frames, as many as fit; for every table, chain of calls   *)
(* and size of record.                                                     *)
THEOREM BacktraceIsTheCallers == Spec => []CallersFound
<1>1. Init => StoreInv /\ CursorInv /\ ProgramInv /\ FrameInv
  BY InitStore, InitCursor, InitFrame
<1>2. StoreInv /\ CursorInv /\ ProgramInv /\ FrameInv /\ [Next]_vars
      => StoreInv' /\ CursorInv' /\ ProgramInv' /\ FrameInv'
  BY NextStore, NextCursor, NextProgram, NextFrame
<1>3. StoreInv /\ ProgramInv /\ FrameInv => CallersFound
  BY FramesRecorded
<1> QED
  BY <1>1, <1>2, <1>3, PTL DEF Spec
=============================================================================
