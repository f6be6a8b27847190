------------------------ MODULE SymbolResolverProofs ------------------------
(***************************************************************************)
(* The resolver is right for every buffer, every file of mappings, and     *)
(* every image with a hash table and a dynamic section as the linker makes *)
(* them: readLine returns the lines of the file however the buffer's end   *)
(* cuts them, and a symbol that is there is found.                         *)
(***************************************************************************)
EXTENDS SymbolResolver, WellFoundedInduction, TLAPS

-----------------------------------------------------------------------------
(* Induction and recursion, with sets in place of predicates.              *)

(* A nonempty set of naturals has a least element.                         *)
LEMMA LeastNat ==
    ASSUME NEW T, T \subseteq Nat, T # {}
    PROVE  \E i \in T : \A m \in T : i <= m
<1> DEFINE R == OpToRel(<, Nat)
<1>1. IsWellFoundedOn(R, Nat)
  BY NatLessThanWellFounded, Zenon
<1>2. \A m, i \in Nat : m < i => <<m, i>> \in R
  BY Zenon DEF OpToRel
<1> HIDE DEF R
<1>3. PICK i \in T : \A m \in T : ~ (<<m, i>> \in R)
  BY <1>1, WFMin, Zenon
<1>4. \A m \in T : ~ (m < i)
  BY <1>2, <1>3
<1> QED
  BY <1>4, SMTT(30)

(* A set with 0 and the successors below N of its members has 0 .. N.      *)
LEMMA UpTo ==
    ASSUME NEW N \in Nat, NEW S, 0 \in S, \A i \in 1 .. N : i - 1 \in S => i \in S
    PROVE  0 .. N \subseteq S
<1> DEFINE T == (0 .. N) \ S
<1>1. SUFFICES ASSUME T # {} PROVE FALSE
  OBVIOUS
<1>2. T \subseteq Nat
  OBVIOUS
<1> HIDE DEF T
<1>3. PICK i \in T : \A m \in T : i <= m
  BY <1>1, <1>2, LeastNat
<1>4. i \in 1 .. N /\ i \notin S /\ i - 1 \in 0 .. N
  BY DEF T
<1>5. i - 1 \notin T
  BY <1>3, <1>4
<1> QED
  BY <1>4, <1>5 DEF T

(* f gives each number up to N what its step makes of the one before.      *)
Recurs(f, N, base, step) ==
    f = [i \in 0 .. N |-> IF i = 0 THEN base ELSE step[i][f[i - 1]]]

LEMMA Recursion ==
    ASSUME NEW S, NEW base \in S, NEW N \in Nat, NEW step \in [1 .. N -> [S -> S]]
    PROVE  \E f \in [0 .. N -> S] : Recurs(f, N, base, step)
<1> DEFINE Have == {k \in 0 .. N : \E f \in [0 .. k -> S] : Recurs(f, k, base, step)}
<1>1. 0 \in Have
  <2>1. [i \in 0 .. 0 |-> base] \in [0 .. 0 -> S]
    OBVIOUS
  <2>2. Recurs([i \in 0 .. 0 |-> base], 0, base, step)
    BY DEF Recurs
  <2> QED
    BY <2>1, <2>2
<1>2. ASSUME NEW k \in 1 .. N, k - 1 \in Have
      PROVE  k \in Have
  <2>1. PICK f \in [0 .. k - 1 -> S] : Recurs(f, k - 1, base, step)
    BY <1>2
  <2> DEFINE g == [i \in 0 .. k |-> IF i < k THEN f[i] ELSE step[k][f[k - 1]]]
  <2>2. step[k][f[k - 1]] \in S
    OBVIOUS
  <2>3. g \in [0 .. k -> S] /\ g[k] = step[k][f[k - 1]] /\ \A i \in 0 .. k - 1 : g[i] = f[i]
    BY <2>2
  <2>4. \A i \in 0 .. k - 1 : f[i] = IF i = 0 THEN base ELSE step[i][f[i - 1]]
    BY <2>1 DEF Recurs
  <2> HIDE DEF g
  <2>5. \A i \in 0 .. k : g[i] = IF i = 0 THEN base ELSE step[i][g[i - 1]]
    <3> TAKE i \in 0 .. k
    <3>1. CASE i = k
      BY <2>3, <3>1
    <3>2. CASE i < k
      BY <2>3, <2>4, <3>2
    <3> QED
      BY <3>1, <3>2
  <2>6. g = [i \in 0 .. k |-> IF i = 0 THEN base ELSE step[i][g[i - 1]]]
    BY <2>3, <2>5
  <2>7. Recurs(g, k, base, step)
    BY <2>6, Zenon DEF Recurs
  <2> QED
    BY <2>3, <2>7
<1> HIDE DEF Have
<1>3. \A k \in 1 .. N : k - 1 \in Have => k \in Have
  BY <1>2
<1>4. 0 .. N \subseteq Have
  BY <1>1, <1>3, UpTo
<1> QED
  BY <1>4 DEF Have

-----------------------------------------------------------------------------
(* The file.                                                               *)

(* Line i stands behind the first begins[i] bytes of the file f.           *)
Laid(begins, lines, f) ==
    /\ begins \in [1 .. Len(lines) + 1 -> Nat] /\ begins[1] = 0
    /\ f \in Seq(Nat) /\ Len(f) = begins[Len(lines) + 1]
    /\ \A i \in 1 .. Len(lines) :
          /\ begins[i + 1] = begins[i] + lines[i].length
          /\ begins[i + 1] <= Len(f)
          /\ \A j \in 1 .. lines[i].length - 1 : f[begins[i] + j] = Text(lines[i])[j]
          /\ f[begins[i + 1]] = Newline

(* The parts of a concatenation are found in it.                           *)
LEMMA ConcatParts ==
    ASSUME NEW S, NEW a \in Seq(S), NEW b \in Seq(S)
    PROVE  /\ a \o b \in Seq(S) /\ Len(a \o b) = Len(a) + Len(b)
           /\ \A k \in 1 .. Len(a) : (a \o b)[k] = a[k]
           /\ \A k \in 1 .. Len(b) : (a \o b)[Len(a) + k] = b[k]
  OBVIOUS

(* A line is one byte shorter than its length, and its end is not in it.   *)
LEMMA TextOfLine ==
    ASSUME NEW line \in LineType
    PROVE  /\ Text(line) \in Seq(Nat) /\ Len(Text(line)) = line.length - 1
           /\ Text(line)[1] = line.addr
           /\ \A i \in 1 .. line.length - 1 :
                 /\ Text(line)[i] \notin {NUL, Newline}
                 /\ Text(line)[i] = LibcPath => line.path = LibcPath
           /\ Text(line)[line.length - 1] = line.path
<1> DEFINE len == line.length - 3
           dots == [i \in 1 .. len |-> 46]
           first == <<line.addr>>
           last == <<line.path>>
           front == first \o dots
           text == Text(line)
<1>1. /\ line.addr \in Nat \ {0, 10, 1} /\ line.length \in Nat \ 0 .. 2
      /\ line.path \in Nat \ {0, 10}
  BY DEF LineType, NUL, Newline, LibcPath
<1>2. len \in Nat /\ line.length = len + 3
  BY <1>1
<1> HIDE DEF len
<1>3. dots \in Seq(Nat) /\ Len(dots) = len /\ \A i \in 1 .. len : dots[i] = 46
  BY <1>2
<1>4. first \in Seq(Nat) /\ Len(first) = 1 /\ first[1] = line.addr
  BY <1>1
<1>5. last \in Seq(Nat) /\ Len(last) = 1 /\ last[1] = line.path
  BY <1>1
<1>6. text = front \o last
  BY DEF Text, len
<1> HIDE DEF dots, first, last, text
<1>7. /\ front \in Seq(Nat) /\ Len(front) = 1 + len
      /\ \A k \in 1 .. 1 : front[k] = first[k]
      /\ \A k \in 1 .. len : front[1 + k] = dots[k]
  <2>1. /\ first \o dots \in Seq(Nat) /\ Len(first \o dots) = Len(first) + Len(dots)
        /\ \A k \in 1 .. Len(first) : (first \o dots)[k] = first[k]
        /\ \A k \in 1 .. Len(dots) : (first \o dots)[Len(first) + k] = dots[k]
    BY <1>3, <1>4, ConcatParts, SMTT(30)
  <2> QED
    BY <2>1, <1>3, <1>4, Zenon
<1> HIDE DEF front
<1>8. /\ text \in Seq(Nat) /\ Len(text) = len + 2
      /\ \A k \in 1 .. 1 + len : text[k] = front[k]
      /\ \A k \in 1 .. 1 : text[1 + len + k] = last[k]
  <2>1. /\ front \o last \in Seq(Nat) /\ Len(front \o last) = Len(front) + Len(last)
        /\ \A k \in 1 .. Len(front) : (front \o last)[k] = front[k]
        /\ \A k \in 1 .. Len(last) : (front \o last)[Len(front) + k] = last[k]
    <3>1. front \in Seq(Nat) /\ last \in Seq(Nat)
      BY <1>5, <1>7
    <3> QED
      BY <3>1, ConcatParts, SMTT(30)
  <2> QED
    BY <2>1, <1>2, <1>5, <1>6, <1>7, SMTT(30)
<1>9. text[1] = line.addr /\ text[len + 2] = line.path
  BY <1>2, <1>4, <1>5, <1>7, <1>8
<1>10. \A i \in 2 .. len + 1 : text[i] = 46
  <2> TAKE i \in 2 .. len + 1
  <2>1. i - 1 \in 1 .. len /\ i = 1 + (i - 1) /\ i \in 1 .. 1 + len
    BY <1>2
  <2> QED
    BY <2>1, <1>3, <1>7, <1>8
<1>11. \A i \in 1 .. len + 2 : text[i] \notin {0, 10} /\ (text[i] = 1 => line.path = 1)
  <2> TAKE i \in 1 .. len + 2
  <2>1. i = 1 \/ i = len + 2 \/ i \in 2 .. len + 1
    BY <1>2
  <2> QED
    BY <2>1, <1>1, <1>9, <1>10
<1> QED
  BY <1>2, <1>8, <1>9, <1>11 DEF text, NUL, Newline, LibcPath

(* The file is laid out in lines.                                          *)
LEMMA FileIsLaid ==
    ASSUME NEW lines \in Seq(LineType)
    PROVE  \E begins : Laid(begins, lines, File(lines))
<1> DEFINE N == Len(lines)
           l == [i \in 1 .. N |-> lines[i].length]
           s == [i \in 1 .. N |-> Append(Text(lines[i]), Newline)]
<1>1. N \in Nat /\ \A i \in 1 .. N : l[i] \in Nat \ 0 .. 2 /\ lines[i] \in LineType
  <2>1. N \in Nat /\ \A i \in 1 .. N : lines[i] \in LineType
    OBVIOUS
  <2>2. \A line \in LineType : line.length \in Nat \ 0 .. 2
    BY DEF LineType
  <2> QED
    BY <2>1, <2>2
<1>2. /\ DOMAIN s = 1 .. N
      /\ \A i \in 1 .. N :
            /\ s[i] \in Seq(Nat) /\ Len(s[i]) = l[i] /\ s[i][l[i]] = Newline
            /\ \A j \in 1 .. l[i] - 1 : s[i][j] = Text(lines[i])[j]
  <2> SUFFICES ASSUME NEW i \in 1 .. N
               PROVE  /\ s[i] \in Seq(Nat) /\ Len(s[i]) = l[i] /\ s[i][l[i]] = Newline
                      /\ \A j \in 1 .. l[i] - 1 : s[i][j] = Text(lines[i])[j]
    OBVIOUS
  <2> DEFINE text == Text(lines[i])
             m == lines[i].length
  <2>1. text \in Seq(Nat) /\ Len(text) = m - 1 /\ m \in Nat \ 0 .. 2
    BY <1>1, TextOfLine
  <2>2. s[i] = Append(text, Newline) /\ l[i] = m
    BY DEF s, l
  <2>3. Newline \in Nat
    BY DEF Newline
  <2> HIDE DEF text, m
  <2>4. /\ Append(text, Newline) \in Seq(Nat) /\ Len(Append(text, Newline)) = m
        /\ Append(text, Newline)[m] = Newline
        /\ \A j \in 1 .. m - 1 : Append(text, Newline)[j] = text[j]
    BY <2>1, <2>3
  <2> QED
    BY <2>2, <2>4, Zenon DEF text
<1> HIDE DEF N, l, s
<1>3. PICK b \in [0 .. N -> Nat] :
         b[0] = 0 /\ \A i \in 1 .. N : b[i] = b[i - 1] + l[i]
  <2> DEFINE step == [i \in 1 .. N |-> [x \in Nat |-> x + l[i]]]
  <2>1. step \in [1 .. N -> [Nat -> Nat]]
    BY <1>1
  <2>2. \A i \in 1 .. N : \A x \in Nat : step[i][x] = x + l[i]
    OBVIOUS
  <2> HIDE DEF step
  <2>3. PICK b \in [0 .. N -> Nat] : Recurs(b, N, 0, step)
    BY <1>1, <2>1, Recursion
  <2>4. b[0] = 0 /\ \A i \in 1 .. N : b[i] = step[i][b[i - 1]]
    <3>1. b = [i \in 0 .. N |-> IF i = 0 THEN 0 ELSE step[i][b[i - 1]]]
      BY <2>3, Zenon DEF Recurs
    <3>2. \A i \in 0 .. N : b[i] = IF i = 0 THEN 0 ELSE step[i][b[i - 1]]
      BY <3>1, Zenon
    <3> QED
      BY <1>1, <3>2
  <2>5. \A i \in 1 .. N : b[i - 1] \in Nat
    BY <1>1
  <2> QED
    BY <2>2, <2>4, <2>5
<1>4. PICK f \in [0 .. N -> Seq(Nat)] :
         f[0] = <<>> /\ \A i \in 1 .. N : f[i] = f[i - 1] \o s[i]
  <2> DEFINE Bytes == Seq(Nat)
             step == [i \in 1 .. N |-> [x \in Bytes |-> x \o s[i]]]
  <2>1. \A i \in 1 .. N : \A x \in Bytes : x \o s[i] \in Bytes
    BY <1>2
  <2>2. <<>> \in Bytes
    OBVIOUS
  <2> HIDE DEF Bytes
  <2>3. step \in [1 .. N -> [Bytes -> Bytes]]
    BY <2>1
  <2>4. \A i \in 1 .. N : \A x \in Bytes : step[i][x] = x \o s[i]
    OBVIOUS
  <2> HIDE DEF step
  <2>5. PICK f \in [0 .. N -> Bytes] : Recurs(f, N, <<>>, step)
    BY <1>1, <2>2, <2>3, Recursion, Zenon
  <2>6. f[0] = <<>> /\ \A i \in 1 .. N : f[i] = step[i][f[i - 1]]
    BY <1>1, <2>5 DEF Recurs
  <2>7. \A i \in 1 .. N : f[i - 1] \in Bytes
    BY <1>1
  <2>8. \A i \in 1 .. N : f[i] = f[i - 1] \o s[i]
    BY <2>4, <2>6, <2>7
  <2> QED
    BY <2>6, <2>8 DEF Bytes
<1>5. File(lines) \in Seq(Nat) /\ File(lines) = f[N]
  <2>1. f[N] \in Seq(Nat)
    BY <1>1
  <2>2. CASE N = 0
    <3>1. Len(s) = 0 /\ s = <<>>
      BY <1>1, <2>2 DEF s, N
    <3> QED
      BY <3>1, <1>4, <2>1, <2>2 DEF File, FlattenSeq, s, N
  <2>3. CASE N # 0
    <3> DEFINE flatten == CHOOSE g : g = [i \in 1 .. Len(s) |-> IF i = 1 THEN s[i] ELSE g[i - 1] \o s[i]]
               g0 == [i \in 1 .. N |-> f[i]]
    <3>1. Len(s) = N
      BY <1>1, <1>2 DEF s, N
    <3>2. g0 = [i \in 1 .. Len(s) |-> IF i = 1 THEN s[i] ELSE g0[i - 1] \o s[i]]
      <4>1. \A i \in 1 .. N : g0[i] = IF i = 1 THEN s[i] ELSE g0[i - 1] \o s[i]
        <5> SUFFICES ASSUME NEW i \in 1 .. N PROVE g0[i] = IF i = 1 THEN s[i] ELSE g0[i - 1] \o s[i]
          OBVIOUS
        <5>1. CASE i = 1
          <6>1. s[i] \in Seq(Nat)
            BY <1>2
          <6>2. <<>> \o s[i] = s[i]
            BY <6>1
          <6>3. i - 1 = 0
            BY <5>1
          <6> QED
            BY <1>4, <5>1, <6>2, <6>3, Zenon
        <5>2. CASE i # 1
          <6>1. i - 1 \in 1 .. N
            BY <1>1, <5>2
          <6> QED
            BY <1>4, <5>2, <6>1, Zenon
        <5> QED
          BY <5>1, <5>2, Zenon
      <4> QED
        BY <3>1, <4>1, Zenon
    <3>3. flatten = [i \in 1 .. Len(s) |-> IF i = 1 THEN s[i] ELSE flatten[i - 1] \o s[i]]
      BY <3>2, Zenon
    <3>4. File(lines) = flatten[N]
      <4>1. File(lines) = FlattenSeq(s)
        <5>1. DOMAIN lines = 1 .. N
          BY DEF N
        <5> QED
          BY <5>1, Zenon DEF File, s
      <4> HIDE DEF s
      <4>2. Len(s) # 0
        BY <2>3, <3>1
      <4> QED
        BY <3>1, <4>1, <4>2, Zenon DEF FlattenSeq
    <3> HIDE DEF flatten, g0
    <3>5. \A i \in 1 .. N : flatten[i] = IF i = 1 THEN s[i] ELSE flatten[i - 1] \o s[i]
      BY <3>1, <3>3, Zenon
    <3> DEFINE T == {i \in 0 .. N : i = 0 \/ flatten[i] = f[i]}
    <3>6. \A i \in 1 .. N : i - 1 \in T => i \in T
      <4> SUFFICES ASSUME NEW i \in 1 .. N, i - 1 \in T PROVE flatten[i] = f[i]
        OBVIOUS
      <4>1. CASE i = 1
        <5>1. s[i] \in Seq(Nat)
          BY <1>2
        <5>2. <<>> \o s[i] = s[i]
          BY <5>1
        <5>3. i - 1 = 0
          BY <4>1
        <5> QED
          BY <1>4, <3>5, <4>1, <5>2, <5>3, Zenon
      <4>2. CASE i # 1
        <5>1. i - 1 # 0
          BY <4>2
        <5> QED
          BY <1>4, <3>5, <4>2, <5>1, Zenon
      <4> QED
        BY <4>1, <4>2, Zenon
    <3>7. 0 \in T
      BY <1>1
    <3> HIDE DEF T
    <3>8. 0 .. N \subseteq T
      BY <1>1, <3>6, <3>7, UpTo
    <3>9. N \in T
      BY <1>1, <3>8
    <3> QED
      BY <2>1, <2>3, <3>4, <3>9 DEF T
  <2> QED
    BY <2>2, <2>3, Zenon
<1> DEFINE Upto(k) == /\ Len(f[k]) = b[k]
                      /\ \A i \in 1 .. k :
                           /\ b[i] <= b[k] /\ f[k][b[i]] = Newline
                           /\ \A j \in 1 .. l[i] - 1 : f[k][b[i - 1] + j] = Text(lines[i])[j]
           T == {k \in 0 .. N : Upto(k)}
<1>6. ASSUME NEW k \in 1 .. N, Upto(k - 1)
      PROVE  Upto(k)
  <2> DEFINE F == f[k - 1]
             S == s[k]
             B == b[k - 1]
             L == l[k]
  <2>1. k - 1 \in 0 .. N /\ \A i \in 1 .. k : i - 1 \in 0 .. N /\ i \in 1 .. N
    BY <1>1
  <2>2. F \in Seq(Nat) /\ Len(F) = B /\ B \in Nat
    BY <1>6, <2>1
  <2>3. S \in Seq(Nat) /\ Len(S) = L /\ S[L] = Newline /\ L \in Nat \ 0 .. 2
    BY <1>1, <1>2
  <2>4. \A j \in 1 .. L - 1 : S[j] = Text(lines[k])[j]
    BY <1>2
  <2>5. f[k] = F \o S /\ b[k] = B + L
    BY <1>3, <1>4
  <2> DEFINE G == F \o S
  <2>6. /\ Len(G) = B + L
        /\ \A j \in 1 .. B : G[j] = F[j]
        /\ \A j \in 1 .. L : G[B + j] = S[j]
    <3> HIDE DEF F, S, B, L
    <3>1. /\ Len(F \o S) = Len(F) + Len(S)
          /\ \A j \in 1 .. Len(F) : (F \o S)[j] = F[j]
          /\ \A j \in 1 .. Len(S) : (F \o S)[Len(F) + j] = S[j]
      <4>1. F \in Seq(Nat) /\ S \in Seq(Nat)
        BY <2>2, <2>3
      <4> QED
        BY <4>1, ConcatParts, SMTT(30)
    <3> QED
      BY <2>2, <2>3, <3>1, Zenon
  <2>7. \A i \in 1 .. k - 1 : /\ b[i] <= B /\ F[b[i]] = Newline /\ b[i] = b[i - 1] + l[i]
                              /\ \A j \in 1 .. l[i] - 1 : F[b[i - 1] + j] = Text(lines[i])[j]
    BY <1>3, <1>6, <2>1
  <2>8. \A i \in 1 .. k - 1 : l[i] \in Nat \ 0 .. 2 /\ b[i] \in Nat /\ b[i - 1] \in Nat
    BY <1>1, <2>1
  <2>9. f[k] = G
    BY <2>5
  <2> HIDE DEF F, S, B, L, G, Upto
  <2>10. ASSUME NEW i \in 1 .. k
         PROVE  /\ b[i] <= b[k] /\ G[b[i]] = Newline
                /\ \A j \in 1 .. l[i] - 1 : G[b[i - 1] + j] = Text(lines[i])[j]
    <3>1. CASE i = k
      <4>1. b[i] = B + L /\ b[i - 1] = B /\ l[i] = L /\ L \in 1 .. L
        BY <2>3, <2>5, <3>1 DEF B, L
      <4>2. G[B + L] = Newline
        BY <2>3, <2>6, <4>1
      <4>3. \A j \in 1 .. L - 1 : G[B + j] = Text(lines[k])[j]
        BY <2>3, <2>4, <2>6
      <4> QED
        BY <3>1, <4>1, <4>2, <4>3, <2>2, <2>3, <2>5
    <3>2. CASE i # k
      <4>1. i \in 1 .. k - 1
        BY <1>1, <3>2
      <4> DEFINE x == b[i]
                 y == b[i - 1]
                 z == l[i]
      <4>a. /\ x \in Nat /\ y \in Nat /\ z \in Nat \ 0 .. 2 /\ B \in Nat
            /\ x = y + z /\ x <= B
        BY <2>2, <2>7, <2>8, <4>1
      <4> HIDE DEF x, y, z
      <4>b. x \in 1 .. B /\ \A j \in 1 .. z - 1 : y + j \in 1 .. B
        BY <4>a
      <4> USE DEF x, y, z
      <4>2. b[i] \in 1 .. B
        BY <4>b
      <4>3. G[b[i]] = Newline
        BY <2>6, <2>7, <4>1, <4>2
      <4>4. \A j \in 1 .. l[i] - 1 : b[i - 1] + j \in 1 .. B
        BY <4>b
      <4>5. \A j \in 1 .. l[i] - 1 : G[b[i - 1] + j] = Text(lines[i])[j]
        BY <2>6, <2>7, <4>1, <4>4, Zenon
      <4>6. b[i] <= b[k]
        BY <2>2, <2>3, <2>5, <4>2
      <4> QED
        BY <4>3, <4>5, <4>6
    <3> QED
      BY <3>1, <3>2
  <2>11. Len(G) = b[k]
    BY <2>5, <2>6
  <2> QED
    BY <2>9, <2>10, <2>11, Zenon DEF Upto
<1>7. Upto(0)
  BY <1>3, <1>4
<1> HIDE DEF Upto
<1>8. 0 \in T /\ \A k \in 1 .. N : k - 1 \in T => k \in T
  BY <1>1, <1>6, <1>7
<1> HIDE DEF T
<1>9. Upto(N)
  <2>1. 0 .. N \subseteq T
    BY <1>1, <1>8, UpTo
  <2> QED
    BY <1>1, <2>1 DEF T
<1> DEFINE begins == [i \in 1 .. N + 1 |-> b[i - 1]]
<1>10. begins \in [1 .. N + 1 -> Nat] /\ begins[1] = 0 /\ begins[N + 1] = b[N]
  BY <1>1, <1>3
<1>11. \A i \in 1 .. N : begins[i] = b[i - 1] /\ begins[i + 1] = b[i]
  BY <1>1
<1>12. Laid(begins, lines, f[N])
  <2>1. f[N] \in Seq(Nat) /\ Len(f[N]) = b[N] /\ b[N] = begins[Len(lines) + 1]
    BY <1>1, <1>9, <1>10 DEF Upto, N
  <2>2. ASSUME NEW i \in 1 .. N
        PROVE  /\ begins[i + 1] = begins[i] + lines[i].length
               /\ begins[i + 1] <= Len(f[N])
               /\ \A j \in 1 .. lines[i].length - 1 : f[N][begins[i] + j] = Text(lines[i])[j]
               /\ f[N][begins[i + 1]] = Newline
    <3>1. l[i] = lines[i].length
      BY DEF l
    <3>2. /\ b[i] <= b[N] /\ f[N][b[i]] = Newline
          /\ \A j \in 1 .. l[i] - 1 : f[N][b[i - 1] + j] = Text(lines[i])[j]
      BY <1>9 DEF Upto
    <3> QED
      BY <1>3, <1>11, <2>1, <3>1, <3>2
  <2> HIDE DEF begins
  <2> QED
    BY <1>10, <2>1, <2>2 DEF Laid, N
<1> QED
  BY <1>5, <1>12, Zenon

-----------------------------------------------------------------------------
(* The inductive invariant.                                                *)

Pcs == {"readLine", "examine", "elf", "find", "walk", "trap", "done"}

TypeInv ==
    /\ maps \in MapsFiles /\ image \in Images /\ file = File(maps)
    /\ pc \in Pcs
    /\ buf \in [0 .. BufSize -> Nat] /\ buf[BufSize] = NUL
    /\ endOfBuffer \in 0 .. BufSize /\ endOfLine \in {NULL} \cup 1 .. endOfBuffer
    /\ endOfFile \in BOOLEAN
    /\ offset \in 0 .. Len(file) /\ taken \in 0 .. Len(maps)
    /\ start \in Nat
    /\ n \in 0 .. Len(image.symbols)
    /\ my \in Seq(Nat) /\ Len(my) <= Len(Names)

(* Where the reader is: the buffer holds the line it has returned, with    *)
(* NUL for its end, and then the file from the next line to the offset.    *)
Reads(begins) ==
    /\ endOfFile => offset = Len(file)
    /\ endOfLine = NULL => taken = 0 /\ offset = 0 /\ endOfBuffer = 0 /\ ~endOfFile
    /\ endOfLine # NULL =>
          /\ taken \in 1 .. Len(maps) /\ endOfLine = maps[taken].length
          /\ buf[endOfLine - 1] = NUL
          /\ \A i \in 0 .. endOfLine - 2 : buf[i] = Text(maps[taken])[i + 1]
          /\ offset = begins[taken + 1] + (endOfBuffer - endOfLine)
          /\ \A i \in 0 .. endOfBuffer - endOfLine - 1 :
                buf[i + endOfLine] = file[begins[taken + 1] + 1 + i]

ReaderInv == pc # "trap" => \E begins : Laid(begins, maps, file) /\ Reads(begins)

(* How far the search has come.                                            *)
Missing == \E i \in DOMAIN Names : Defines(Names[i]) = 0

TooLong == \E i \in 1 .. LibcLine : maps[i].length > BufSize

SearchInv ==
    /\ pc = "readLine" => \A i \in 1 .. taken : maps[i].path # LibcPath
    /\ pc = "examine" => /\ endOfLine # NULL
                         /\ \A i \in 1 .. taken - 1 : maps[i].path # LibcPath
    /\ pc \in {"elf", "find", "walk", "done"} =>
          LibcLine \in 1 .. Len(maps) /\ start = maps[LibcLine].addr
    /\ pc = "trap" => LibcLine = 0 \/ TooLong \/ ~Usable \/ Missing

(* What has been read of the image, and what is still to be found.         *)
SymbolInv ==
    /\ pc \in {"find", "walk", "done"} =>
          \A entry \in ToSet(image.phdrs[Dynamic].entries) :
             Relative(entry.tag) => fields[entry.tag] = start + entry.value
    /\ \A i \in 1 .. Len(my) :
          /\ Defines(Names[i]) # 0
          /\ my[i] = start + image.symbols[Defines(Names[i])].value
    /\ pc \in {"readLine", "examine"} => my = <<>>
    /\ pc = "done" => Len(my) = Len(Names)
    /\ pc = "walk" =>
          /\ Len(my) < Len(Names)
          /\ LET t == Defines(Names[Len(my) + 1])
             IN  t # 0 => n # 0 /\ Leads(image, n, t)

IInv == TypeInv /\ ReaderInv /\ SearchInv /\ SymbolInv

-----------------------------------------------------------------------------
(* The reader.                                                             *)

(* The least of a set of numbers.                                          *)
LEMMA MinIs ==
    ASSUME NEW T, T \subseteq Nat, NEW t \in T, \A i \in T : t <= i
    PROVE  Min(T) = t
<1>1. \A i \in T : i \in Nat
  OBVIOUS
<1>2. \A x \in T : (\A i \in T : x <= i) => x = t
  BY <1>1
<1>3. Min(T) \in T /\ \A i \in T : Min(T) <= i
  BY Zenon DEF Min
<1> QED
  BY <1>2, <1>3

(* strchr stops at the first end of a line or of the string.               *)
LEMMA LineEndIs ==
    ASSUME NEW bytes \in [0 .. BufSize -> Nat], NEW e \in 0 .. BufSize,
           bytes[e] \in {NUL, Newline},
           \A i \in 0 .. e - 1 : bytes[i] \notin {NUL, Newline}
    PROVE  LineEnd(bytes) = IF bytes[e] = Newline THEN e ELSE NULL
<1> DEFINE seq == [i \in 1 .. BufSize + 1 |-> bytes[i - 1]]
           T == {i \in 1 .. Len(seq) : seq[i] \in {NUL, Newline}}
<1>1. Len(seq) = BufSize + 1 /\ \A i \in 1 .. BufSize + 1 : seq[i] = bytes[i - 1]
  BY BufSizeAssumption
<1>2. e + 1 \in T
  BY <1>1, BufSizeAssumption
<1>3. \A i \in T : e + 1 <= i
  <2> SUFFICES ASSUME NEW i \in T, i < e + 1 PROVE FALSE
    BY <1>1, BufSizeAssumption
  <2>1. i - 1 \in 0 .. e - 1 /\ i \in 1 .. BufSize + 1
    BY <1>1, BufSizeAssumption
  <2> QED
    BY <1>1, <2>1
<1>4. T \subseteq Nat
  BY <1>1, BufSizeAssumption
<1>5. LineEnd(bytes) = IF bytes[(IF T # {} THEN Min(T) ELSE 0) - 1] = Newline
                       THEN (IF T # {} THEN Min(T) ELSE 0) - 1 ELSE NULL
  BY Zenon DEF LineEnd, SelectInSeq
<1> HIDE DEF T
<1>6. Min(T) = e + 1
  BY <1>2, <1>3, <1>4, MinIs
<1>7. (IF T # {} THEN Min(T) ELSE 0) - 1 = e
  BY <1>2, <1>6
<1> QED
  BY <1>5, <1>7, Zenon

(* What ReadLine puts together before it looks for the end of a line.      *)
Count == IF endOfFile THEN 0 ELSE ReadBytes(Moved.end)
Bytes == IF endOfFile THEN Moved.bytes ELSE Filled(Moved, Count)
Held == Moved.end + Count

(* The buffer then begins with the file from the next line on.  There was  *)
(* room to read, so that nothing read is the end of the file.              *)
LEMMA ReadsOn ==
    ASSUME TypeInv, NEW begins, Laid(begins, maps, file), Reads(begins)
    PROVE  /\ Bytes \in [0 .. BufSize -> Nat] /\ Bytes[BufSize] = NUL
           /\ Count \in Nat /\ Held \in 0 .. BufSize
           /\ offset + Count = begins[taken + 1] + Held /\ offset + Count <= Len(file)
           /\ \A i \in 0 .. Held - 1 : Bytes[i] = file[begins[taken + 1] + 1 + i]
           /\ endOfFile \/ Count = 0 => offset + Count = Len(file)
           /\ offset + Count < Len(file) => Held = BufSize
           /\ ~endOfFile => Bytes[Held] = NUL
           /\ endOfFile => Count = 0 /\ (Held = 0 => Bytes = buf)
<1> DEFINE p == begins[taken + 1]
           rest == Moved.end
           moved == Moved.bytes
<1>1. /\ file \in Seq(Nat) /\ Len(file) \in Nat /\ offset \in 0 .. Len(file) /\ p \in Nat
      /\ buf \in [0 .. BufSize -> Nat] /\ buf[BufSize] = 0 /\ endOfFile \in BOOLEAN
      /\ endOfBuffer \in 0 .. BufSize /\ endOfLine \in {-1} \cup 1 .. endOfBuffer
  <2>1. /\ maps \in Seq(LineType) /\ taken \in 0 .. Len(maps)
        /\ file \in Seq(Nat) /\ begins \in [1 .. Len(maps) + 1 -> Nat]
    BY MapsAssumption DEF TypeInv, Laid
  <2>2. Len(maps) \in Nat
    BY <2>1
  <2>3. p \in Nat
    BY <2>1, <2>2
  <2>4. Len(file) \in Nat
    BY <2>1
  <2> QED
    BY <2>1, <2>3, <2>4 DEF TypeInv, NULL, NUL
<1>2. /\ rest \in 0 .. BufSize - 1 /\ offset = p + rest
      /\ moved \in [0 .. BufSize -> Nat] /\ moved[BufSize] = 0
      /\ \A i \in 0 .. rest - 1 : moved[i] = file[p + 1 + i]
      /\ rest = 0 => moved = buf
  <2>1. CASE endOfLine = NULL
    <3>1. rest = 0 /\ moved = buf /\ offset = 0 /\ taken = 0
      BY <2>1 DEF Moved, Reads
    <3>2. p = 0
      BY <3>1 DEF Laid
    <3> QED
      BY <1>1, <3>1, <3>2, BufSizeAssumption
  <2>2. CASE endOfLine # NULL
    <3> DEFINE d == endOfBuffer - endOfLine
    <3>1. /\ rest = d
          /\ moved = [i \in 0 .. BufSize |-> IF i < d THEN buf[i + endOfLine] ELSE buf[i]]
      BY <1>1, <2>2 DEF Moved
    <3>2. d \in 0 .. BufSize - 1 /\ endOfLine \in 1 .. BufSize /\ endOfLine + d <= BufSize
      BY <1>1, <2>2, BufSizeAssumption DEF NULL
    <3>3. offset = p + d /\ \A i \in 0 .. d - 1 : buf[i + endOfLine] = file[p + 1 + i]
      BY <2>2 DEF Reads
    <3> HIDE DEF d, p, rest, moved
    <3>4. \A i \in 0 .. BufSize : i < d => i + endOfLine \in 0 .. BufSize
      BY <3>2, BufSizeAssumption
    <3>5. moved \in [0 .. BufSize -> Nat]
      BY <1>1, <3>1, <3>4
    <3>6. \A i \in 0 .. d - 1 : i \in 0 .. BufSize /\ i < d
      BY <3>2, BufSizeAssumption
    <3>7. BufSize \in 0 .. BufSize /\ ~ (BufSize < d)
      BY <3>2, BufSizeAssumption
    <3>8. moved[BufSize] = 0
      BY <1>1, <3>1, <3>7
    <3>9. \A i \in 0 .. d - 1 : moved[i] = file[p + 1 + i]
      BY <3>1, <3>3, <3>6
    <3>10. d = 0 => moved = buf
      <4> SUFFICES ASSUME d = 0 PROVE moved = buf
        OBVIOUS
      <4>1. \A i \in 0 .. BufSize : ~ (i < d)
        BY BufSizeAssumption
      <4>2. \A i \in 0 .. BufSize : moved[i] = buf[i]
        BY <3>1, <4>1
      <4>3. moved = [i \in 0 .. BufSize |-> moved[i]] /\ buf = [i \in 0 .. BufSize |-> buf[i]]
        BY <1>1, <3>5, Zenon
      <4>4. [i \in 0 .. BufSize |-> moved[i]] = [i \in 0 .. BufSize |-> buf[i]]
        BY <4>2, Zenon
      <4> QED
        BY <4>3, <4>4, Zenon
    <3> QED
      BY <3>1, <3>2, <3>3, <3>5, <3>8, <3>9, <3>10
  <2> QED
    BY <2>1, <2>2
<1> HIDE DEF p, moved
<1>3. CASE endOfFile
  <2>1. Count = 0 /\ Bytes = moved /\ offset = Len(file)
    BY <1>3 DEF Count, Bytes, Reads, moved
  <2>2. Held = rest
    BY <1>2, <2>1 DEF Held
  <2> HIDE DEF rest
  <2> QED
    BY <1>1, <1>2, <1>3, <2>1, <2>2, BufSizeAssumption DEF p, NUL
<1>4. CASE ~endOfFile
  <2>1. /\ Count = ReadBytes(rest) /\ Held = rest + Count
        /\ Bytes = Filled(Moved, Count)
    BY <1>4 DEF Count, Bytes, Held
  <2>2. Bytes = [i \in 0 .. BufSize |->
                    IF i \in rest .. rest + Count - 1 THEN file[offset + 1 + i - rest]
                    ELSE IF i = rest + Count THEN 0 ELSE moved[i]]
    BY <1>1, <2>1, Zenon DEF Filled, moved, NUL
  <2>3. /\ Count \in Nat /\ rest + Count <= BufSize /\ offset + Count <= Len(file)
        /\ Count = 0 => offset = Len(file)
        /\ offset + Count < Len(file) => rest + Count = BufSize
    <3>1. Count = IF BufSize - rest < Len(file) - offset THEN BufSize - rest ELSE Len(file) - offset
      BY <2>1 DEF ReadBytes, Lesser
    <3> DEFINE size == Len(file)
    <3>2. size \in Nat /\ offset \in 0 .. size /\ rest \in 0 .. BufSize - 1
      BY <1>1, <1>2
    <3> HIDE DEF rest, size
    <3>3. Count = IF BufSize - rest < size - offset THEN BufSize - rest ELSE size - offset
      BY <3>1 DEF size
    <3>4. /\ Count \in Nat /\ rest + Count <= BufSize /\ offset + Count <= size
          /\ Count = 0 => offset = size
          /\ offset + Count < size => rest + Count = BufSize
      BY <3>2, <3>3, BufSizeAssumption
    <3> QED
      BY <3>4 DEF size
  <2> HIDE DEF rest
  <2>4. /\ Bytes[rest + Count] = 0 /\ Bytes[BufSize] = 0
    <3>1. rest + Count \in 0 .. BufSize /\ rest + Count \notin rest .. rest + Count - 1
      BY <1>2, <2>3, BufSizeAssumption
    <3>2. BufSize \in 0 .. BufSize /\ BufSize \notin rest .. rest + Count - 1
      BY <1>2, <2>3, BufSizeAssumption
    <3>3. Bytes[rest + Count] = 0
      BY <2>2, <3>1
    <3>4. Bytes[BufSize] = 0
      BY <1>2, <2>2, <3>2
    <3> QED
      BY <3>3, <3>4
  <2>5. ASSUME NEW i \in 0 .. rest + Count - 1
        PROVE  Bytes[i] = file[p + 1 + i]
    <3>1. i \in 0 .. BufSize /\ i # rest + Count
      BY <1>2, <2>3, BufSizeAssumption
    <3>2. CASE i < rest
      <4>1. i \in 0 .. rest - 1 /\ i \notin rest .. rest + Count - 1
        BY <1>2, <2>3, <3>2
      <4> QED
        BY <1>2, <2>2, <3>1, <4>1
    <3>3. CASE ~ (i < rest)
      <4>1. i \in rest .. rest + Count - 1 /\ offset + 1 + i - rest = p + 1 + i
        BY <1>1, <1>2, <2>3, <3>3
      <4> QED
        BY <2>2, <3>1, <4>1
    <3> QED
      BY <3>2, <3>3
  <2>6. Bytes \in [0 .. BufSize -> Nat]
    <3>1. ASSUME NEW i \in 0 .. BufSize, i \in rest .. rest + Count - 1
          PROVE  file[offset + 1 + i - rest] \in Nat
      <4>1. offset + 1 + i - rest \in 1 .. Len(file)
        BY <1>1, <1>2, <2>3, <3>1
      <4> QED
        BY <1>1, <4>1
    <3>2. \A i \in 0 .. BufSize : moved[i] \in Nat
      BY <1>2
    <3> QED
      BY <2>2, <3>1, <3>2
  <2>7. Held \in 0 .. BufSize /\ offset + Count = p + Held
    <3>1. rest \in 0 .. BufSize - 1 /\ offset = p + rest /\ p \in Nat
      BY <1>1, <1>2
    <3>2. Count \in Nat /\ rest + Count <= BufSize /\ Held = rest + Count
      BY <2>1, <2>3
    <3> QED
      BY <3>1, <3>2, BufSizeAssumption
  <2>8. \A i \in 0 .. Held - 1 : Bytes[i] = file[p + 1 + i]
    <3>1. Held = rest + Count
      BY <2>1
    <3>2. \A i \in 0 .. rest + Count - 1 : Bytes[i] = file[p + 1 + i]
      BY <2>5
    <3>3. rest + Count - 1 = Held - 1
      <4>1. rest \in Nat /\ Count \in Nat
        BY <1>2, <2>3, BufSizeAssumption
      <4> QED
        BY <3>1, <4>1
    <3>4. 0 .. rest + Count - 1 = 0 .. Held - 1
      BY <3>3, Zenon
    <3> QED
      BY <3>2, <3>4, Zenon
  <2>9. Bytes[Held] = NUL /\ Bytes[BufSize] = NUL
    BY <2>1, <2>4 DEF NUL
  <2>10. Count = 0 => offset + Count = Len(file)
    BY <1>1, <2>3
  <2>11. offset + Count < Len(file) => Held = BufSize
    BY <2>1, <2>3
  <2> QED
    BY <1>4, <2>3, <2>6, <2>7, <2>8, <2>9, <2>10, <2>11, Zenon DEF p
<1> QED
  BY <1>1, <1>3, <1>4

(* The end that readLine finds is that of the next line; it finds none     *)
(* when there is no next line, or the buffer cannot hold it.  After the    *)
(* last line the buffer still begins with that line and its NUL.           *)
LEMMA FindsEnd ==
    ASSUME TypeInv, NEW begins, Laid(begins, maps, file), Reads(begins)
    PROVE  \/ /\ taken + 1 \in 1 .. Len(maps) /\ maps[taken + 1].length <= Held
              /\ LineEnd(Bytes) = maps[taken + 1].length - 1
           \/ /\ LineEnd(Bytes) = NULL
              /\ taken = Len(maps) \/ maps[taken + 1].length > BufSize
<1> DEFINE p == begins[taken + 1]
           N == Len(maps)
           size == Len(file)
           total == offset + Count
<1>1. /\ N \in Nat /\ taken \in 0 .. N /\ size \in Nat /\ p \in Nat
      /\ \A i \in 1 .. N : maps[i] \in LineType
  <2>1. /\ maps \in Seq(LineType) /\ taken \in 0 .. Len(maps)
        /\ file \in Seq(Nat) /\ begins \in [1 .. Len(maps) + 1 -> Nat]
    BY MapsAssumption DEF TypeInv, Laid
  <2>2. N \in Nat /\ \A i \in 1 .. N : maps[i] \in LineType
    BY <2>1
  <2>3. size \in Nat
    BY <2>1
  <2> HIDE DEF N, size
  <2>4. taken \in 0 .. N /\ begins \in [1 .. N + 1 -> Nat]
    BY <2>1 DEF N
  <2> QED
    BY <2>2, <2>3, <2>4
<1>2. /\ Bytes \in [0 .. BufSize -> Nat] /\ Bytes[BufSize] = NUL
      /\ Held \in 0 .. BufSize
      /\ total = p + Held /\ total <= size
      /\ \A i \in 0 .. Held - 1 : Bytes[i] = file[p + 1 + i]
      /\ total < size => Held = BufSize
      /\ ~endOfFile => Bytes[Held] = NUL
      /\ endOfFile /\ Held = 0 => Bytes = buf
  BY ReadsOn, Zenon
<1>3. BufSize \in Nat \ {0}
  BY BufSizeAssumption
<1>4. CASE taken < N
  <2> DEFINE line == maps[taken + 1]
             L == line.length
             text == Text(line)
  <2>1. taken + 1 \in 1 .. N /\ line \in LineType
    BY <1>1, <1>4
  <2>2. /\ L \in Nat \ 0 .. 2
        /\ \A i \in 1 .. L - 1 : text[i] \notin {NUL, Newline}
    BY <2>1, TextOfLine DEF LineType
  <2>3. /\ p + L <= size /\ file[p + L] = Newline
        /\ \A j \in 1 .. L - 1 : file[p + j] = text[j]
    <3>1. /\ begins[taken + 1 + 1] = begins[taken + 1] + maps[taken + 1].length
          /\ begins[taken + 1 + 1] <= Len(file)
          /\ \A j \in 1 .. maps[taken + 1].length - 1 :
                file[begins[taken + 1] + j] = Text(maps[taken + 1])[j]
          /\ file[begins[taken + 1 + 1]] = Newline
      BY <2>1 DEF Laid
    <3> QED
      BY <3>1, Zenon
  <2> HIDE DEF p, N, size, total, line, L, text
  <2>4. \A i \in 0 .. L - 2 : i < Held => Bytes[i] \notin {NUL, Newline}
    <3> SUFFICES ASSUME NEW i \in 0 .. L - 2, i < Held PROVE Bytes[i] \notin {NUL, Newline}
      OBVIOUS
    <3>1. i \in 0 .. Held - 1 /\ i + 1 \in 1 .. L - 1 /\ p + 1 + i = p + (i + 1)
      BY <1>1, <1>2, <2>2
    <3>2. Bytes[i] = file[p + (i + 1)]
      BY <1>2, <3>1
    <3> QED
      BY <2>2, <2>3, <3>1, <3>2, Zenon
  <2>5. CASE L <= Held
    <3>1. L - 1 \in 0 .. Held - 1 /\ L - 1 \in 0 .. BufSize /\ p + 1 + (L - 1) = p + L
      BY <1>1, <1>2, <1>3, <2>2, <2>5
    <3>2. Bytes[L - 1] = Newline
      BY <1>2, <2>3, <3>1
    <3>3. \A i \in 0 .. L - 1 - 1 : Bytes[i] \notin {NUL, Newline}
      BY <1>2, <2>2, <2>4, <2>5
    <3>4. LineEnd(Bytes) = L - 1
      <4> HIDE DEF NUL, Newline, NULL
      <4>1. Bytes[L - 1] \in {NUL, Newline}
        BY <3>2
      <4>2. LineEnd(Bytes) = IF Bytes[L - 1] = Newline THEN L - 1 ELSE NULL
        BY <1>2, <3>1, <3>3, <4>1, LineEndIs
      <4> QED
        BY <3>2, <4>2
    <3> QED
      BY <2>1, <2>5, <3>4 DEF line, L, N
  <2>6. CASE ~ (L <= Held)
    <3>1. total < size
      BY <1>1, <1>2, <2>2, <2>3, <2>6
    <3>2. Held = BufSize /\ L > BufSize
      BY <1>2, <1>3, <2>2, <2>6, <3>1
    <3>3. \A i \in 0 .. BufSize - 1 : Bytes[i] \notin {NUL, Newline}
      BY <1>3, <2>2, <2>4, <3>2
    <3>4. BufSize \in 0 .. BufSize /\ Bytes[BufSize] \in {NUL, Newline} /\ Bytes[BufSize] # Newline
      BY <1>2, <1>3 DEF NUL, Newline
    <3>5. LineEnd(Bytes) = NULL
      BY <1>2, <3>3, <3>4, LineEndIs
    <3> QED
      BY <3>2, <3>5 DEF line, L
  <2> QED
    BY <2>5, <2>6
<1>5. CASE taken = N
  <2>1. p = size
    BY <1>5 DEF Laid
  <2> HIDE DEF p, size, total
  <2>2. Held = 0
    BY <1>1, <1>2, <1>3, <2>1
  <2>3. CASE ~endOfFile
    <3>1. 0 \in 0 .. BufSize /\ Bytes[0] \in {NUL, Newline} /\ Bytes[0] # Newline
      BY <1>2, <1>3, <2>2, <2>3 DEF NUL, Newline
    <3>2. \A i \in 0 .. 0 - 1 : Bytes[i] \notin {NUL, Newline}
      OBVIOUS
    <3>3. LineEnd(Bytes) = NULL
      BY <1>2, <3>1, <3>2, LineEndIs
    <3> QED
      BY <1>5, <3>3
  <2>4. CASE endOfFile
    <3> DEFINE line == maps[taken]
               e == endOfLine - 1
    <3>1. /\ taken \in 1 .. Len(maps) /\ endOfLine = line.length /\ buf[e] = NUL
          /\ \A i \in 0 .. endOfLine - 2 : buf[i] = Text(line)[i + 1]
      BY <2>4 DEF Reads
    <3>2. line \in LineType /\ endOfLine \in Nat \ 0 .. 2
      BY <1>1, <3>1 DEF LineType
    <3>3. e \in 0 .. BufSize
      BY <1>3, <3>2 DEF TypeInv, NULL
    <3>4. \A i \in 0 .. e - 1 : buf[i] \notin {NUL, Newline}
      <4> SUFFICES ASSUME NEW i \in 0 .. e - 1 PROVE buf[i] \notin {NUL, Newline}
        OBVIOUS
      <4>1. i \in 0 .. endOfLine - 2 /\ i + 1 \in 1 .. endOfLine - 1
        BY <3>2
      <4>2. Text(line)[i + 1] \notin {NUL, Newline}
        BY <3>1, <3>2, <4>1, TextOfLine
      <4> QED
        BY <3>1, <4>1, <4>2, Zenon
    <3>5. Bytes = buf
      BY <1>2, <2>2, <2>4
    <3> HIDE DEF e, line
    <3>6. Bytes[e] \in {NUL, Newline} /\ Bytes[e] # Newline
      BY <3>1, <3>5 DEF NUL, Newline
    <3>7. LineEnd(Bytes) = NULL
      <4>1. \A i \in 0 .. e - 1 : Bytes[i] \notin {NUL, Newline}
        BY <3>4, <3>5
      <4> QED
        BY <1>2, <3>3, <3>6, <4>1, LineEndIs
    <3> QED
      BY <1>5, <3>7
  <2> QED
    BY <2>3, <2>4
<1> QED
  BY <1>1, <1>4, <1>5

-----------------------------------------------------------------------------
(* What is looked for.                                                     *)

LEMMA LibcLineIs ==
    ASSUME maps \in Seq(LineType)
    PROVE  /\ LibcLine \in 0 .. Len(maps)
           /\ LibcLine # 0 => maps[LibcLine].path = LibcPath
           /\ \A t \in 1 .. Len(maps) :
                 maps[t].path = LibcPath /\ (\A i \in 1 .. t - 1 : maps[i].path # LibcPath)
                     => LibcLine = t
<1> DEFINE N == Len(maps)
           T == {i \in 1 .. N : maps[i].path = LibcPath}
<1>1. N \in Nat
  OBVIOUS
<1>2. LibcLine = IF T # {} THEN Min(T) ELSE 0
  BY Zenon DEF LibcLine, SelectInSeq
<1> HIDE DEF N
<1>3. CASE T = {}
  BY <1>1, <1>2, <1>3 DEF N
<1>4. CASE T # {}
  <2>1. T \subseteq Nat
    BY <1>1
  <2>2. PICK t \in T : \A i \in T : t <= i
    <3> HIDE DEF T
    <3> QED
      BY <1>4, <2>1, LeastNat
  <2>3. LibcLine = t
    <3> HIDE DEF T
    <3> QED
      BY <1>2, <1>4, <2>1, <2>2, MinIs
  <2>4. t \in 1 .. N /\ maps[t].path = LibcPath
    BY <2>2
  <2>5. ASSUME NEW u \in 1 .. N, maps[u].path = LibcPath, \A i \in 1 .. u - 1 : maps[i].path # LibcPath
        PROVE  t = u
    <3>1. u \in T /\ t <= u
      BY <2>2, <2>5
    <3>2. t \notin 1 .. u - 1
      BY <2>4, <2>5
    <3> QED
      BY <1>1, <2>4, <3>1, <3>2
  <2> HIDE DEF T
  <2>6. t \in 0 .. N
    BY <1>1, <2>4
  <2> QED
    BY <2>3, <2>4, <2>5, <2>6 DEF N
<1> QED
  BY <1>3, <1>4

(* None of this changes.                                                   *)
LEMMA SameProcess ==
    ASSUME maps' = maps, image' = image
    PROVE  /\ LibcLine' = LibcLine /\ (TooLong <=> TooLong')
           /\ Dynamic' = Dynamic /\ (Usable <=> Usable') /\ (Missing <=> Missing')
           /\ \A name : Defines(name)' = Defines(name)
<1>1. LibcLine' = LibcLine
  BY Zenon DEF LibcLine, SelectInSeq
<1>2. Dynamic' = Dynamic
  BY Zenon DEF Dynamic, SelectInSeq
<1>3. \A name : Defines(name)' = Defines(name)
  BY Zenon DEF Defines, SelectInSeq
<1>4. TooLong <=> TooLong'
  BY <1>1, Zenon DEF TooLong
<1>5. Usable <=> Usable'
  BY <1>2, Zenon DEF Usable
<1>6. Missing <=> Missing'
  BY <1>3, Zenon DEF Missing
<1> QED
  BY <1>1, <1>2, <1>3, <1>4, <1>5, <1>6, Zenon

(* readLine keeps the invariant.                                           *)
LEMMA ReadLineStep ==
    ASSUME IInv, ReadLine
    PROVE  IInv'
<1> DEFINE end == LineEnd(Bytes)
<1>1. TypeInv /\ SearchInv /\ SymbolInv /\ pc = "readLine"
  BY DEF IInv, ReadLine
<1>2. PICK begins : Laid(begins, maps, file) /\ Reads(begins)
  BY <1>1 DEF IInv, ReaderInv
<1>3. /\ maps' = maps /\ image' = image /\ file' = file
      /\ start' = start /\ fields' = fields /\ n' = n /\ my' = my
      /\ endOfBuffer' = Held /\ offset' = offset + Count
      /\ endOfFile' = (endOfFile \/ Count = 0)
      /\ end = NULL => pc' = "trap" /\ buf' = Bytes /\ endOfLine' = NULL /\ taken' = taken
      /\ end # NULL => /\ pc' = "examine" /\ buf' = [Bytes EXCEPT ![end] = NUL]
                       /\ endOfLine' = end + 1 /\ taken' = taken + 1
  BY Zenon DEF ReadLine, Count, Bytes, Held, process
<1>4. /\ maps \in Seq(LineType) /\ Len(maps) \in Nat /\ taken \in 0 .. Len(maps)
      /\ \A i \in 1 .. Len(maps) : maps[i] \in LineType
      /\ Len(file) \in Nat /\ offset \in 0 .. Len(file) /\ BufSize \in Nat \ {0}
      /\ begins \in [1 .. Len(maps) + 1 -> Nat]
  <2>1. maps \in Seq(LineType) /\ file \in Seq(Nat) /\ begins \in [1 .. Len(maps) + 1 -> Nat]
    BY <1>1, <1>2, MapsAssumption DEF TypeInv, Laid
  <2>2. Len(maps) \in Nat /\ Len(file) \in Nat /\ \A i \in 1 .. Len(maps) : maps[i] \in LineType
    BY <2>1
  <2> QED
    BY <1>1, <2>1, <2>2, BufSizeAssumption DEF TypeInv
<1>5. /\ Bytes \in [0 .. BufSize -> Nat] /\ Bytes[BufSize] = NUL
      /\ Count \in Nat /\ Held \in 0 .. BufSize
      /\ offset + Count = begins[taken + 1] + Held /\ offset + Count <= Len(file)
      /\ \A i \in 0 .. Held - 1 : Bytes[i] = file[begins[taken + 1] + 1 + i]
      /\ endOfFile \/ Count = 0 => offset + Count = Len(file)
  BY <1>1, <1>2, ReadsOn, Zenon
<1> HIDE DEF end
<1>6. /\ offset' \in 0 .. Len(file) /\ endOfFile' \in BOOLEAN
      /\ endOfFile' => offset' = Len(file)
      /\ endOfBuffer' \in 0 .. BufSize
  BY <1>1, <1>3, <1>4, <1>5 DEF TypeInv
<1>7. CASE end = NULL
  <2>1. taken = Len(maps) \/ maps[taken + 1].length > BufSize
    <3>1. \/ /\ taken + 1 \in 1 .. Len(maps)
             /\ end = maps[taken + 1].length - 1
          \/ taken = Len(maps) \/ maps[taken + 1].length > BufSize
      BY <1>1, <1>2, FindsEnd, Zenon DEF end
    <3>2. \A line \in LineType : line.length - 1 # NULL
      BY DEF LineType, NULL
    <3> QED
      BY <1>4, <1>7, <3>1, <3>2, Zenon
  <2>2. TypeInv'
    <3>1. /\ maps' \in MapsFiles /\ image' \in Images /\ file' = File(maps')
          /\ start' \in Nat /\ n' \in 0 .. Len(image'.symbols)
          /\ my' \in Seq(Nat) /\ Len(my') <= Len(Names)
      BY <1>1, <1>3 DEF TypeInv
    <3> QED
      BY <1>3, <1>4, <1>5, <1>6, <1>7, <3>1 DEF TypeInv, Pcs
  <2>3. LibcLine = 0 \/ TooLong
    <3>1. /\ LibcLine \in 0 .. Len(maps)
          /\ LibcLine # 0 => maps[LibcLine].path = LibcPath
      BY <1>4, LibcLineIs
    <3>2. \A i \in 1 .. taken : maps[i].path # LibcPath
      BY <1>1 DEF SearchInv
    <3>3. LibcLine = 0 \/ LibcLine > taken
      BY <1>4, <3>1, <3>2
    <3>4. LibcLine = 0 \/ (taken + 1 \in 1 .. LibcLine /\ taken # Len(maps))
      BY <1>4, <3>1, <3>3
    <3> QED
      BY <2>1, <3>4, Zenon DEF TooLong
  <2>4. LibcLine' = LibcLine /\ (TooLong <=> TooLong')
    BY <1>3, SameProcess, Zenon
  <2>5. SearchInv'
    BY <1>3, <1>7, <2>3, <2>4 DEF SearchInv
  <2>6. SymbolInv' /\ ReaderInv'
    <3>1. my = <<>> /\ my' = <<>> /\ pc' = "trap"
      BY <1>1, <1>3, <1>7 DEF SymbolInv
    <3> QED
      BY <3>1 DEF SymbolInv, ReaderInv
  <2> QED
    BY <2>2, <2>5, <2>6 DEF IInv
<1>8. CASE end # NULL
  <2> DEFINE line == maps[taken + 1]
             L == line.length
  <2>1. taken + 1 \in 1 .. Len(maps) /\ L <= Held /\ end = L - 1
    BY <1>1, <1>2, <1>8, FindsEnd, Zenon DEF end
  <2>2. line \in LineType /\ L \in Nat \ 0 .. 2
    BY <1>4, <2>1 DEF LineType
  <2>3. pc' = "examine" /\ endOfLine' = L /\ taken' = taken + 1 /\ buf' = [Bytes EXCEPT ![L - 1] = NUL]
    <3>1. end + 1 = L
      BY <2>1, <2>2
    <3> QED
      BY <1>3, <1>8, <2>1, <3>1, Zenon
  <2>4. /\ begins[taken + 2] = begins[taken + 1] + L
        /\ \A j \in 1 .. L - 1 : file[begins[taken + 1] + j] = Text(line)[j]
    <3>1. taken + 1 + 1 = taken + 2
      BY <1>4
    <3>2. /\ begins[taken + 1 + 1] = begins[taken + 1] + maps[taken + 1].length
          /\ \A j \in 1 .. maps[taken + 1].length - 1 :
                file[begins[taken + 1] + j] = Text(maps[taken + 1])[j]
      BY <1>2, <2>1 DEF Laid
    <3> QED
      BY <3>1, <3>2, Zenon
  <2> DEFINE p == begins[taken + 1]
  <2>5. p \in Nat
    BY <1>4
  <2>6. L - 1 \in 0 .. BufSize /\ L - 1 # BufSize /\ L \in 1 .. Held
    <3> HIDE DEF L
    <3> QED
      BY <1>4, <1>5, <2>1, <2>2
  <2> HIDE DEF L, line, p
  <2>7. /\ buf' \in [0 .. BufSize -> Nat] /\ buf'[L - 1] = NUL
        /\ \A i \in 0 .. BufSize : i # L - 1 => buf'[i] = Bytes[i]
    BY <1>5, <2>3, <2>6 DEF NUL
  <2>8. TypeInv'
    <3>1. /\ maps' \in MapsFiles /\ image' \in Images /\ file' = File(maps')
          /\ start' \in Nat /\ n' \in 0 .. Len(image'.symbols)
          /\ my' \in Seq(Nat) /\ Len(my') <= Len(Names)
      BY <1>1, <1>3 DEF TypeInv
    <3>2. buf'[BufSize] = NUL
      BY <1>4, <1>5, <2>6, <2>7
    <3>3. taken' \in 0 .. Len(maps') /\ endOfLine' \in {NULL} \cup 1 .. endOfBuffer'
      BY <1>3, <1>4, <2>1, <2>3, <2>6
    <3> QED
      BY <1>3, <1>6, <2>3, <2>7, <3>1, <3>2, <3>3 DEF TypeInv, Pcs
  <2>9. Reads(begins)'
    <3>1. \A i \in 0 .. L - 2 : buf'[i] = Text(line)[i + 1]
      <4> SUFFICES ASSUME NEW i \in 0 .. L - 2 PROVE buf'[i] = Text(line)[i + 1]
        OBVIOUS
      <4>1. i \in 0 .. BufSize /\ i # L - 1 /\ i \in 0 .. Held - 1 /\ i + 1 \in 1 .. L - 1
            /\ p + 1 + i = p + (i + 1)
        BY <1>4, <1>5, <2>2, <2>5, <2>6
      <4>2. buf'[i] = file[p + (i + 1)]
        BY <1>5, <2>7, <4>1 DEF p
      <4> QED
        BY <2>4, <4>1, <4>2 DEF p
    <3>2. offset' = begins[taken + 2] + (Held - L)
      BY <1>3, <1>4, <1>5, <2>2, <2>4, <2>5 DEF p, L
    <3>3. \A i \in 0 .. Held - L - 1 : buf'[i + L] = file[begins[taken + 2] + 1 + i]
      <4> SUFFICES ASSUME NEW i \in 0 .. Held - L - 1 PROVE buf'[i + L] = file[begins[taken + 2] + 1 + i]
        OBVIOUS
      <4>1. i + L \in 0 .. BufSize /\ i + L # L - 1 /\ i + L \in 0 .. Held - 1
            /\ p + 1 + (i + L) = p + L + 1 + i
        BY <1>4, <1>5, <2>5, <2>6
      <4>2. buf'[i + L] = file[p + 1 + (i + L)]
        BY <1>5, <2>7, <4>1 DEF p
      <4>3. begins[taken + 2] = p + L
        BY <2>4 DEF p
      <4> QED
        BY <4>1, <4>2, <4>3, Zenon
    <3>4. taken' \in 1 .. Len(maps) /\ maps[taken'] = line /\ taken' + 1 = taken + 2
      BY <1>4, <2>1, <2>3 DEF line
    <3>5. endOfLine' # NULL
      BY <2>3, <2>6 DEF NULL
    <3> QED
      BY <1>3, <1>6, <2>3, <2>7, <3>1, <3>2, <3>3, <3>4, <3>5 DEF Reads, L
  <2>10. ReaderInv'
    BY <1>2, <1>3, <2>9 DEF ReaderInv
  <2>11. SearchInv'
    <3>1. endOfLine' # NULL
      BY <2>3, <2>6 DEF NULL
    <3>2. \A i \in 1 .. taken' - 1 : maps'[i].path # LibcPath
      BY <1>1, <1>3, <1>4, <2>3 DEF SearchInv
    <3> QED
      BY <2>3, <3>1, <3>2 DEF SearchInv
  <2>12. SymbolInv'
    <3>1. my = <<>> /\ my' = <<>> /\ pc' = "examine"
      BY <1>1, <1>3, <2>3 DEF SymbolInv
    <3> QED
      BY <3>1 DEF SymbolInv
  <2> QED
    BY <2>8, <2>10, <2>11, <2>12 DEF IInv
<1> QED
  BY <1>7, <1>8

-----------------------------------------------------------------------------
(* The search for libc.                                                    *)

(* What readLine has returned is a line of the file.                       *)
LEMMA LineIs ==
    ASSUME TypeInv, ReaderInv, endOfLine # NULL, pc # "trap"
    PROVE  /\ taken \in 1 .. Len(maps) /\ maps[taken] \in LineType
           /\ Line = Text(maps[taken])
<1> DEFINE line == maps[taken]
<1>1. PICK begins : Reads(begins)
  BY DEF ReaderInv
<1>2. /\ taken \in 1 .. Len(maps) /\ endOfLine = line.length
      /\ \A i \in 0 .. endOfLine - 2 : buf[i] = Text(line)[i + 1]
  BY <1>1 DEF Reads
<1>3. line \in LineType
  <2>1. maps \in Seq(LineType)
    BY MapsAssumption DEF TypeInv
  <2> QED
    BY <1>2, <2>1
<1>4. Text(line) \in Seq(Nat) /\ Len(Text(line)) = endOfLine - 1
  BY <1>2, <1>3, TextOfLine
<1>5. endOfLine \in Nat
  BY DEF TypeInv, NULL
<1> DEFINE text == Text(line)
           e == endOfLine - 1
<1>6. text = [i \in 1 .. e |-> text[i]]
  <2>1. text \in Seq(Nat) /\ Len(text) = e
    BY <1>4
  <2> HIDE DEF text, e
  <2> QED
    BY <2>1
<1>7. \A i \in 1 .. e : buf[i - 1] = text[i]
  <2> SUFFICES ASSUME NEW i \in 1 .. e PROVE buf[i - 1] = text[i]
    OBVIOUS
  <2>1. i - 1 \in 0 .. endOfLine - 2 /\ i - 1 + 1 = i
    BY <1>5
  <2> QED
    BY <1>2, <2>1, Zenon
<1>8. Line = [i \in 1 .. e |-> buf[i - 1]]
  BY Zenon DEF Line
<1> HIDE DEF text
<1>9. Line = text
  BY <1>6, <1>7, <1>8, Zenon
<1> QED
  BY <1>2, <1>3, <1>9 DEF text

(* The reader is only used before libc is found.                           *)
LEMMA SameReader ==
    ASSUME IInv, pc # "trap", UNCHANGED <<process, reader>>
    PROVE  ReaderInv'
<1>1. PICK begins : Laid(begins, maps, file) /\ Reads(begins)
  BY DEF IInv, ReaderInv
<1>2. Laid(begins, maps, file)' /\ Reads(begins)'
  BY <1>1 DEF process, reader, Laid, Reads, Text
<1> QED
  BY <1>2 DEF ReaderInv

LEMMA ExamineStep ==
    ASSUME IInv, Examine
    PROVE  IInv'
<1>1. /\ TypeInv /\ SearchInv /\ SymbolInv /\ pc = "examine" /\ endOfLine # NULL
      /\ my = <<>> /\ \A i \in 1 .. taken - 1 : maps[i].path # LibcPath
  BY DEF IInv, Examine, SearchInv, SymbolInv
<1>2. /\ taken \in 1 .. Len(maps) /\ maps[taken] \in LineType
      /\ Line = Text(maps[taken])
  BY <1>1, LineIs DEF IInv
<1>3. maps \in Seq(LineType)
  BY <1>1, MapsAssumption DEF TypeInv
<1>4. /\ maps' = maps /\ image' = image /\ file' = file
      /\ UNCHANGED reader /\ fields' = fields /\ n' = n /\ my' = my
  BY Zenon DEF Examine, process
<1>5. ReaderInv'
  BY <1>1, SameReader DEF Examine
<1>6. LibcLine' = LibcLine
  BY <1>4, SameProcess
<1>7. (\E i \in DOMAIN Line : Line[i] = LibcPath) <=> maps[taken].path = LibcPath
  <2> DEFINE line == maps[taken]
             text == Text(line)
  <2>1. /\ text \in Seq(Nat) /\ Len(text) = line.length - 1
        /\ \A i \in 1 .. line.length - 1 : text[i] = LibcPath => line.path = LibcPath
        /\ text[line.length - 1] = line.path
    BY <1>2, TextOfLine
  <2>2. line.length \in Nat \ 0 .. 2
    BY <1>2 DEF LineType
  <2>3. DOMAIN text = 1 .. line.length - 1
    <3> HIDE DEF text
    <3> QED
      BY <2>1
  <2>4. line.length - 1 \in 1 .. line.length - 1
    BY <2>2
  <2> HIDE DEF text
  <2> QED
    BY <1>2, <2>1, <2>3, <2>4, Zenon DEF text
<1>8. CASE maps[taken].path = LibcPath
  <2>1. start' = maps[taken].addr /\ pc' = "elf"
    <3>1. start' = Line[1] /\ pc' = "elf"
      BY <1>7, <1>8, Zenon DEF Examine
    <3> QED
      BY <1>2, <3>1, TextOfLine
  <2>2. LibcLine = taken
    BY <1>1, <1>2, <1>3, <1>8, LibcLineIs
  <2>3. maps[taken].addr \in Nat
    BY <1>2 DEF LineType
  <2>4. TypeInv'
    BY <1>1, <1>4, <2>1, <2>3 DEF TypeInv, Pcs, reader
  <2>5. SearchInv'
    BY <1>2, <1>4, <1>6, <2>1, <2>2 DEF SearchInv
  <2>6. SymbolInv'
    <3>1. my' = <<>> /\ pc' = "elf"
      BY <1>1, <1>4, <2>1
    <3> QED
      BY <3>1 DEF SymbolInv
  <2> QED
    BY <1>5, <2>4, <2>5, <2>6 DEF IInv
<1>9. CASE maps[taken].path # LibcPath
  <2>1. start' = start /\ pc' = "readLine"
    BY <1>7, <1>9, Zenon DEF Examine
  <2>2. TypeInv'
    BY <1>1, <1>4, <2>1 DEF TypeInv, Pcs, reader
  <2>3. SearchInv'
    <3>1. \A i \in 1 .. taken : i = taken \/ i \in 1 .. taken - 1
      BY <1>2, <1>3
    <3>2. \A i \in 1 .. taken' : maps'[i].path # LibcPath
      BY <1>1, <1>4, <1>9, <3>1 DEF reader
    <3> QED
      BY <2>1, <3>2 DEF SearchInv
  <2>4. SymbolInv'
    <3>1. my' = <<>> /\ pc' = "readLine"
      BY <1>1, <1>4, <2>1
    <3> QED
      BY <3>1 DEF SymbolInv
  <2> QED
    BY <1>5, <2>2, <2>3, <2>4 DEF IInv
<1> QED
  BY <1>8, <1>9

-----------------------------------------------------------------------------
(* The dynamic section.                                                    *)

LEMMA DynamicIs == Dynamic # 0 => Dynamic \in 1 .. Len(image.phdrs)
<1> DEFINE T == {i \in 1 .. Len(image.phdrs) : image.phdrs[i].type = "DYNAMIC"}
<1>1. Dynamic = IF T # {} THEN Min(T) ELSE 0
  BY Zenon DEF Dynamic, SelectInSeq
<1>2. CASE T = {}
  BY <1>1, <1>2
<1>3. CASE T # {}
  <2>1. T \subseteq Nat /\ T \subseteq 1 .. Len(image.phdrs)
    OBVIOUS
  <2> HIDE DEF T
  <2>2. PICK t \in T : \A i \in T : t <= i
    BY <1>3, <2>1, LeastNat
  <2>3. Dynamic = t
    BY <1>1, <1>3, <2>1, <2>2, MinIs
  <2> QED
    BY <2>1, <2>3
<1> QED
  BY <1>2, <1>3

(* A field stays 0 when the section does not have it; a pointer gets the   *)
(* address where the table is mapped, whoever added the base.              *)
LEMMA FieldsAre ==
    ASSUME NEW dyn, DynamicSection(dyn), start \in Nat, image.android \in BOOLEAN,
           NEW tag \in DOMAIN NoFields
    PROVE  /\ fill_with_dyn(dyn)[tag] = 0 <=> tag \notin {entry.tag : entry \in ToSet(dyn)}
           /\ \A entry \in ToSet(dyn) : entry.tag = tag /\ Relative(tag)
                 => fill_with_dyn(dyn)[tag] = start + entry.value
<1> DEFINE M == Len(dyn)
           T == {i \in 1 .. M : dyn[i].tag = tag}
           last == IF T # {} THEN Max(T) ELSE 0
           field == fill_with_dyn(dyn)[tag]
<1>1. /\ M \in Nat /\ DOMAIN dyn = 1 .. M
      /\ \A i \in 1 .. M : dyn[i].value \in Nat
  <2> DEFINE Entries == [tag : STRING, value : Nat]
  <2>1. \A entry \in Entries : entry.value \in Nat
    OBVIOUS
  <2>2. dyn \in Seq(Entries)
    BY Zenon DEF DynamicSection
  <2> HIDE DEF Entries
  <2>3. M \in Nat /\ DOMAIN dyn = 1 .. M /\ \A i \in 1 .. M : dyn[i] \in Entries
    BY <2>2
  <2> QED
    BY <2>1, <2>3
<1>2. field = IF last = 0 THEN NoFields[tag]
              ELSE Loaded(dyn[last]) + (IF Relative(tag) THEN Base ELSE 0)
  BY Zenon DEF fill_with_dyn, SelectLastInSeq
<1>3. NoFields[tag] = 0
  BY DEF NoFields
<1>4. ToSet(dyn) = {dyn[i] : i \in 1 .. M}
  BY <1>1 DEF ToSet
<1>5. CASE T = {}
  <2>1. last = 0
    BY <1>5
  <2>2. field = 0
    BY <1>2, <1>3, <2>1
  <2>3. \A entry \in ToSet(dyn) : entry.tag # tag
    BY <1>4, <1>5
  <2> QED
    BY <2>2, <2>3
<1>6. CASE T # {}
  <2>1. PICK k \in 1 .. M : dyn[k].tag = tag
    BY <1>6
  <2>2. dyn[k].value # 0 /\ \A i \in 1 .. M : dyn[i].tag = tag => i = k
    BY <1>1, <2>1 DEF DynamicSection
  <2>3. T = {k}
    BY <2>1, <2>2
  <2>4. Max(T) = k
    <3>1. k \in Nat /\ k >= k
      BY <1>1
    <3> QED
      BY <2>3, <3>1 DEF Max
  <2> HIDE DEF T
  <2>5. last = k /\ k # 0
    BY <1>1, <1>6, <2>4
  <2> HIDE DEF last, field
  <2>6. field = dyn[k].value + (IF Relative(tag) /\ ~image.android THEN start ELSE 0)
                + (IF Relative(tag) THEN Base ELSE 0)
    BY <1>2, <2>1, <2>5 DEF Loaded
  <2> DEFINE v == dyn[k].value
  <2>7. v \in Nat \ {0}
    BY <1>1, <2>2
  <2> HIDE DEF v
  <2>8. field # 0 /\ (Relative(tag) => field = start + v)
    BY <2>6, <2>7 DEF Base, v
  <2>9. tag \in {entry.tag : entry \in ToSet(dyn)}
    BY <1>4, <2>1
  <2>10. \A entry \in ToSet(dyn) : entry.tag = tag => entry.value = v
    BY <1>4, <2>2 DEF v
  <2> QED
    BY <2>8, <2>9, <2>10 DEF field
<1> QED
  BY <1>5, <1>6

LEMMA DealWithElfStep ==
    ASSUME IInv, DealWithElf
    PROVE  IInv'
<1> DEFINE dyn == image.phdrs[Dynamic].entries
           found == fill_with_dyn(dyn)
<1>1. /\ TypeInv /\ SearchInv /\ SymbolInv /\ pc = "elf"
      /\ start \in Nat /\ image \in Images
  BY DEF IInv, DealWithElf, TypeInv
<1>2. /\ maps' = maps /\ image' = image /\ file' = file
      /\ UNCHANGED reader /\ start' = start /\ n' = n /\ my' = my
  BY Zenon DEF DealWithElf, process
<1>3. \/ /\ image.magic /\ image.type = "DYN" /\ Dynamic # 0 /\ fields' = found
         /\ pc' = IF \E tag \in DOMAIN found : found[tag] = 0 THEN "trap" ELSE "find"
      \/ ~(image.magic /\ image.type = "DYN" /\ Dynamic # 0) /\ pc' = "trap"
  BY Zenon DEF DealWithElf, Dynamic
<1>4. ReaderInv'
  BY <1>1, SameReader DEF DealWithElf
<1>5. /\ LibcLine' = LibcLine /\ Dynamic' = Dynamic /\ (Usable <=> Usable')
      /\ \A name : Defines(name)' = Defines(name)
  BY <1>2, SameProcess, Zenon
<1>6. TypeInv'
  BY <1>1, <1>2, <1>3 DEF TypeInv, Pcs, reader
<1>7. LibcLine \in 1 .. Len(maps) /\ start = maps[LibcLine].addr
  BY <1>1 DEF SearchInv
<1>8. DOMAIN found = DOMAIN NoFields
  BY Zenon DEF fill_with_dyn
<1>9. Dynamic # 0 =>
         \A tag \in DOMAIN NoFields :
            /\ found[tag] = 0 <=> tag \notin {entry.tag : entry \in ToSet(dyn)}
            /\ \A entry \in ToSet(dyn) : entry.tag = tag /\ Relative(tag)
                  => found[tag] = start + entry.value
  <2> SUFFICES ASSUME Dynamic # 0, NEW tag \in DOMAIN NoFields
               PROVE  /\ found[tag] = 0 <=> tag \notin {entry.tag : entry \in ToSet(dyn)}
                      /\ \A entry \in ToSet(dyn) : entry.tag = tag /\ Relative(tag)
                            => found[tag] = start + entry.value
    BY Zenon
  <2>1. Dynamic \in 1 .. Len(image.phdrs)
    BY DynamicIs
  <2>2. DynamicSection(dyn) /\ image.android \in BOOLEAN
    BY <1>1, <2>1, ImagesAssumption, Zenon
  <2> HIDE DEF dyn
  <2> QED
    BY <1>1, <2>2, FieldsAre, Zenon
<1> HIDE DEF dyn, found
<1>10. Usable <=> /\ image.magic /\ image.type = "DYN" /\ Dynamic # 0
                  /\ DOMAIN NoFields \subseteq {entry.tag : entry \in ToSet(dyn)}
  BY Zenon DEF Usable, dyn
<1>11. pc' = "trap" => ~Usable
  BY <1>3, <1>8, <1>9, <1>10
<1>12. pc' # "trap" => pc' = "find" /\ fields' = found /\ Dynamic # 0
  BY <1>3
<1>13. SearchInv'
  BY <1>2, <1>3, <1>5, <1>7, <1>11 DEF SearchInv
<1>14. SymbolInv'
  <2>1. pc' \in {"find", "walk", "done"} =>
           \A entry \in ToSet(image'.phdrs[Dynamic'].entries) :
              Relative(entry.tag) => fields'[entry.tag] = start' + entry.value
    <3>1. \A tag : Relative(tag) => tag \in DOMAIN NoFields
      BY DEF Relative, NoFields
    <3>2. \A entry \in ToSet(dyn) : Dynamic # 0 /\ Relative(entry.tag) => found[entry.tag] = start + entry.value
      BY <1>9, <3>1, Zenon
    <3> QED
      BY <1>2, <1>5, <1>12, <3>2, Zenon DEF dyn
  <2>2. \A i \in 1 .. Len(my') :
          /\ Defines(Names[i])' # 0
          /\ my'[i] = start' + image'.symbols[Defines(Names[i])'].value
    BY <1>1, <1>2, <1>5, Zenon DEF SymbolInv
  <2>3. pc' \in {"trap", "find"}
    BY <1>3
  <2> QED
    BY <2>1, <2>2, <2>3 DEF SymbolInv
<1> QED
  BY <1>4, <1>6, <1>13, <1>14 DEF IInv

-----------------------------------------------------------------------------
(* The symbols.                                                            *)

(* A symbol is the one of its name.                                        *)
LEMMA DefinesIs ==
    ASSUME HashTable(image), NEW name
    PROVE  /\ DOMAIN image.symbols = 1 .. Len(image.symbols) /\ Len(image.symbols) \in Nat
           /\ \A i \in DOMAIN image.symbols : image.symbols[i].value \in Nat
           /\ Defines(name) \in 0 .. Len(image.symbols)
           /\ Defines(name) # 0 => image.symbols[Defines(name)].name = name
           /\ \A i \in DOMAIN image.symbols :
                 image.symbols[i].name = name => Defines(name) = i
<1> DEFINE symbols == image.symbols
           M == Len(symbols)
           T == {i \in 1 .. M : symbols[i].name = name}
           found == Defines(name)
<1>1. M \in Nat /\ DOMAIN symbols = 1 .. M /\ \A i \in 1 .. M : symbols[i].value \in Nat
  <2> DEFINE Symbols == [name : Seq(Nat), value : Nat]
  <2>1. \A symbol \in Symbols : symbol.value \in Nat
    OBVIOUS
  <2>2. symbols \in Seq(Symbols)
    BY Zenon DEF HashTable
  <2> HIDE DEF Symbols, symbols
  <2>3. M \in Nat /\ DOMAIN symbols = 1 .. M /\ \A i \in 1 .. M : symbols[i] \in Symbols
    BY <2>2
  <2> QED
    BY <2>1, <2>3
<1>2. \A i, j \in 1 .. M : symbols[i].name = symbols[j].name => i = j
  BY <1>1, Zenon DEF HashTable
<1>3. found = IF T # {} THEN Min(T) ELSE 0
  BY Zenon DEF Defines, SelectInSeq
<1> HIDE DEF found, M, symbols
<1>4. CASE T = {}
  <2>1. found = 0
    BY <1>3, <1>4
  <2>2. \A i \in 1 .. M : symbols[i].name # name
    BY <1>4
  <2> QED
    BY <1>1, <2>1, <2>2 DEF found, M, symbols
<1>5. CASE T # {}
  <2>1. PICK k \in 1 .. M : symbols[k].name = name
    BY <1>5
  <2>2. \A i \in 1 .. M : symbols[i].name = name => i = k
    BY <1>2, <2>1
  <2>3. k \in T /\ \A i \in T : k <= i
    BY <1>1, <2>1, <2>2
  <2>4. T \subseteq Nat
    BY <1>1
  <2> HIDE DEF T
  <2>5. found = k
    BY <1>3, <1>5, <2>3, <2>4, MinIs
  <2>6. k \in 0 .. M
    BY <1>1
  <2> QED
    BY <1>1, <2>1, <2>2, <2>5, <2>6 DEF found, M, symbols
<1> QED
  BY <1>4, <1>5

(* The walk comes to the symbol it has not passed.                         *)
LEMMA ChainLeads ==
    ASSUME HashTable(image), NEW h \in DOMAIN image.symbols, NEW t \in DOMAIN image.symbols,
           Leads(image, h, t), h # t
    PROVE  image.chain[h] # 0 /\ Leads(image, image.chain[h], t)
<1> DEFINE C == image.chain
           D == DOMAIN image.symbols
<1>1. \A S \in SUBSET D : (h \in S /\ \A i \in S : C[i] \in S \cup {0}) => t \in S
  BY Zenon DEF Leads
<1> HIDE DEF C, D
<1>2. C[h] # 0
  <2> SUFFICES ASSUME C[h] = 0 PROVE FALSE
    OBVIOUS
  <2>1. {h} \in SUBSET D /\ \A i \in {h} : C[i] \in {h} \cup {0}
    BY DEF D
  <2> QED
    BY <1>1, <2>1
<1>3. ASSUME NEW S \in SUBSET D, C[h] \in S, \A i \in S : C[i] \in S \cup {0}
      PROVE  t \in S
  <2> DEFINE R == S \cup {h}
  <2>1. R \in SUBSET D /\ h \in R /\ \A i \in R : C[i] \in R \cup {0}
    BY <1>3 DEF D
  <2>2. t \in R
    BY <1>1, <2>1, Zenon
  <2> QED
    BY <2>2
<1>4. \A S \in SUBSET D : (C[h] \in S /\ \A i \in S : C[i] \in S \cup {0}) => t \in S
  BY <1>3
<1> QED
  BY <1>2, <1>4, Zenon DEF Leads, C, D

LEMMA FindSymStep ==
    ASSUME IInv, FindSym
    PROVE  IInv'
<1>1. /\ TypeInv /\ SearchInv /\ SymbolInv /\ pc = "find" /\ image \in Images
      /\ my \in Seq(Nat) /\ Len(my) \in Nat /\ Len(my) <= Len(Names)
  BY DEF IInv, FindSym, TypeInv
<1>2. /\ maps' = maps /\ image' = image /\ file' = file
      /\ UNCHANGED reader /\ start' = start /\ fields' = fields /\ my' = my
  BY Zenon DEF FindSym, process
<1>3. ReaderInv'
  BY <1>1, SameReader DEF FindSym
<1>4. /\ LibcLine' = LibcLine /\ Dynamic' = Dynamic
      /\ \A name : Defines(name)' = Defines(name)
  BY <1>2, SameProcess, Zenon
<1>5. HashTable(image)
  BY <1>1, ImagesAssumption
<1>6. Len(Names) \in Nat
  BY NamesAssumption
<1>7. pc' \in {"done", "walk"}
  BY DEF FindSym
<1>8. SearchInv'
  BY <1>1, <1>2, <1>4, <1>7 DEF SearchInv
<1>9. \A i \in 1 .. Len(my') :
          /\ Defines(Names[i])' # 0
          /\ my'[i] = start' + image'.symbols[Defines(Names[i])'].value
  BY <1>1, <1>2, <1>4, Zenon DEF SymbolInv
<1>10. \A entry \in ToSet(image'.phdrs[Dynamic'].entries) :
              Relative(entry.tag) => fields'[entry.tag] = start' + entry.value
  <2>1. \A entry \in ToSet(image.phdrs[Dynamic].entries) :
              Relative(entry.tag) => fields[entry.tag] = start + entry.value
    BY <1>1 DEF SymbolInv
  <2> QED
    BY <2>1, <1>2, <1>4, Zenon
<1>11. CASE Len(my) = Len(Names)
  <2>1. pc' = "done" /\ n' = n
    BY <1>11, Zenon DEF FindSym
  <2>2. TypeInv'
    BY <1>1, <1>2, <2>1 DEF TypeInv, Pcs, reader
  <2>3. SymbolInv'
    <3>1. Len(my') = Len(Names)
      BY <1>2, <1>11
    <3> QED
      BY <1>9, <1>10, <2>1, <3>1 DEF SymbolInv
  <2> QED
    BY <1>3, <1>8, <2>2, <2>3 DEF IInv
<1>12. CASE Len(my) # Len(Names)
  <2> DEFINE name == Names[Len(my) + 1]
             M == Len(image.bucket)
             head == image.bucket[(AbiHash[name] % M) + 1]
  <2>1. pc' = "walk" /\ n' = Bucket(name)
    BY <1>12, Zenon DEF FindSym
  <2>2. Len(my) < Len(Names) /\ Len(my) + 1 \in 1 .. Len(Names)
    BY <1>1, <1>6, <1>12
  <2>3. name \in ToSet(Names)
    <3>1. DOMAIN Names = 1 .. Len(Names)
      BY NamesAssumption
    <3> QED
      BY <2>2, <3>1, Zenon DEF ToSet
  <2>4. elf_hash(name) = AbiHash[name] /\ AbiHash[name] \in Nat
    BY <2>3, NamesAssumption
  <2>5. n' = head
    BY <2>1, <2>4, Zenon DEF Bucket
  <2>6. head \in 0 .. Len(image.symbols)
    <3> DEFINE B == image.bucket
               E == 0 .. Len(image.symbols)
               h == AbiHash[name]
    <3>1. B \in Seq(E) /\ B # <<>>
      BY <1>5, Zenon DEF HashTable
    <3>2. h \in Nat
      BY <2>4
    <3> HIDE DEF B, E, h
    <3>3. Len(B) \in Nat \ {0}
      BY <3>1
    <3>4. (h % Len(B)) + 1 \in 1 .. Len(B)
      BY <3>2, <3>3
    <3>5. B[(h % Len(B)) + 1] \in E
      BY <3>1, <3>4
    <3> QED
      BY <3>5 DEF B, E, h
  <2>7. Defines(name) # 0 => head # 0 /\ Leads(image, head, Defines(name))
    <3> SUFFICES ASSUME Defines(name) # 0 PROVE head # 0 /\ Leads(image, head, Defines(name))
      OBVIOUS
    <3> DEFINE t == Defines(name)
    <3> HIDE DEF name
    <3>1. t \in 0 .. Len(image.symbols) /\ image.symbols[t].name = name
          /\ DOMAIN image.symbols = 1 .. Len(image.symbols) /\ Len(image.symbols) \in Nat
      BY <1>5, DefinesIs
    <3> HIDE DEF t
    <3>2. t \in DOMAIN image.symbols
      BY <3>1 DEF t
    <3> QED
      BY <1>5, <2>3, <3>1, <3>2, Zenon DEF HashTable, t
  <2> HIDE DEF head
  <2>8. TypeInv'
    BY <1>1, <1>2, <2>1, <2>5, <2>6 DEF TypeInv, Pcs, reader
  <2>9. (/\ Len(my) < Len(Names)
         /\ LET t == Defines(Names[Len(my) + 1])
            IN  t # 0 => n # 0 /\ Leads(image, n, t))'
    <3>1. Defines(Names[Len(my) + 1])' = Defines(name)
      BY <1>2, Zenon DEF Defines, SelectInSeq
    <3> QED
      BY <1>2, <2>2, <2>5, <2>7, <3>1, Zenon
  <2>10. SymbolInv'
    BY <1>9, <1>10, <2>1, <2>9 DEF SymbolInv
  <2> QED
    BY <1>3, <1>8, <2>8, <2>10 DEF IInv
<1> QED
  BY <1>11, <1>12

LEMMA WalkStep ==
    ASSUME IInv, Walk
    PROVE  IInv'
<1> DEFINE name == Names[Len(my) + 1]
           M == Len(image.symbols)
           t == Defines(name)
<1>1. /\ TypeInv /\ SearchInv /\ SymbolInv /\ pc = "walk" /\ image \in Images
      /\ my \in Seq(Nat) /\ Len(my) \in Nat /\ Len(my) < Len(Names)
      /\ start \in Nat /\ n \in 0 .. M
      /\ t # 0 => n # 0 /\ Leads(image, n, t)
  BY DEF IInv, Walk, TypeInv, SymbolInv
<1>2. /\ maps' = maps /\ image' = image /\ file' = file
      /\ UNCHANGED reader /\ start' = start /\ fields' = fields
  BY Zenon DEF Walk, process
<1>3. ReaderInv'
  BY <1>1, SameReader DEF Walk
<1>4. /\ LibcLine' = LibcLine /\ Dynamic' = Dynamic /\ (Missing <=> Missing')
      /\ \A x : Defines(x)' = Defines(x)
  BY <1>2, SameProcess, Zenon
<1>5. HashTable(image)
  BY <1>1, ImagesAssumption
<1>6. /\ Len(Names) \in Nat /\ DOMAIN Names = 1 .. Len(Names)
      /\ Len(my) + 1 \in 1 .. Len(Names)
  BY <1>1, NamesAssumption
<1>7. /\ DOMAIN image.symbols = 1 .. M /\ M \in Nat
      /\ \A i \in DOMAIN image.symbols : image.symbols[i].value \in Nat
      /\ t \in 0 .. M
      /\ t # 0 => image.symbols[t].name = name
      /\ \A i \in DOMAIN image.symbols : image.symbols[i].name = name => t = i
  <2> HIDE DEF name
  <2> QED
    BY <1>5, DefinesIs
<1>8. \A entry \in ToSet(image'.phdrs[Dynamic'].entries) :
              Relative(entry.tag) => fields'[entry.tag] = start' + entry.value
  <2>1. \A entry \in ToSet(image.phdrs[Dynamic].entries) :
              Relative(entry.tag) => fields[entry.tag] = start + entry.value
    BY <1>1 DEF SymbolInv
  <2> QED
    BY <2>1, <1>2, <1>4, Zenon
<1>9. \A i \in 1 .. Len(my) :
          /\ Defines(Names[i])' # 0
          /\ my[i] = start' + image'.symbols[Defines(Names[i])'].value
  BY <1>1, <1>2, <1>4, Zenon DEF SymbolInv
<1>10. LibcLine \in 1 .. Len(maps) /\ start = maps[LibcLine].addr
  BY <1>1 DEF SearchInv
<1>11. CASE n = 0
  <2>1. pc' = "trap" /\ n' = n /\ my' = my
    BY <1>11, Zenon DEF Walk
  <2>2. Missing
    <3>1. t = 0
      BY <1>1, <1>11
    <3> QED
      BY <1>6, <3>1, Zenon DEF Missing
  <2>3. TypeInv'
    BY <1>1, <1>2, <2>1 DEF TypeInv, Pcs, reader
  <2>4. SearchInv'
    BY <1>4, <2>1, <2>2 DEF SearchInv
  <2>5. SymbolInv'
    BY <1>9, <2>1 DEF SymbolInv
  <2> QED
    BY <1>3, <2>3, <2>4, <2>5 DEF IInv
<1>12. CASE n # 0 /\ Matches(image.symbols[n], name)
  <2> DEFINE value == start + image.symbols[n].value
  <2>1. pc' = "find" /\ n' = n /\ my' = Append(my, value)
    BY <1>12, Zenon DEF Walk
  <2>2. n \in DOMAIN image.symbols /\ t = n
    <3>1. n \in DOMAIN image.symbols
      BY <1>1, <1>7, <1>12
    <3> QED
      BY <1>7, <1>12, <3>1 DEF Matches
  <2>3. value \in Nat
    BY <1>1, <1>7, <2>2
  <2> HIDE DEF value
  <2>4. /\ my' \in Seq(Nat) /\ Len(my') = Len(my) + 1
        /\ my'[Len(my) + 1] = value /\ \A i \in 1 .. Len(my) : my'[i] = my[i]
    BY <1>1, <2>1, <2>3
  <2>5. TypeInv'
    BY <1>1, <1>2, <1>6, <2>1, <2>4 DEF TypeInv, Pcs, reader
  <2>6. SearchInv'
    BY <1>2, <1>4, <1>10, <2>1 DEF SearchInv
  <2>7. \A i \in 1 .. Len(my') :
            /\ Defines(Names[i])' # 0
            /\ my'[i] = start' + image'.symbols[Defines(Names[i])'].value
    <3> SUFFICES ASSUME NEW i \in 1 .. Len(my')
                 PROVE  /\ Defines(Names[i])' # 0
                        /\ my'[i] = start' + image'.symbols[Defines(Names[i])'].value
      BY Zenon
    <3>1. i \in 1 .. Len(my) \/ i = Len(my) + 1
      BY <1>1, <2>4
    <3>2. CASE i \in 1 .. Len(my)
      BY <1>9, <2>4, <3>2, Zenon
    <3>3. CASE i = Len(my) + 1
      <4>1. Defines(Names[i])' = t /\ t # 0
        BY <1>4, <1>12, <2>2, <3>3, Zenon
      <4>2. my'[i] = start + image.symbols[t].value
        BY <2>2, <2>4, <3>3 DEF value
      <4> QED
        BY <1>2, <4>1, <4>2, Zenon
    <3> QED
      BY <3>1, <3>2, <3>3
  <2>8. SymbolInv'
    BY <1>8, <2>1, <2>7 DEF SymbolInv
  <2> QED
    BY <1>3, <2>5, <2>6, <2>8 DEF IInv
<1>13. CASE n # 0 /\ ~Matches(image.symbols[n], name)
  <2>1. pc' = pc /\ n' = image.chain[n] /\ my' = my
    BY <1>13, Zenon DEF Walk, NextInChain
  <2>2. n \in DOMAIN image.symbols
    BY <1>1, <1>7, <1>13
  <2>3. image.chain[n] \in 0 .. M
    BY <1>5, <2>2 DEF HashTable
  <2>4. t # 0 => n' # 0 /\ Leads(image, n', t)
    <3> SUFFICES ASSUME t # 0 PROVE n' # 0 /\ Leads(image, n', t)
      OBVIOUS
    <3>1. t \in DOMAIN image.symbols /\ t # n
      BY <1>7, <1>13 DEF Matches
    <3> HIDE DEF t
    <3> QED
      BY <1>1, <1>5, <2>1, <2>2, <3>1, ChainLeads, Zenon
  <2>5. TypeInv'
    BY <1>1, <1>2, <2>1, <2>3 DEF TypeInv, Pcs, reader
  <2>6. SearchInv'
    BY <1>1, <1>2, <1>4, <1>10, <2>1 DEF SearchInv
  <2>7. (/\ Len(my) < Len(Names)
         /\ LET u == Defines(Names[Len(my) + 1])
            IN  u # 0 => n # 0 /\ Leads(image, n, u))'
    <3>1. Defines(Names[Len(my) + 1])' = t
      BY <1>2, <2>1, Zenon DEF Defines, SelectInSeq
    <3> HIDE DEF t
    <3> QED
      BY <1>1, <1>2, <2>1, <2>4, <3>1, Zenon
  <2>8. SymbolInv'
    BY <1>1, <1>8, <1>9, <2>1, <2>7 DEF SymbolInv
  <2> QED
    BY <1>3, <2>5, <2>6, <2>8 DEF IInv
<1> QED
  BY <1>11, <1>12, <1>13

-----------------------------------------------------------------------------
(* The theorems.                                                           *)

LEMMA InvInit == Init => IInv
<1> SUFFICES ASSUME Init PROVE IInv
  OBVIOUS
<1>1. /\ maps \in Seq(LineType) /\ image \in Images /\ file = File(maps) /\ maps \in MapsFiles
      /\ buf = [i \in 0 .. BufSize |-> NUL]
      /\ pc = "readLine" /\ my = <<>> /\ taken = 0
  BY MapsAssumption DEF Init
<1>2. PICK begins : Laid(begins, maps, file)
  BY <1>1, FileIsLaid
<1>3. Len(file) \in Nat /\ Len(maps) \in Nat
  BY <1>1, <1>2 DEF Laid
<1>4. Len(image.symbols) \in Nat /\ Len(Names) \in Nat
  <2>1. image.symbols \in Seq([name : Seq(Nat), value : Nat])
    BY <1>1, ImagesAssumption, Zenon DEF HashTable
  <2> DEFINE S == [name : Seq(Nat), value : Nat]
             s == image.symbols
  <2>2. s \in Seq(S)
    BY <2>1
  <2> HIDE DEF S, s
  <2>3. Len(s) \in Nat
    BY <2>2
  <2> QED
    BY <2>3, NamesAssumption DEF s
<1>5. TypeInv
  <2>1. buf \in [0 .. BufSize -> Nat] /\ buf[BufSize] = NUL
    BY <1>1, BufSizeAssumption DEF NUL
  <2>2. my \in Seq(Nat) /\ Len(my) = 0
    BY <1>1
  <2>3. /\ endOfBuffer \in 0 .. BufSize /\ endOfLine \in {NULL} \cup 1 .. endOfBuffer
        /\ endOfFile \in BOOLEAN /\ start \in Nat
    BY BufSizeAssumption DEF Init
  <2>4. offset \in 0 .. Len(file) /\ taken \in 0 .. Len(maps) /\ n \in 0 .. Len(image.symbols)
    <3>1. offset = 0 /\ taken = 0 /\ n = 0
      BY DEF Init
    <3> QED
      BY <1>3, <1>4, <3>1
  <2>5. Len(my) <= Len(Names)
    BY <1>4, <2>2
  <2>6. pc \in Pcs
    BY <1>1 DEF Pcs
  <2> QED
    BY <1>1, <2>1, <2>2, <2>3, <2>4, <2>5, <2>6, Zenon DEF TypeInv
<1>6. Reads(begins)
  BY DEF Init, Reads
<1>7. ReaderInv
  BY <1>2, <1>6, Zenon DEF ReaderInv
<1>8. SearchInv
  BY <1>1 DEF SearchInv
<1>9. SymbolInv
  BY <1>1 DEF SymbolInv
<1> QED
  BY <1>5, <1>7, <1>8, <1>9 DEF IInv

LEMMA InvStep ==
    ASSUME IInv, [Next]_vars
    PROVE  IInv'
<1>1. CASE ReadLine
  BY <1>1, ReadLineStep
<1>2. CASE Examine
  BY <1>2, ExamineStep
<1>3. CASE DealWithElf
  BY <1>3, DealWithElfStep
<1>4. CASE FindSym
  BY <1>4, FindSymStep
<1>5. CASE Walk
  BY <1>5, WalkStep
<1>6. CASE UNCHANGED vars
  <2>1. /\ UNCHANGED <<process, reader>> /\ maps' = maps /\ image' = image /\ file' = file
        /\ pc' = pc /\ start' = start /\ fields' = fields /\ n' = n /\ my' = my
    BY <1>6, Zenon DEF vars, process
  <2>2. TypeInv'
    BY <2>1 DEF IInv, TypeInv, Pcs, reader
  <2>3. ReaderInv'
    <3>1. CASE pc = "trap"
      BY <2>1, <3>1 DEF ReaderInv
    <3>2. CASE pc # "trap"
      BY <2>1, <3>2, SameReader
    <3> QED
      BY <3>1, <3>2
  <2>4. /\ LibcLine' = LibcLine /\ (TooLong <=> TooLong')
        /\ Dynamic' = Dynamic /\ (Usable <=> Usable') /\ (Missing <=> Missing')
        /\ \A x : Defines(x)' = Defines(x)
    BY <2>1, SameProcess, Zenon
  <2>5. SearchInv'
    BY <2>1, <2>4 DEF IInv, SearchInv, reader
  <2>6. SymbolInv'
    <3>1. Defines(Names[Len(my) + 1])' = Defines(Names[Len(my) + 1])
      BY <2>1, Zenon DEF Defines, SelectInSeq
    <3> QED
      BY <2>1, <2>4, <3>1 DEF IInv, SymbolInv
  <2> QED
    BY <2>2, <2>3, <2>5, <2>6 DEF IInv
<1> QED
  BY <1>1, <1>2, <1>3, <1>4, <1>5, <1>6 DEF Next

LEMMA Always == Spec => []IInv
<1>1. Init => IInv
  BY InvInit
<1>2. IInv /\ [Next]_vars => IInv'
  BY InvStep
<1> QED
  BY <1>1, <1>2, PTL DEF Spec

(* The reader stays inside its buffer, and everything has its type.        *)
THEOREM ResolverTypeCorrect == Spec => []TypeOK
<1>1. IInv => TypeOK
  <2> SUFFICES ASSUME TypeInv PROVE TypeOK
    BY DEF IInv
  <2>1. DOMAIN buf = 0 .. BufSize
    BY DEF TypeInv
  <2> QED
    BY <2>1 DEF TypeInv, TypeOK, Pcs
<1> QED
  BY <1>1, Always, PTL

(* readLine returns the lines of the file, one after the other and whole,  *)
(* wherever the end of the buffer cuts them, and although what an earlier  *)
(* read left in it is not terminated again at the end of the file.         *)
THEOREM LinesAreWhole == Spec => []LinesWhole
<1>1. IInv => LinesWhole
  BY LineIs DEF IInv, SearchInv, LinesWhole
<1> QED
  BY <1>1, Always, PTL

(* What initMyMalloc has resolved when it returns is what libc says, and   *)
(* it only stops a process in which something it needs is not there.       *)
THEOREM SymbolsResolved == Spec => []Resolved
<1>1. IInv => Resolved
  <2> SUFFICES ASSUME IInv PROVE Resolved
    OBVIOUS
  <2>1. CASE pc = "done"
    <3>1. start = maps[LibcLine].addr
      BY <2>1 DEF IInv, SearchInv
    <3>2. \A entry \in ToSet(image.phdrs[Dynamic].entries) :
             Relative(entry.tag) => fields[entry.tag] = start + entry.value
      BY <2>1 DEF IInv, SymbolInv
    <3>3. \A i \in DOMAIN Names :
             /\ Defines(Names[i]) # 0
             /\ my[i] = start + image.symbols[Defines(Names[i])].value
      <4>1. DOMAIN Names = 1 .. Len(Names) /\ Len(my) = Len(Names)
        BY <2>1, NamesAssumption DEF IInv, SymbolInv
      <4>2. \A i \in 1 .. Len(my) :
               /\ Defines(Names[i]) # 0
               /\ my[i] = start + image.symbols[Defines(Names[i])].value
        BY DEF IInv, SymbolInv
      <4> QED
        BY <4>1, <4>2, Zenon
    <3> QED
      BY <2>1, <3>1, <3>2, <3>3, Zenon DEF Resolved
  <2>2. CASE pc = "trap"
    <3>1. LibcLine = 0 \/ TooLong \/ ~Usable \/ Missing
      BY <2>2 DEF IInv, SearchInv
    <3> QED
      BY <2>2, <3>1, Zenon DEF Resolved, TooLong, Missing
  <2> QED
    BY <2>1, <2>2 DEF Resolved
<1> QED
  BY <1>1, Always, PTL

=============================================================================
