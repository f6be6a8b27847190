--------------------------- MODULE AnalysisProofs ---------------------------
(***************************************************************************)
(* Proofs about SnapshotStream and Analysis: what a snapshot sends of any  *)
(* process, and what its reader makes of whatever arrives.                 *)
(***************************************************************************)
EXTENDS Analysis, SequenceTheorems, FiniteSetTheorems, WellFoundedInduction, TLAPS

-----------------------------------------------------------------------------
(* Sequences.                                                              *)

LEMMA Pair ==
    ASSUME NEW S, NEW a \in S, NEW b \in S
    PROVE  <<a>> \o <<b>> = <<a, b>>
<1> DEFINE x == <<a>> \o <<b>>
           y == <<a, b>>
<1>1. y \in Seq(S) /\ Len(y) = 2 /\ y[1] = a /\ y[2] = b
  OBVIOUS
<1>2. x \in Seq(S) /\ Len(x) = 2 /\ x[1] = a /\ x[2] = b
  OBVIOUS
<1> HIDE DEF x, y
<1>3. Len(x) = Len(y) /\ \A k \in 1 .. Len(x) : x[k] = y[k]
  BY <1>1, <1>2
<1>4. x = y
  BY <1>1, <1>2, <1>3, SeqEqual, Zenon
<1> QED
  BY <1>4 DEF x, y

LEMMA TailOfFew ==
    ASSUME NEW S, NEW a \in Seq(S)
    PROVE  /\ Len(a) = 1 => Tail(a) = <<>>
           /\ Len(a) = 2 => Tail(a) = <<a[2]>>
<1> DEFINE x == Tail(a)
<1>1. ASSUME Len(a) = 1
      PROVE  x = <<>>
  <2>1. x \in Seq(S) /\ Len(x) = 0
    BY <1>1
  <2> HIDE DEF x
  <2> QED
    BY <2>1
<1>2. ASSUME Len(a) = 2
      PROVE  x = <<a[2]>>
  <2>1. x \in Seq(S) /\ Len(x) = 1 /\ x[1] = a[2] /\ a[2] \in S
    BY <1>2
  <2> DEFINE y == <<a[2]>>
  <2>2. y \in Seq(S) /\ Len(y) = 1 /\ y[1] = a[2]
    BY <2>1
  <2> HIDE DEF x, y
  <2>3. Len(x) = Len(y) /\ \A k \in 1 .. Len(x) : x[k] = y[k]
    BY <2>1, <2>2
  <2>4. x = y
    BY <2>1, <2>2, <2>3, SeqEqual, Zenon
  <2> QED
    BY <2>4 DEF y
<1> QED
  BY <1>1, <1>2

LEMMA CutInTwo ==
    ASSUME NEW S, NEW a \in Seq(S), NEW n \in 0 .. Len(a)
    PROVE  /\ SubSeq(a, 1, n) \in Seq(S) /\ SubSeq(a, n + 1, Len(a)) \in Seq(S)
           /\ a = SubSeq(a, 1, n) \o SubSeq(a, n + 1, Len(a))
<1> DEFINE b == SubSeq(a, 1, n)
           c == SubSeq(a, n + 1, Len(a))
           x == b \o c
<1>1. b \in Seq(S) /\ Len(b) = n /\ \A k \in 1 .. n : b[k] = a[k]
  OBVIOUS
<1>2. c \in Seq(S) /\ Len(c) = Len(a) - n /\ \A k \in 1 .. Len(a) - n : c[k] = a[n + k]
  OBVIOUS
<1> HIDE DEF b, c
<1>3. /\ x \in Seq(S) /\ Len(x) = Len(a)
      /\ \A k \in 1 .. Len(x) : x[k] = IF k <= n THEN b[k] ELSE c[k - n]
  BY <1>1, <1>2
<1> HIDE DEF x
<1>4. \A k \in 1 .. Len(x) : x[k] = a[k]
  <2> TAKE k \in 1 .. Len(x)
  <2>1. CASE k <= n
    BY <1>1, <1>3, <2>1
  <2>2. CASE ~(k <= n)
    <3>1. k - n \in 1 .. Len(a) - n /\ n + (k - n) = k
      BY <1>3, <2>2
    <3> QED
      BY <1>2, <1>3, <2>2, <3>1
  <2> QED
    BY <2>1, <2>2
<1>5. x = a
  BY <1>3, <1>4, SeqEqual, Zenon
<1> QED
  BY <1>1, <1>2, <1>5 DEF b, c, x

(* The parts of a concatenation are found in it.                           *)
LEMMA ConcatParts ==
    ASSUME NEW S, NEW a \in Seq(S), NEW b \in Seq(S)
    PROVE  /\ a \o b \in Seq(S) /\ Len(a \o b) = Len(a) + Len(b)
           /\ \A k \in 1 .. Len(a) : (a \o b)[k] = a[k]
           /\ \A k \in 1 .. Len(b) : (a \o b)[Len(a) + k] = b[k]
  OBVIOUS

LEMMA ConcatPrefix ==
    ASSUME NEW S, NEW a \in Seq(S), NEW b \in Seq(S), NEW n \in 0 .. Len(a)
    PROVE  SubSeq(a \o b, 1, n) = SubSeq(a, 1, n)
<1> DEFINE x == SubSeq(a \o b, 1, n)
           y == SubSeq(a, 1, n)
<1>1. x \in Seq(S) /\ Len(x) = n /\ \A k \in 1 .. n : x[k] = a[k]
  OBVIOUS
<1>2. y \in Seq(S) /\ Len(y) = n /\ \A k \in 1 .. n : y[k] = a[k]
  OBVIOUS
<1> HIDE DEF x, y
<1>3. Len(x) = Len(y) /\ \A k \in 1 .. Len(x) : x[k] = y[k]
  BY <1>1, <1>2
<1>4. x = y
  BY <1>1, <1>2, <1>3, SeqEqual, Zenon
<1> QED
  BY <1>4 DEF x, y

LEMMA ConcatSuffix ==
    ASSUME NEW S, NEW a \in Seq(S), NEW b \in Seq(S)
    PROVE  SubSeq(a \o b, Len(a) + 1, Len(a) + Len(b)) = b
  OBVIOUS

LEMMA PrefixGrows ==
    ASSUME NEW S, NEW a \in Seq(S), NEW n \in 1 .. Len(a)
    PROVE  SubSeq(a, 1, n) = Append(SubSeq(a, 1, n - 1), a[n])
  OBVIOUS

-----------------------------------------------------------------------------
(* Induction and recursion, with sets in place of predicates.              *)

(* A nonempty set of naturals has a least element.                         *)
LEMMA LeastNat ==
    ASSUME NEW T, T \subseteq Nat, T # {}
    PROVE  \E n \in T : \A m \in T : n <= m
<1> DEFINE R == OpToRel(<, Nat)
<1>1. IsWellFoundedOn(R, Nat)
  BY NatLessThanWellFounded, Zenon
<1>2. \A m, n \in Nat : m < n => <<m, n>> \in R
  BY Zenon DEF OpToRel
<1> HIDE DEF R
<1>3. PICK n \in T : \A m \in T : ~ (<<m, n>> \in R)
  BY <1>1, WFMin, Zenon
<1>4. \A m \in T : ~ (m < n)
  BY <1>2, <1>3
<1> QED
  BY <1>4

(* A set with 0 and the successors below N of its members has 0 .. N.      *)
LEMMA UpTo ==
    ASSUME NEW N \in Nat, NEW S, 0 \in S, \A n \in 1 .. N : n - 1 \in S => n \in S
    PROVE  0 .. N \subseteq S
<1> DEFINE T == (0 .. N) \ S
<1>1. SUFFICES ASSUME T # {} PROVE FALSE
  OBVIOUS
<1>2. T \subseteq Nat
  OBVIOUS
<1> HIDE DEF T
<1>3. PICK n \in T : \A m \in T : n <= m
  BY <1>1, <1>2, LeastNat
<1>4. n \in 1 .. N /\ n \notin S /\ n - 1 \in 0 .. N
  BY DEF T
<1>5. n - 1 \notin T
  BY <1>3, <1>4
<1> QED
  BY <1>4, <1>5 DEF T

(* f gives each number up to N what its step makes of the one before.      *)
Recurs(f, N, base, step) ==
    f = [n \in 0 .. N |-> IF n = 0 THEN base ELSE step[n][f[n - 1]]]

LEMMA Recursion ==
    ASSUME NEW S, NEW base \in S, NEW N \in Nat, NEW step \in [1 .. N -> [S -> S]]
    PROVE  \E f \in [0 .. N -> S] : Recurs(f, N, base, step)
<1> DEFINE Have == {k \in 0 .. N : \E f \in [0 .. k -> S] : Recurs(f, k, base, step)}
<1>1. 0 \in Have
  <2>1. [n \in 0 .. 0 |-> base] \in [0 .. 0 -> S]
    OBVIOUS
  <2>2. Recurs([n \in 0 .. 0 |-> base], 0, base, step)
    BY DEF Recurs
  <2> QED
    BY <2>1, <2>2
<1>2. ASSUME NEW k \in 1 .. N, k - 1 \in Have
      PROVE  k \in Have
  <2>1. PICK f \in [0 .. k - 1 -> S] : Recurs(f, k - 1, base, step)
    BY <1>2
  <2> DEFINE g == [n \in 0 .. k |-> IF n < k THEN f[n] ELSE step[k][f[k - 1]]]
  <2>2. step[k][f[k - 1]] \in S
    OBVIOUS
  <2>3. g \in [0 .. k -> S] /\ g[k] = step[k][f[k - 1]] /\ \A n \in 0 .. k - 1 : g[n] = f[n]
    BY <2>2
  <2>4. \A n \in 0 .. k - 1 : f[n] = IF n = 0 THEN base ELSE step[n][f[n - 1]]
    BY <2>1 DEF Recurs
  <2> HIDE DEF g
  <2>5. \A n \in 0 .. k : g[n] = IF n = 0 THEN base ELSE step[n][g[n - 1]]
    <3> TAKE n \in 0 .. k
    <3>1. CASE n = k
      BY <2>3, <3>1
    <3>2. CASE n < k
      BY <2>3, <2>4, <3>2
    <3> QED
      BY <3>1, <3>2
  <2>6. g = [n \in 0 .. k |-> IF n = 0 THEN base ELSE step[n][g[n - 1]]]
    BY <2>3, <2>5
  <2>7. Recurs(g, k, base, step)
    BY <2>6, Zenon DEF Recurs
  <2> QED
    BY <2>3, <2>7
<1> HIDE DEF Have
<1>3. \A k \in 1 .. N : k - 1 \in Have => k \in Have
  BY <1>2
<1>4. 0 .. N \subseteq Have
  BY <1>1, <1>3, UpTo
<1> QED
  BY <1>4 DEF Have

-----------------------------------------------------------------------------
(* The list of mappings.                                                   *)

Elements == {e \in [start : Nat, end : Nat, protect : SUBSET {"r", "w", "x", "s"},
                    path : BOOLEAN] : e.start <= e.end}

LEMMA ElementType ==
    ASSUME NEW piece \in Pieces
    PROVE  Element(piece) \in Elements
  BY DEF Element, Elements, Pieces

LEMMA ParseLineType ==
    ASSUME NEW e \in Seq(Elements), NEW piece \in Pieces
    PROVE  /\ parseLine(e, piece) \in Seq(Elements)
           /\ e # <<>> => parseLine(e, piece) # <<>>
           /\ piece.dash /\ piece.blank =>
                 /\ parseLine(e, piece) = Append(e, Element(piece))
                 /\ parseLine(e, piece) # <<>>
<1>1. Element(piece) \in Elements
  BY ElementType
<1>2. Append(e, Element(piece)) \in Seq(Elements) /\ Append(e, Element(piece)) # <<>>
  BY <1>1
<1> QED
  BY <1>2 DEF parseLine, insertElement

LEMMA ParsePiecesSteps ==
    ASSUME NEW e \in Seq(Elements), NEW pieces \in Seq(Pieces)
    PROVE  \E f \in [0 .. Len(pieces) -> Seq(Elements)] :
              /\ f[0] = e
              /\ \A n \in 1 .. Len(pieces) : f[n] = parseLine(f[n - 1], pieces[n])
              /\ parsePieces(e, pieces) = f[Len(pieces)]
<1> DEFINE N == Len(pieces)
           step == [n \in 1 .. N |-> [x \in Seq(Elements) |-> parseLine(x, pieces[n])]]
           Is(f) == f = [n \in 0 .. N |-> IF n = 0 THEN e ELSE parseLine(f[n - 1], pieces[n])]
           after == CHOOSE f : Is(f)
<1>1. N \in Nat /\ \A n \in 1 .. N : pieces[n] \in Pieces
  OBVIOUS
<1>2. step \in [1 .. N -> [Seq(Elements) -> Seq(Elements)]]
  BY <1>1, ParseLineType
<1>3. \A n \in 1 .. N : \A x \in Seq(Elements) : step[n][x] = parseLine(x, pieces[n])
  OBVIOUS
<1>4. parsePieces(e, pieces) = after[N]
  BY DEF parsePieces
<1> HIDE DEF step, N
<1>5. PICK f \in [0 .. N -> Seq(Elements)] : Recurs(f, N, e, step)
  BY <1>1, <1>2, Recursion
<1>6. f = [n \in 0 .. N |-> IF n = 0 THEN e ELSE step[n][f[n - 1]]]
  BY <1>5, Zenon DEF Recurs
<1>7. \A n \in 0 .. N : n = 0 \/ step[n][f[n - 1]] = parseLine(f[n - 1], pieces[n])
  <2> SUFFICES ASSUME NEW n \in 1 .. N PROVE step[n][f[n - 1]] = parseLine(f[n - 1], pieces[n])
    BY <1>1
  <2>1. n - 1 \in 0 .. N
    BY <1>1
  <2> QED
    BY <1>3, <1>5, <2>1
<1>8. Is(f)
  BY <1>6, <1>7
<1>9. Is(after)
  BY <1>8, Zenon
<1> HIDE DEF after
<1> DEFINE Below == {n \in 0 .. N : after[n] = f[n]}
<1>10. 0 \in Below
  BY <1>1, <1>8, <1>9
<1>11. \A n \in 1 .. N : n - 1 \in Below => n \in Below
  BY <1>1, <1>8, <1>9
<1> HIDE DEF Below
<1>12. 0 .. N \subseteq Below
  BY <1>1, <1>10, <1>11, UpTo
<1>13. after[N] = f[N]
  BY <1>1, <1>12 DEF Below
<1>14. f[0] = e /\ \A n \in 1 .. N : f[n] = parseLine(f[n - 1], pieces[n])
  BY <1>1, <1>8
<1> QED
  BY <1>4, <1>5, <1>13, <1>14 DEF N

LEMMA ParseLinesSteps ==
    ASSUME NEW lines \in Seq(Seq(Pieces))
    PROVE  \E f \in [0 .. Len(lines) -> Seq(Elements)] :
              /\ f[0] = <<>>
              /\ \A n \in 1 .. Len(lines) : f[n] = parsePieces(f[n - 1], lines[n])
              /\ parseLines(lines) = f[Len(lines)]
<1> DEFINE N == Len(lines)
           step == [n \in 1 .. N |-> [x \in Seq(Elements) |-> parsePieces(x, lines[n])]]
           Is(f) == f = [n \in 0 .. N |-> IF n = 0 THEN <<>> ELSE parsePieces(f[n - 1], lines[n])]
           after == CHOOSE f : Is(f)
<1>1. N \in Nat /\ <<>> \in Seq(Elements)
  OBVIOUS
<1>2. ASSUME NEW n \in 1 .. N, NEW x \in Seq(Elements)
      PROVE  parsePieces(x, lines[n]) \in Seq(Elements)
  <2>1. lines[n] \in Seq(Pieces) /\ Len(lines[n]) \in Nat
    OBVIOUS
  <2>2. Len(lines[n]) \in 0 .. Len(lines[n])
    BY <2>1
  <2>3. PICK f \in [0 .. Len(lines[n]) -> Seq(Elements)] :
              parsePieces(x, lines[n]) = f[Len(lines[n])]
    BY <2>1, ParsePiecesSteps
  <2> HIDE DEF N
  <2> QED
    BY <2>2, <2>3
<1>3. step \in [1 .. N -> [Seq(Elements) -> Seq(Elements)]]
  BY <1>1, <1>2
<1>4. \A n \in 1 .. N : \A x \in Seq(Elements) : step[n][x] = parsePieces(x, lines[n])
  OBVIOUS
<1>5. parseLines(lines) = after[N]
  BY DEF parseLines
<1> HIDE DEF step, N
<1>6. PICK f \in [0 .. N -> Seq(Elements)] : Recurs(f, N, <<>>, step)
  BY <1>1, <1>3, Recursion
<1>7. f = [n \in 0 .. N |-> IF n = 0 THEN <<>> ELSE step[n][f[n - 1]]]
  BY <1>6, Zenon DEF Recurs
<1>8. \A n \in 0 .. N : n = 0 \/ step[n][f[n - 1]] = parsePieces(f[n - 1], lines[n])
  <2>0. \A n \in 0 .. N : n = 0 \/ n \in 1 .. N
    BY <1>1
  <2> SUFFICES ASSUME NEW n \in 1 .. N
               PROVE  step[n][f[n - 1]] = parsePieces(f[n - 1], lines[n])
    BY <2>0
  <2>1. n - 1 \in 0 .. N
    BY <1>1
  <2> QED
    BY <1>4, <1>6, <2>1, Zenon
<1>9. Is(f)
  BY <1>7, <1>8
<1>10. Is(after)
  BY <1>9, Zenon
<1> HIDE DEF after
<1> DEFINE Below == {n \in 0 .. N : after[n] = f[n]}
<1>11. 0 \in Below
  BY <1>1, <1>9, <1>10
<1>12. \A n \in 1 .. N : n - 1 \in Below => n \in Below
  BY <1>1, <1>9, <1>10
<1> HIDE DEF Below
<1>13. 0 .. N \subseteq Below
  BY <1>1, <1>11, <1>12, UpTo
<1>14. after[N] = f[N]
  BY <1>1, <1>13 DEF Below
<1>15. f[0] = <<>> /\ \A n \in 1 .. N : f[n] = parsePieces(f[n - 1], lines[n])
  BY <1>1, <1>9
<1> QED
  BY <1>5, <1>6, <1>14, <1>15 DEF N

(* A line adds its mapping to the list; what follows the first piece of it *)
(* adds nothing unless it reads as a mapping too.                          *)
LEMMA PiecesOfLine ==
    ASSUME NEW e \in Seq(Elements), NEW pieces \in Seq(Pieces),
           pieces # <<>>, pieces[1].dash, pieces[1].blank
    PROVE  /\ parsePieces(e, pieces) \in Seq(Elements) /\ parsePieces(e, pieces) # <<>>
           /\ (\A k \in 2 .. Len(pieces) : ~(pieces[k].dash /\ pieces[k].blank)) =>
                 parsePieces(e, pieces) = Append(e, Element(pieces[1]))
<1> DEFINE N == Len(pieces)
<1>1. PICK f \in [0 .. N -> Seq(Elements)] :
          /\ f[0] = e
          /\ \A n \in 1 .. N : f[n] = parseLine(f[n - 1], pieces[n])
          /\ parsePieces(e, pieces) = f[N]
  BY ParsePiecesSteps
<1>2. N \in Nat \ {0} /\ 1 \in 1 .. N
  OBVIOUS
<1> HIDE DEF N
<1>3. \A n \in 1 .. N : n - 1 \in 0 .. N /\ f[n - 1] \in Seq(Elements) /\ pieces[n] \in Pieces
  BY <1>1, <1>2 DEF N
<1>9. f[1] = Append(e, Element(pieces[1])) /\ f[1] # <<>>
  <2>1. f[1] = parseLine(e, pieces[1]) /\ pieces[1] \in Pieces
    BY <1>1, <1>2, <1>3
  <2> QED
    BY <2>1, ParseLineType
<1> DEFINE Nonempty == {n \in 0 .. N : n = 0 \/ f[n] # <<>>}
           Same == {n \in 0 .. N : n = 0 \/ f[n] = f[1]}
<1>4. \A n \in 1 .. N : n - 1 \in Nonempty => n \in Nonempty
  <2> SUFFICES ASSUME NEW n \in 1 .. N, f[n - 1] # <<>>, n # 1 PROVE f[n] # <<>>
    BY <1>2, <1>9
  <2>1. f[n - 1] \in Seq(Elements) /\ pieces[n] \in Pieces
    BY <1>3
  <2> QED
    BY <1>1, <2>1, ParseLineType
<1>5. 0 \in Nonempty /\ 0 \in Same
  BY <1>2
<1>6. 0 .. N \subseteq Nonempty
  <2> HIDE DEF Nonempty
  <2> QED
    BY <1>2, <1>4, <1>5, UpTo
<1>7. ASSUME \A k \in 2 .. N : ~(pieces[k].dash /\ pieces[k].blank)
      PROVE  f[N] = f[1]
  <2>1. \A n \in 1 .. N : n - 1 \in Same => n \in Same
    <3> SUFFICES ASSUME NEW n \in 1 .. N, f[n - 1] = f[1], n # 1 PROVE f[n] = f[1]
      BY <1>2
    <3>1. n \in 2 .. N
      BY <1>2
    <3> QED
      BY <1>1, <1>7, <3>1 DEF parseLine
  <2> HIDE DEF Same
  <2>2. 0 .. N \subseteq Same
    BY <1>2, <1>5, <2>1, UpTo
  <2> QED
    BY <1>2, <2>2 DEF Same
<1>8. f[N] # <<>> /\ f[N] \in Seq(Elements)
  BY <1>2, <1>6
<1> QED
  BY <1>1, <1>9, <1>7, <1>8 DEF N

MappingsOf(s) == [i \in DOMAIN s.lines |-> Element(s.lines[i][1])]

DisguisedIn(s) ==
    \E i \in DOMAIN s.lines : \E k \in 2 .. Len(s.lines[i]) :
        s.lines[i][k].dash /\ s.lines[i][k].blank

(* The list is never empty, and without disguise it is that of the         *)
(* mappings.                                                               *)
LEMMA ListOfMappings ==
    ASSUME NEW s \in Snapshots
    PROVE  /\ parseLines(s.lines) \in Seq(Elements) /\ parseLines(s.lines) # <<>>
           /\ ~DisguisedIn(s) => parseLines(s.lines) = MappingsOf(s)
<1> DEFINE lines == s.lines
           N == Len(lines)
           M == MappingsOf(s)
<1>1. /\ lines \in Seq(Seq(Pieces)) /\ lines # <<>>
      /\ \A i \in 1 .. N : /\ lines[i] \in Seq(Pieces) /\ lines[i] # <<>>
                           /\ lines[i][1].dash /\ lines[i][1].blank
      /\ N \in Nat \ {0} /\ DOMAIN lines = 1 .. N
  BY SnapshotAssumption
<1>2. PICK f \in [0 .. N -> Seq(Elements)] :
          /\ f[0] = <<>>
          /\ \A n \in 1 .. N : f[n] = parsePieces(f[n - 1], lines[n])
          /\ parseLines(lines) = f[N]
  BY <1>1, ParseLinesSteps
<1>3. \A n \in 1 .. N : n - 1 \in 0 .. N /\ f[n - 1] \in Seq(Elements)
  <2> HIDE DEF N
  <2>1. \A n \in 1 .. N : n - 1 \in 0 .. N
    BY <1>1
  <2> QED
    BY <1>2, <2>1
<1>4. parseLines(lines) \in Seq(Elements) /\ parseLines(lines) # <<>>
  <2>1. N \in 1 .. N
    BY <1>1
  <2>2. f[N] = parsePieces(f[N - 1], lines[N]) /\ f[N - 1] \in Seq(Elements)
    BY <1>2, <1>3, <2>1
  <2>3. lines[N] \in Seq(Pieces) /\ lines[N] # <<>> /\ lines[N][1].dash /\ lines[N][1].blank
    BY <1>1, <2>1
  <2> HIDE DEF lines, N
  <2>4. f[N] \in Seq(Elements) /\ f[N] # <<>>
    BY <2>2, <2>3, PiecesOfLine
  <2> QED
    BY <1>2, <2>4
<1>5. \A i \in 1 .. N : lines[i][1] \in Pieces /\ Element(lines[i][1]) \in Elements
  <2> SUFFICES ASSUME NEW i \in 1 .. N
               PROVE  lines[i][1] \in Pieces /\ Element(lines[i][1]) \in Elements
    OBVIOUS
  <2>1. lines[i] \in Seq(Pieces) /\ lines[i] # <<>>
    BY <1>1
  <2>2. lines[i][1] \in Pieces
    BY <2>1
  <2> QED
    BY <2>2, ElementType
<1>6. M \in [1 .. N -> Elements] /\ \A i \in 1 .. N : M[i] = Element(lines[i][1])
  BY <1>1, <1>5 DEF MappingsOf
<1>7. M \in Seq(Elements) /\ Len(M) = N
  <2> HIDE DEF M, N
  <2> QED
    BY <1>1, <1>6
<1>8. ASSUME ~DisguisedIn(s)
      PROVE  parseLines(lines) = M
  <2>1. \A i \in 1 .. N : \A k \in 2 .. Len(lines[i]) : ~(lines[i][k].dash /\ lines[i][k].blank)
    BY <1>1, <1>8 DEF DisguisedIn
  <2> DEFINE Parsed == {n \in 0 .. N : f[n] = SubSeq(M, 1, n)}
  <2> HIDE DEF M, N, lines
  <2>2. 0 \in Parsed
    <3>1. SubSeq(M, 1, 0) = <<>>
      BY <1>7
    <3>2. f[0] = <<>>
      BY <1>2
    <3>3. 0 \in 0 .. N
      BY <1>1
    <3> QED
      BY <3>1, <3>2, <3>3, Zenon
  <2>3. ASSUME NEW n \in 1 .. N, n - 1 \in Parsed PROVE n \in Parsed
    <3>1. f[n] = Append(f[n - 1], Element(lines[n][1]))
      BY <1>1, <1>2, <1>3, <2>1, PiecesOfLine
    <3>2. SubSeq(M, 1, n) = Append(SubSeq(M, 1, n - 1), M[n])
      BY <1>1, <1>7
    <3>3. n \in 0 .. N /\ f[n - 1] = SubSeq(M, 1, n - 1)
      BY <1>1, <2>3
    <3> QED
      BY <1>6, <3>1, <3>2, <3>3
  <2> HIDE DEF Parsed
  <2>4. 0 .. N \subseteq Parsed
    BY <1>1, <2>2, <2>3, UpTo
  <2>5. f[N] = SubSeq(M, 1, N)
    BY <1>1, <2>4 DEF Parsed
  <2>6. SubSeq(M, 1, N) = M
    BY <1>7
  <2> QED
    BY <1>2, <2>5, <2>6
<1> QED
  BY <1>4, <1>8

-----------------------------------------------------------------------------
(* The types of the sender's state.                                        *)

HeaderType == [addr : Nat, len : Nat, backtraces : Int, dataAttrib : SUBSET {"mmap", "content"}]

Tokens == {<<h>> : h \in HeaderType} \cup ({"backtrace", "content"} \X Nat)

SenderInv ==
    /\ snapshot \in Snapshots /\ client \in BOOLEAN /\ start \in BOOLEAN
    /\ pc \in {"walk", "parse", "stacks", "globals", "bss", "end", "killed"}
    /\ next \in Nat \ {0}
    /\ pc \in {"stacks", "globals", "bss"} => list = parseLines(snapshot.lines)
    /\ pc \in {"globals", "bss"} => next \in DOMAIN list
    /\ out \in Seq(Seq(Tokens)) /\ Len(out) <= 2 /\ \A k \in DOMAIN out : out[k] # <<>>
    /\ sent \in Seq(HeaderType)
    /\ stream \in Seq(Tokens)
    /\ pc = "end" => out = <<>>
    /\ pc = "killed" => ~client

LEMMA HeaderTokens ==
    ASSUME NEW h \in HeaderType
    PROVE  /\ <<h>> \in Tokens
           /\ Addresses(h) \in Seq({"backtrace"} \X Nat) /\ Addresses(h) \in Seq(Tokens)
           /\ Content(h) \in Seq({"content"} \X Nat) /\ Content(h) \in Seq(Tokens)
           /\ <<<<h>>>> \o Addresses(h) \in Seq(Tokens) /\ <<<<h>>>> \o Addresses(h) # <<>>
           /\ Made(h) \in Seq(Tokens)
           /\ Len(Addresses(h)) \in Nat /\ Len(Content(h)) \in Nat
           /\ Len(Made(h)) = 1 + Len(Addresses(h)) + Len(Content(h))
           /\ Len(Made(h)) \in Nat \ {0} /\ Made(h)[1] = <<h>>
<1>1. <<h>> \in Tokens
  BY DEF Tokens
<1>2. {"backtrace"} \X Nat \subseteq Tokens /\ {"content"} \X Nat \subseteq Tokens
  BY DEF Tokens
<1>3. Addresses(h) \in Seq({"backtrace"} \X Nat) /\ Addresses(h) \in Seq(Tokens)
  <2> DEFINE n == IF h.backtraces > 0 THEN h.backtraces ELSE 0
  <2>1. n \in Nat
    BY DEF HeaderType
  <2> HIDE DEF n
  <2>2. [k \in 1 .. n |-> <<"backtrace", k>>] \in Seq({"backtrace"} \X Nat)
    BY <2>1
  <2>3. Addresses(h) = [k \in 1 .. n |-> <<"backtrace", k>>]
    BY DEF Addresses, n
  <2> QED
    BY <1>2, <2>2, <2>3, SeqMonotonic
<1>4. Content(h) \in Seq({"content"} \X Nat) /\ Content(h) \in Seq(Tokens)
  <2> DEFINE n == IF "content" \in h.dataAttrib THEN h.len ELSE 0
  <2>1. n \in Nat /\ h.addr \in Nat
    BY DEF HeaderType
  <2> HIDE DEF n
  <2>2. [k \in 1 .. n |-> <<"content", h.addr + k>>] \in Seq({"content"} \X Nat)
    BY <2>1
  <2>3. Content(h) = [k \in 1 .. n |-> <<"content", h.addr + k>>]
    BY DEF Content, n
  <2> QED
    BY <1>2, <2>2, <2>3, SeqMonotonic
<1>5. <<<<h>>>> \in Seq(Tokens) /\ Len(<<<<h>>>>) = 1
  BY <1>1
<1> DEFINE H == <<<<h>>>>
<1> HIDE DEF H
<1>6. H \o Addresses(h) \in Seq(Tokens) /\ H \o Addresses(h) # <<>>
  BY <1>3, <1>5 DEF H
<1>7. /\ Made(h) = (H \o Addresses(h)) \o Content(h) /\ H[1] = <<h>>
      /\ H \in Seq(Tokens) /\ Len(H) = 1
  BY <1>5 DEF Made, H
<1>8. /\ Made(h) \in Seq(Tokens)
      /\ Len(Addresses(h)) \in Nat /\ Len(Content(h)) \in Nat
      /\ Len(Made(h)) = 1 + Len(Addresses(h)) + Len(Content(h))
      /\ Len(Made(h)) \in Nat \ {0} /\ Made(h)[1] = <<h>>
  <2> DEFINE A == Addresses(h)
             C == Content(h)
             M == Made(h)
             B == H \o A
  <2>1. A \in Seq(Tokens) /\ C \in Seq(Tokens) /\ M = B \o C
    BY <1>3, <1>4, <1>7
  <2> HIDE DEF A, C, M
  <2>2. /\ B \in Seq(Tokens) /\ Len(B) = Len(H) + Len(A)
        /\ \A k \in 1 .. Len(H) : B[k] = H[k]
    BY <1>7, <2>1, ConcatParts, Zenon
  <2> HIDE DEF B
  <2>3. /\ M \in Seq(Tokens) /\ Len(M) = Len(B) + Len(C)
        /\ \A k \in 1 .. Len(B) : M[k] = B[k]
    <3>1. B \in Seq(Tokens) /\ C \in Seq(Tokens) /\ M = B \o C
      BY <2>1, <2>2
    <3>2. M \in Seq(Tokens) /\ Len(M) = Len(B) + Len(C)
      BY <3>1
    <3>3. \A k \in 1 .. Len(B) : M[k] = B[k]
      BY <3>1
    <3> QED
      BY <3>2, <3>3
  <2>4. Len(H) = 1 /\ Len(A) \in Nat /\ Len(C) \in Nat
    BY <1>7, <2>1
  <2>5. Len(M) = 1 + Len(A) + Len(C) /\ Len(M) \in Nat \ {0}
    BY <2>2, <2>3, <2>4
  <2>6. M[1] = H[1]
    BY <2>2, <2>3, <2>4
  <2> QED
    BY <1>7, <2>3, <2>4, <2>5, <2>6 DEF A, C, M
<1> QED
  BY <1>1, <1>3, <1>4, <1>6, <1>8 DEF H

(* What is still to be sent of the calls in out.                           *)
Pending(o) == IF o = <<>> THEN <<>> ELSE IF Len(o) = 1 THEN o[1] ELSE o[1] \o o[2]

OneCall(a) ==
    LET o == <<a>>
    IN  Pending(o) = a /\ o \in Seq(Seq(Tokens)) /\ Len(o) <= 2 /\ \A k \in DOMAIN o : o[k] # <<>>

TwoCalls(a, b) ==
    LET o == <<a, b>>
    IN  /\ Pending(o) = a \o b
        /\ o \in Seq(Seq(Tokens)) /\ Len(o) <= 2 /\ \A k \in DOMAIN o : o[k] # <<>>

LEMMA CallsType ==
    ASSUME NEW a \in Seq(Tokens), a # <<>>
    PROVE  OneCall(a) /\ \A b \in Seq(Tokens) : b # <<>> => TwoCalls(a, b)
<1> DEFINE S == Seq(Tokens)
<1>1. a \in S
  OBVIOUS
<1> HIDE DEF S
<1>2. OneCall(a)
  <2>1. /\ <<a>> \in Seq(S) /\ Len(<<a>>) = 1 /\ <<a>> # <<>> /\ DOMAIN <<a>> = {1}
        /\ <<a>>[1] = a
    BY <1>1
  <2> QED
    BY <2>1 DEF OneCall, Pending, S
<1>3. ASSUME NEW b \in S, b # <<>>
      PROVE  TwoCalls(a, b)
  <2> DEFINE o == <<a, b>>
  <2>1. /\ o \in Seq(S) /\ Len(o) = 2 /\ o # <<>> /\ DOMAIN o = {1, 2}
        /\ o[1] = a /\ o[2] = b
    BY <1>1
  <2> HIDE DEF o
  <2>2. Pending(o) = a \o b /\ Len(o) <= 2
    BY <2>1 DEF Pending
  <2>3. \A k \in DOMAIN o : o[k] # <<>>
    BY <1>3, <2>1
  <2> QED
    BY <2>1, <2>2, <2>3 DEF TwoCalls, S, o
<1> QED
  BY <1>2, <1>3 DEF S

LEMMA SendMakes ==
    ASSUME NEW h \in HeaderType, Send(h), sent \in Seq(HeaderType)
    PROVE  /\ out' \in Seq(Seq(Tokens)) /\ Len(out') <= 2 /\ \A k \in DOMAIN out' : out'[k] # <<>>
           /\ Pending(out') = Made(h)
           /\ sent' = Append(sent, h) /\ sent' \in Seq(HeaderType)
<1> DEFINE A == <<<<h>>>> \o Addresses(h)
           C == Content(h)
<1>1. A \in Seq(Tokens) /\ A # <<>> /\ C \in Seq(Tokens) /\ Made(h) = A \o C
  BY HeaderTokens DEF Made
<1>2. out' = <<A>> \o (IF C = <<>> THEN <<>> ELSE <<C>>)
  BY DEF Send
<1>3. sent' = Append(sent, h) /\ sent' \in Seq(HeaderType)
  BY DEF Send
<1> HIDE DEF A, C
<1>4. CASE C = <<>>
  <2>1. out' = <<A>> /\ Made(h) = A
    BY <1>1, <1>2, <1>4
  <2> QED
    BY <1>1, <1>3, <2>1 DEF Pending
<1>5. CASE C # <<>>
  <2>1. out' = <<A>> \o <<C>>
    BY <1>2, <1>5
  <2>2. out' = <<A, C>>
    BY <1>1, <2>1, Pair, Zenon
  <2> QED
    BY <1>1, <1>3, <1>5, <2>2 DEF Pending
<1> QED
  BY <1>4, <1>5

LEMMA ListType ==
    ASSUME SenderInv, pc \in {"stacks", "globals", "bss"}
    PROVE  /\ list \in Seq(Elements) /\ list # <<>> /\ Len(list) \in Nat \ {0}
           /\ DOMAIN list = 1 .. Len(list)
           /\ \A k \in DOMAIN list : list[k] \in Elements
  BY ListOfMappings DEF SenderInv

LEMMA NextInRing ==
    ASSUME NEW k \in DOMAIN list, list \in Seq(Elements)
    PROVE  m_next(k) \in DOMAIN list /\ m_next(k) = IF k = Len(list) THEN 1 ELSE k + 1
<1>1. Len(list) \in Nat /\ k \in 1 .. Len(list)
  OBVIOUS
<1> DEFINE n == Len(list)
<1> HIDE DEF n
<1>2. n \in Nat /\ k \in 1 .. n
  BY <1>1 DEF n
<1>3. k = n => k % n = 0
  BY <1>2
<1>4. k # n => k % n = k
  BY <1>2
<1> QED
  BY <1>2, <1>3, <1>4 DEF m_next, n

LEMMA FoundInList ==
    ASSUME NEW sp, list \in Seq(Elements), list # <<>>
    PROVE  Found(sp) \in DOMAIN list
<1> DEFINE I == {k \in 1 .. Len(list) : list[k].start >= sp}
<1>1. lowerBound(sp) = IF I # {} THEN Min(I) ELSE 0
  BY DEF lowerBound, SelectInSeq
<1>2. I # {} => Min(I) \in I
  <2> SUFFICES ASSUME I # {} PROVE Min(I) \in I
    OBVIOUS
  <2>1. I \subseteq Nat
    OBVIOUS
  <2> HIDE DEF I
  <2>2. \E x \in I : \A y \in I : x <= y
    BY <2>1, LeastNat
  <2>3. Min(I) = CHOOSE x \in I : \A y \in I : x <= y
    BY DEF Min
  <2> QED
    BY <2>2, <2>3, Zenon
<1>3. Len(list) \in 1 .. Len(list) /\ DOMAIN list = 1 .. Len(list)
  OBVIOUS
<1>4. lowerBound(sp) \in 1 .. Len(list) \/ lowerBound(sp) = NULL
  BY <1>1, <1>2 DEF NULL
<1> QED
  BY <1>3, <1>4 DEF Found, NULL

(* The kinds of records that are sent at p.                                *)
Kinds(p) == CASE p = "walk" -> Nat [] p = "stacks" -> {THREAD} [] OTHER -> {GLOBAL}

(* Whatever the child does next, it sends one record or none.              *)
LEMMA ChildSends ==
    ASSUME SenderInv, Child
    PROVE  /\ out = <<>> /\ UNCHANGED <<snapshot, client, stream>>
           /\ \/ UNCHANGED <<out, sent>>
              \/ \E h \in HeaderType : Send(h) /\ h.backtraces \in Kinds(pc)
<1>1. snapshot \in Snapshots
  BY DEF SenderInv
<1>2. out = <<>> /\ UNCHANGED <<snapshot, client, stream>>
  BY DEF Child, NotifyChunk, WalkEnds, ParseMaps, SendStack, StacksEnd, SendData, SendBss, Finish,
         Sends
<1>3. CASE NotifyChunk
  <2> DEFINE c == snapshot.chunks[next]
             h == Header(c.addr, Rounded(c.size), c.backtraces,
                         IF c.mmap THEN {"mmap"} ELSE IF snapshot.full THEN {"content"} ELSE {})
  <2>1. UNCHANGED <<out, sent>> \/ Send(h)
    BY <1>3 DEF NotifyChunk
  <2>2. snapshot.chunks \in Seq(Chunks)
    BY <1>1, SnapshotAssumption
  <2>3. next \in 1 .. Len(snapshot.chunks)
    BY <1>3, <2>2 DEF NotifyChunk, SenderInv
  <2>4. c \in Chunks
    BY <2>2, <2>3
  <2> HIDE DEF c
  <2>5. c.addr \in Nat /\ c.size \in Nat /\ c.backtraces \in Nat
    BY <2>4 DEF Chunks
  <2>6. (c.size + 3) \div 4 \in Nat
    BY <2>5
  <2>7. h \in HeaderType /\ h.backtraces \in Kinds(pc)
    BY <1>3, <2>5, <2>6 DEF Header, HeaderType, Rounded, Kinds, NotifyChunk, Sends
  <2> QED
    BY <1>2, <2>1, <2>7
<1>4. CASE WalkEnds \/ ParseMaps \/ StacksEnd \/ Finish
  BY <1>2, <1>4 DEF WalkEnds, ParseMaps, StacksEnd, Finish
<1>5. CASE SendStack
  <2> DEFINE sp == snapshot.sps[next]
             e == list[Found(sp)]
             h == Header(sp, e.end - sp, THREAD, {"content"})
  <2>1. UNCHANGED <<out, sent>> \/ (Send(h) /\ e.start <= sp /\ e.end >= sp)
    BY <1>5 DEF SendStack
  <2>2. snapshot.sps \in Seq(Nat)
    BY <1>1, SnapshotAssumption
  <2>3. next \in 1 .. Len(snapshot.sps)
    BY <1>5, <2>2 DEF SendStack, SenderInv
  <2>4. sp \in Nat
    BY <2>2, <2>3
  <2>5. e \in Elements
    BY <1>5, FoundInList, ListType DEF SendStack, Sends
  <2> HIDE DEF e, sp
  <2>6. e.end >= sp => h \in HeaderType /\ h.backtraces \in Kinds(pc)
    BY <1>5, <2>4, <2>5 DEF Header, HeaderType, Elements, THREAD, Kinds, SendStack, Sends
  <2> QED
    BY <1>2, <2>1, <2>6
<1>6. CASE SendData \/ SendBss
  <2> DEFINE e == list[next]
             h == Header(e.start, e.end - e.start, GLOBAL, {"content"})
  <2>1. UNCHANGED <<out, sent>> \/ Send(h)
    BY <1>6 DEF SendData, SendBss, SendElement
  <2>2. e \in Elements
    BY <1>6, ListType DEF SendData, SendBss, Sends, SenderInv
  <2> HIDE DEF e
  <2>3. h \in HeaderType /\ h.backtraces \in Kinds(pc)
    BY <1>6, <2>2 DEF Header, HeaderType, Elements, GLOBAL, Kinds, SendData, SendBss, Sends
  <2> QED
    BY <1>2, <2>1, <2>3
<1> QED
  BY <1>3, <1>4, <1>5, <1>6 DEF Child

LEMMA SenderInvInit == Init => SenderInv
<1> SUFFICES ASSUME Init PROVE SenderInv
  OBVIOUS
<1>1. /\ snapshot \in Snapshots /\ client = TRUE /\ pc = "walk" /\ next = 1 /\ start = FALSE
      /\ out = <<>> /\ sent = <<>> /\ stream = <<>>
  BY DEF Init
<1>2. <<>> \in Seq(Seq(Tokens)) /\ <<>> \in Seq(HeaderType) /\ <<>> \in Seq(Tokens)
      /\ Len(<<>>) <= 2 /\ DOMAIN <<>> = {}
  OBVIOUS
<1>3. out \in Seq(Seq(Tokens)) /\ Len(out) <= 2 /\ \A k \in DOMAIN out : out[k] # <<>>
  BY <1>1, <1>2, Zenon
<1>4. sent \in Seq(HeaderType) /\ stream \in Seq(Tokens)
  BY <1>1, <1>2, Zenon
<1>5. start \in BOOLEAN /\ client \in BOOLEAN
  BY <1>1, Zenon
<1>6. next \in Nat \ {0}
  <2>1. next = 1
    BY <1>1
  <2> QED
    BY <2>1
<1> QED
  BY <1>1, <1>3, <1>4, <1>5, <1>6 DEF SenderInv

(* sendto takes the first bytes of a call, or of two calls the first one.  *)
LEMMA SomeSent ==
    ASSUME SenderInv, SendSome
    PROVE  \E part, rest \in Seq(Tokens) :
              /\ stream' = stream \o part
              /\ Pending(out) = part \o rest /\ rest = Pending(out')
              /\ out' \in Seq(Seq(Tokens)) /\ Len(out') <= 2 /\ \A k \in DOMAIN out' : out'[k] # <<>>
<1>1. /\ out \in Seq(Seq(Tokens)) /\ Len(out) \in {1, 2} /\ out # <<>>
      /\ \A k \in 1 .. Len(out) : out[k] \in Seq(Tokens) /\ out[k] # <<>>
  <2> DEFINE S == Seq(Tokens)
  <2>0. \A k \in DOMAIN out : out[k] # <<>>
    BY DEF SenderInv
  <2>1. out \in Seq(S)
    BY DEF SenderInv
  <2>2. Len(out) <= 2 /\ out # <<>>
    BY DEF SenderInv, SendSome
  <2> HIDE DEF S
  <2>3. Len(out) \in {1, 2}
    <3> DEFINE n == Len(out)
    <3>1. n \in Nat \ {0}
      BY <2>1, <2>2
    <3>2. n <= 2
      BY <2>2
    <3> HIDE DEF n
    <3>3. n \in {1, 2}
      BY <3>1, <3>2
    <3> QED
      BY <3>3 DEF n
  <2>4. DOMAIN out = 1 .. Len(out) /\ \A k \in 1 .. Len(out) : out[k] \in S
    BY <2>1
  <2> QED
    BY <2>0, <2>1, <2>2, <2>3, <2>4 DEF S
<1>2. PICK n \in {1, Len(Head(out))} :
          /\ stream' = stream \o SubSeq(Head(out), 1, n)
          /\ out' = IF Rest(Head(out), n) = <<>> THEN Tail(out)
                    ELSE <<Rest(Head(out), n)>> \o Tail(out)
  BY DEF SendSome
<1> DEFINE first == out[1]
           part == SubSeq(first, 1, n)
           left == SubSeq(first, n + 1, Len(first))
           second == IF Len(out) = 1 THEN <<>> ELSE out[2]
<1>3. Head(out) = first /\ Rest(Head(out), n) = left
  BY <1>1 DEF Rest
<1>4. first \in Seq(Tokens) /\ first # <<>>
  BY <1>1
<1>5. second \in Seq(Tokens) /\ (Len(out) = 2 => second # <<>>) /\ (Len(out) = 1 => second = <<>>)
  <2>1. CASE Len(out) = 1
    BY <2>1
  <2>2. CASE Len(out) = 2
    <3>1. second = out[2] /\ 2 \in 1 .. Len(out)
      BY <2>2
    <3> QED
      BY <1>1, <2>2, <3>1
  <2> QED
    BY <1>1, <2>1, <2>2
<1>6. Pending(out) = first \o second
  <2>1. CASE Len(out) = 1
    <3>1. Pending(out) = first /\ second = <<>>
      BY <1>1, <2>1 DEF Pending
    <3> HIDE DEF first, second
    <3> QED
      BY <1>4, <3>1, ConcatEmptySeq, Zenon
  <2>2. CASE Len(out) = 2
    BY <1>1, <2>2 DEF Pending
  <2> QED
    BY <1>1, <2>1, <2>2
<1>7. Tail(out) = IF Len(out) = 1 THEN <<>> ELSE <<second>>
  <2>1. /\ Len(out) = 1 => Tail(out) = <<>>
        /\ Len(out) = 2 => Tail(out) = <<out[2]>>
    BY <1>1, TailOfFew, Zenon
  <2>2. Len(out) = 2 => second = out[2] /\ Len(out) # 1
    OBVIOUS
  <2> HIDE DEF second
  <2> QED
    BY <1>1, <2>1, <2>2
<1> HIDE DEF first, second
<1>8. n \in 0 .. Len(first)
  BY <1>3, <1>4
<1>9. part \in Seq(Tokens) /\ left \in Seq(Tokens) /\ first = part \o left
  BY <1>4, <1>8, CutInTwo, Zenon
<1> HIDE DEF part, left
<1>10. left \o second \in Seq(Tokens)
  BY <1>5, <1>9, ConcatParts, Zenon
<1>11. /\ Pending(out') = left \o second
       /\ out' \in Seq(Seq(Tokens)) /\ Len(out') <= 2 /\ \A k \in DOMAIN out' : out'[k] # <<>>
  <2>1. left \o <<>> = left /\ <<>> \o second = second
    BY <1>5, <1>9, ConcatEmptySeq, Zenon
  <2>2. CASE left = <<>> /\ Len(out) = 1
    <3>1. out' = <<>> /\ second = <<>>
      BY <1>2, <1>3, <1>5, <1>7, <2>2
    <3>2. Pending(out') = <<>>
      BY <3>1 DEF Pending
    <3>3. out' \in Seq(Seq(Tokens)) /\ Len(out') <= 2 /\ DOMAIN out' = {}
      BY <3>1
    <3> QED
      BY <2>1, <2>2, <3>1, <3>2, <3>3
  <2>3. CASE left = <<>> /\ Len(out) = 2
    <3>1. out' = <<second>> /\ second # <<>>
      BY <1>2, <1>3, <1>5, <1>7, <2>3
    <3>2. OneCall(second)
      BY <1>5, <3>1, CallsType, Zenon
    <3> QED
      BY <2>1, <2>3, <3>1, <3>2 DEF OneCall
  <2>4. CASE left # <<>> /\ Len(out) = 1
    <3>1. Tail(out) = <<>> /\ second = <<>> /\ out' = <<left>> \o <<>>
      BY <1>2, <1>3, <1>5, <1>7, <2>4
    <3>2. <<left>> \in Seq(Seq(Tokens))
      BY <1>9
    <3>3. out' = <<left>>
      BY <3>1, <3>2, ConcatEmptySeq, Zenon
    <3>4. OneCall(left)
      BY <1>9, <2>4, CallsType, Zenon
    <3> QED
      BY <2>1, <3>1, <3>3, <3>4 DEF OneCall
  <2>5. CASE left # <<>> /\ Len(out) = 2
    <3>1. out' = <<left>> \o <<second>> /\ second # <<>>
      BY <1>2, <1>3, <1>5, <1>7, <2>5
    <3>2. out' = <<left, second>>
      BY <1>5, <1>9, <3>1, Pair, Zenon
    <3>3. TwoCalls(left, second)
      BY <1>5, <1>9, <2>5, <3>1, CallsType, Zenon
    <3> QED
      BY <3>2, <3>3 DEF TwoCalls
  <2> QED
    BY <1>1, <2>2, <2>3, <2>4, <2>5
<1>12. Pending(out) = part \o (left \o second)
  <2>0. part \in Seq(Tokens) /\ left \in Seq(Tokens) /\ second \in Seq(Tokens)
    BY <1>5, <1>9
  <2>1. (part \o left) \o second = part \o (left \o second)
    BY <2>0
  <2> QED
    BY <1>6, <1>9, <2>1, Zenon
<1>13. stream' = stream \o part
  BY <1>2, <1>3 DEF part
<1> QED
  BY <1>9, <1>10, <1>11, <1>12, <1>13

LEMMA SenderInvStep ==
    ASSUME SenderInv, [Next]_vars
    PROVE  SenderInv'
<1>1. CASE UNCHANGED vars
  BY <1>1 DEF vars, SenderInv
<1>2. CASE SendSome
  <2>1. PICK part \in Seq(Tokens) :
            /\ stream' = stream \o part
            /\ out' \in Seq(Seq(Tokens)) /\ Len(out') <= 2 /\ \A k \in DOMAIN out' : out'[k] # <<>>
    BY <1>2, SomeSent
  <2>2. stream' \in Seq(Tokens)
    BY <2>1 DEF SenderInv
  <2>3. UNCHANGED <<snapshot, client, pc, next, start, list, sent>> /\ pc # "end"
    BY <1>2 DEF SendSome, SenderInv
  <2> QED
    BY <2>1, <2>2, <2>3 DEF SenderInv
<1>3. CASE SendLost
  <2>1. out' = Tail(out) /\ out # <<>> /\ out \in Seq(Seq(Tokens)) /\ Len(out) <= 2
    BY <1>3 DEF SendLost, SenderInv
  <2>2. out' \in Seq(Seq(Tokens)) /\ Len(out') <= 2
    BY <2>1
  <2>3. \A k \in DOMAIN out' : out'[k] # <<>>
    <3>1. \A k \in 1 .. Len(out) : out[k] # <<>>
      BY <2>1 DEF SenderInv
    <3>2. \A k \in 1 .. Len(out) - 1 : Tail(out)[k] = out[k + 1]
      BY <2>1
    <3>3. DOMAIN out' = 1 .. Len(out) - 1 /\ Len(out) \in Nat
      BY <2>1
    <3> QED
      BY <2>1, <3>1, <3>2, <3>3
  <2>4. UNCHANGED <<snapshot, client, pc, next, start, list, sent, stream>> /\ pc # "end"
    BY <1>3 DEF SendLost, SenderInv
  <2> QED
    BY <2>2, <2>3, <2>4 DEF SenderInv
<1>4. CASE Killed
  <2>1. out' = <<>> /\ pc' = "killed" /\ ~client
        /\ UNCHANGED <<snapshot, client, next, start, list, sent, stream>>
    BY <1>4 DEF Killed
  <2>2. <<>> \in Seq(Seq(Tokens)) /\ Len(<<>>) <= 2 /\ DOMAIN <<>> = {}
    OBVIOUS
  <2> QED
    BY <2>1, <2>2 DEF SenderInv
<1>5. CASE HangUp
  BY <1>5 DEF HangUp, SenderInv
<1>6. CASE Child
  <2>1. /\ out = <<>> /\ UNCHANGED <<snapshot, client, stream>>
        /\ UNCHANGED <<out, sent>> \/ \E h \in HeaderType : Send(h)
    BY <1>6, ChildSends
  <2>2. /\ out' \in Seq(Seq(Tokens)) /\ Len(out') <= 2 /\ \A k \in DOMAIN out' : out'[k] # <<>>
        /\ sent' \in Seq(HeaderType)
    BY <2>1, SendMakes DEF SenderInv
  <2>3. /\ start' \in BOOLEAN /\ next' \in Nat \ {0}
        /\ pc' \in {"walk", "parse", "stacks", "globals", "bss", "end"}
        /\ pc' \in {"stacks", "globals", "bss"} => list' = parseLines(snapshot.lines)
        /\ pc' \in {"globals", "bss"} => next' \in DOMAIN list'
        /\ pc' = "end" => out' = <<>>
    <3>1. CASE NotifyChunk
      BY <3>1 DEF NotifyChunk, Sends, GoTo, SenderInv
    <3>2. CASE WalkEnds
      BY <2>1, <3>2 DEF WalkEnds, Sends, GoTo, SenderInv
    <3>3. CASE ParseMaps
      BY <3>3 DEF ParseMaps, Sends, GoTo, SenderInv
    <3>4. CASE SendStack
      BY <3>4 DEF SendStack, Sends, GoTo, SenderInv
    <3>5. CASE StacksEnd
      <4>1. 1 \in DOMAIN list
        BY <3>5, ListType DEF StacksEnd, Sends
      <4> QED
        BY <3>5, <4>1 DEF StacksEnd, Sends, GoTo, SenderInv
    <3>6. CASE SendData \/ SendBss
      <4>1. /\ list \in Seq(Elements) /\ DOMAIN list \subseteq Nat \ {0} /\ next \in DOMAIN list
            /\ list = parseLines(snapshot.lines)
        BY <3>6, ListType DEF SendData, SendBss, Sends, SenderInv
      <4>2. m_next(next) \in DOMAIN list /\ m_next(m_next(next)) \in DOMAIN list
        BY <4>1, NextInRing
      <4>3. next' \in {m_next(next), m_next(m_next(next))} /\ pc' \in {"globals", "bss"}
            /\ UNCHANGED list /\ start' \in BOOLEAN
        BY <3>6 DEF SendData, SendBss, GoTo, SenderInv
      <4> QED
        BY <4>1, <4>2, <4>3
    <3>7. CASE Finish
      BY <2>1, <3>7 DEF Finish, Sends, GoTo, SenderInv
    <3> QED
      BY <1>6, <3>1, <3>2, <3>3, <3>4, <3>5, <3>6, <3>7 DEF Child
  <2>4. pc' # "killed"
    BY <2>3
  <2> QED
    BY <2>1, <2>2, <2>3, <2>4 DEF SenderInv
<1> QED
  BY <1>1, <1>2, <1>3, <1>4, <1>5, <1>6 DEF Next, Sending

-----------------------------------------------------------------------------
(* The records in the stream.                                              *)

(* f[n] is the first n of the records made of the headers hs, in one.      *)
Flat(f, hs) ==
    /\ f \in [0 .. Len(hs) -> Seq(Tokens)]
    /\ f[0] = <<>>
    /\ \A n \in 1 .. Len(hs) : f[n] = f[n - 1] \o Made(hs[n])

LEMMA FlatStep ==
    ASSUME NEW hs \in Seq(HeaderType), NEW f, Flat(f, hs), NEW n \in 1 .. Len(hs)
    PROVE  /\ f[n - 1] \in Seq(Tokens) /\ f[n] \in Seq(Tokens) /\ Made(hs[n]) \in Seq(Tokens)
           /\ f[n] = f[n - 1] \o Made(hs[n])
           /\ Len(Made(hs[n])) \in Nat \ {0}
           /\ Len(f[n]) = Len(f[n - 1]) + Len(Made(hs[n]))
<1>1. hs[n] \in HeaderType /\ n - 1 \in 0 .. Len(hs) /\ n \in 0 .. Len(hs)
  OBVIOUS
<1>2. f[n - 1] \in Seq(Tokens) /\ f[n] \in Seq(Tokens) /\ f[n] = f[n - 1] \o Made(hs[n])
  BY <1>1 DEF Flat
<1>3. Made(hs[n]) \in Seq(Tokens) /\ Len(Made(hs[n])) \in Nat \ {0}
  BY <1>1, HeaderTokens, Zenon
<1>4. Len(f[n]) = Len(f[n - 1]) + Len(Made(hs[n]))
  BY <1>2, <1>3
<1> QED
  BY <1>2, <1>3, <1>4

(* The records up to one are a part of those up to a later one.            *)
LEMMA FlatGrows ==
    ASSUME NEW hs \in Seq(HeaderType), NEW f, Flat(f, hs),
           NEW m \in 0 .. Len(hs), NEW n \in 0 .. Len(hs), n <= m
    PROVE  /\ Len(f[n]) <= Len(f[m]) /\ (n < m => Len(f[n]) < Len(f[m]))
           /\ SubSeq(f[m], 1, Len(f[n])) = f[n]
<1> DEFINE N == Len(hs)
           Grown == {k \in 0 .. N : k < n \/ /\ Len(f[n]) <= Len(f[k]) /\ (n < k => Len(f[n]) < Len(f[k]))
                                             /\ SubSeq(f[k], 1, Len(f[n])) = f[n]}
<1>1. f[n] \in Seq(Tokens) /\ Len(f[n]) \in Nat /\ N \in Nat
  BY DEF Flat
<1>2. 0 \in Grown
  BY <1>1
<1>3. ASSUME NEW k \in 1 .. N, k - 1 \in Grown
      PROVE  k \in Grown
  <2>1. /\ f[k - 1] \in Seq(Tokens) /\ f[k] \in Seq(Tokens) /\ Made(hs[k]) \in Seq(Tokens)
        /\ f[k] = f[k - 1] \o Made(hs[k])
        /\ Len(Made(hs[k])) \in Nat \ {0}
        /\ Len(f[k]) = Len(f[k - 1]) + Len(Made(hs[k]))
    BY FlatStep
  <2>2. CASE k - 1 < n
    <3>1. k < n \/ k = n
      BY <1>1, <2>2
    <3>2. SubSeq(f[n], 1, Len(f[n])) = f[n]
      BY <1>1
    <3> QED
      BY <1>1, <3>1, <3>2
  <2>3. CASE ~(k - 1 < n)
    <3>1. Len(f[n]) <= Len(f[k - 1]) /\ SubSeq(f[k - 1], 1, Len(f[n])) = f[n]
      BY <1>3, <2>3
    <3>2. f[k - 1] \in Seq(Tokens) /\ Made(hs[k]) \in Seq(Tokens) /\ Len(f[n]) \in 0 .. Len(f[k - 1])
      BY <1>1, <2>1, <3>1
    <3>3. SubSeq(f[k - 1] \o Made(hs[k]), 1, Len(f[n])) = SubSeq(f[k - 1], 1, Len(f[n]))
      BY <3>2, ConcatPrefix, Zenon
    <3>4. SubSeq(f[k], 1, Len(f[n])) = f[n]
      BY <2>1, <3>1, <3>3
    <3>5. Len(f[n]) <= Len(f[k]) /\ Len(f[n]) < Len(f[k]) /\ k \in 0 .. N
      <4> DEFINE a == Len(f[n])
                 b == Len(f[k - 1])
                 c == Len(Made(hs[k]))
                 d == Len(f[k])
      <4>1. a \in Nat /\ b \in Nat /\ c \in Nat \ {0} /\ d = b + c /\ a <= b
        BY <1>1, <2>1, <3>1
      <4> HIDE DEF a, b, c, d
      <4>2. a <= d /\ a < d
        BY <4>1
      <4>3. k \in 0 .. N
        BY <1>1
      <4> QED
        BY <4>2, <4>3 DEF a, d
    <3> QED
      BY <3>4, <3>5
  <2> QED
    BY <2>2, <2>3
<1> HIDE DEF Grown
<1>4. \A k \in 1 .. N : k - 1 \in Grown => k \in Grown
  BY <1>3
<1>5. 0 .. N \subseteq Grown
  <2> HIDE DEF N
  <2> QED
    BY <1>1, <1>2, <1>4, UpTo
<1>6. m \in Grown /\ ~(m < n)
  BY <1>5
<1> QED
  BY <1>6 DEF Grown

FrameInv ==
    \E f, rest : /\ Flat(f, sent) /\ rest \in Seq(Tokens)
                 /\ stream \o rest = f[Len(sent)]
                 /\ client => rest = Pending(out)

LEMMA FrameInvInit == Init => FrameInv
<1> SUFFICES ASSUME Init PROVE FrameInv
  OBVIOUS
<1>1. sent = <<>> /\ stream = <<>> /\ out = <<>> /\ <<>> \in Seq(Tokens) /\ Len(sent) = 0
  BY DEF Init
<1>2. Flat([n \in 0 .. 0 |-> <<>>], sent)
  BY <1>1 DEF Flat
<1>3. stream \o <<>> = [n \in 0 .. 0 |-> <<>>][0] /\ Pending(out) = <<>>
  BY <1>1 DEF Pending
<1> QED
  BY <1>1, <1>2, <1>3 DEF FrameInv

LEMMA FrameInvStep ==
    ASSUME SenderInv, FrameInv, [Next]_vars
    PROVE  FrameInv'
<1>1. PICK f, rest : /\ Flat(f, sent) /\ rest \in Seq(Tokens)
                     /\ stream \o rest = f[Len(sent)]
                     /\ client => rest = Pending(out)
  BY DEF FrameInv
<1>2. stream \in Seq(Tokens) /\ sent \in Seq(HeaderType)
  BY DEF SenderInv
<1>3. CASE UNCHANGED vars
  BY <1>1, <1>3 DEF vars, FrameInv
<1>4. CASE SendSome
  <2>1. PICK part, left \in Seq(Tokens) :
            stream' = stream \o part /\ Pending(out) = part \o left /\ left = Pending(out')
    BY <1>4, SomeSent
  <2>2. client /\ client' /\ sent' = sent
    BY <1>4 DEF SendSome
  <2>3. stream' \o left = stream \o rest
    <3>1. stream \in Seq(Tokens) /\ part \in Seq(Tokens) /\ left \in Seq(Tokens)
      BY <1>2
    <3>2. (stream \o part) \o left = stream \o (part \o left)
      BY <3>1
    <3>3. rest = part \o left /\ stream' = stream \o part
      BY <1>1, <2>1, <2>2
    <3> QED
      BY <3>2, <3>3, Zenon
  <2> QED
    BY <1>1, <2>1, <2>2, <2>3 DEF FrameInv
<1>5. CASE SendLost \/ Killed \/ HangUp
  <2>1. UNCHANGED <<sent, stream>> /\ ~client'
    BY <1>5 DEF SendLost, Killed, HangUp
  <2>2. Flat(f, sent') /\ stream' \o rest = f[Len(sent')]
    BY <1>1, <2>1
  <2> QED
    BY <1>1, <2>1, <2>2, Zenon DEF FrameInv
<1>6. CASE Child
  <2>1. /\ out = <<>> /\ UNCHANGED <<client, stream>>
        /\ UNCHANGED <<out, sent>> \/ \E h \in HeaderType : Send(h)
    BY <1>6, ChildSends
  <2>2. CASE UNCHANGED <<out, sent>>
    BY <1>1, <2>1, <2>2 DEF FrameInv
  <2>3. ASSUME NEW h \in HeaderType, Send(h)
        PROVE  FrameInv'
    <3>1. sent' = Append(sent, h) /\ sent' \in Seq(HeaderType) /\ Pending(out') = Made(h)
      BY <1>2, <2>3, SendMakes
    <3>2. Made(h) \in Seq(Tokens)
      BY HeaderTokens
    <3> DEFINE N == Len(sent)
               g == [n \in 0 .. N + 1 |-> IF n = N + 1 THEN f[N] \o Made(h) ELSE f[n]]
    <3>3. /\ N \in Nat /\ Len(sent') = N + 1 /\ sent'[N + 1] = h
          /\ \A n \in 1 .. N : sent'[n] = sent[n]
      BY <1>2, <3>1
    <3>4. f \in [0 .. N -> Seq(Tokens)] /\ f[0] = <<>> /\ \A n \in 1 .. N : f[n] = f[n - 1] \o Made(sent[n])
      BY <1>1 DEF Flat
    <3> HIDE DEF N
    <3>5. f[N] \in Seq(Tokens) /\ f[N] \o Made(h) \in Seq(Tokens)
      BY <3>2, <3>3, <3>4
    <3>6. /\ g \in [0 .. N + 1 -> Seq(Tokens)] /\ g[0] = <<>> /\ g[N + 1] = f[N] \o Made(h)
          /\ \A n \in 0 .. N : g[n] = f[n]
      BY <3>3, <3>4, <3>5
    <3> HIDE DEF g
    <3>7. \A n \in 1 .. N + 1 : g[n] = g[n - 1] \o Made(sent'[n])
      <4> TAKE n \in 1 .. N + 1
      <4>1. CASE n = N + 1
        <5>1. n - 1 = N /\ g[N] = f[N]
          BY <3>3, <3>6, <4>1
        <5> QED
          BY <3>3, <3>6, <4>1, <5>1
      <4>2. CASE n \in 1 .. N
        <5>1. n - 1 \in 0 .. N /\ n \in 0 .. N
          BY <3>3, <4>2
        <5> QED
          BY <3>3, <3>4, <3>6, <4>2, <5>1
      <4> QED
        BY <3>3, <4>1, <4>2
    <3>8. Flat(g, sent')
      BY <3>3, <3>6, <3>7 DEF Flat
    <3>9. stream \o rest = f[N] /\ client = client' /\ stream' = stream
      BY <1>1, <2>1 DEF N
    <3>10. rest \o Made(h) \in Seq(Tokens) /\ stream' \o (rest \o Made(h)) = g[Len(sent')]
      <4>1. stream \in Seq(Tokens) /\ rest \in Seq(Tokens) /\ Made(h) \in Seq(Tokens)
        BY <1>1, <1>2, <3>2
      <4>2. rest \o Made(h) \in Seq(Tokens)
        BY <4>1
      <4>3. (stream \o rest) \o Made(h) = stream \o (rest \o Made(h))
        BY <4>1
      <4>4. g[Len(sent')] = f[N] \o Made(h)
        BY <3>3, <3>6
      <4> QED
        BY <3>9, <4>2, <4>3, <4>4
    <3>11. client' => rest \o Made(h) = Pending(out')
      <4> SUFFICES ASSUME client' PROVE rest \o Made(h) = Pending(out')
        OBVIOUS
      <4>1. rest = <<>>
        BY <1>1, <2>1, <3>9 DEF Pending
      <4> QED
        BY <3>1, <3>2, <4>1
    <3> QED
      BY <3>8, <3>10, <3>11 DEF FrameInv
  <2> QED
    BY <2>1, <2>2, <2>3
<1> QED
  BY <1>3, <1>4, <1>5, <1>6 DEF Next, Sending

(* F0 and then B begin F, and data, which begins F too, goes beyond F0.    *)
Begins(F0, B, data, F) ==
    /\ F \in Seq(Tokens) /\ F0 \in Seq(Tokens) /\ B \in Seq(Tokens) /\ data \in Seq(Tokens)
    /\ SubSeq(F, 1, Len(F0 \o B)) = F0 \o B /\ Len(F0 \o B) <= Len(F)
    /\ \A k \in 1 .. Len(data) : data[k] = F[k]
    /\ B # <<>> /\ Len(F0) < Len(data)

LEMMA RecordInStream ==
    ASSUME NEW F, NEW F0, NEW B, NEW data, Begins(F0, B, data, F)
    PROVE  /\ data[Len(F0) + 1] = B[1]
           /\ Len(F0) + Len(B) <= Len(data) => SubSeq(data, Len(F0) + 1, Len(F0) + Len(B)) = B
<1> DEFINE F1 == F0 \o B
           p == Len(F0)
           b == Len(B)
<1>0. /\ F \in Seq(Tokens) /\ F0 \in Seq(Tokens) /\ B \in Seq(Tokens) /\ data \in Seq(Tokens)
      /\ B # <<>>
  BY DEF Begins
<1>1. F1 \in Seq(Tokens) /\ Len(F1) = p + b /\ p \in Nat /\ b \in Nat \ {0}
  BY <1>0
<1>2. \A k \in 1 .. b : F1[p + k] = B[k]
  BY <1>0
<1>3. \A k \in 1 .. p + b : F[k] = F1[k]
  <2> HIDE DEF F1
  <2>1. SubSeq(F, 1, Len(F1)) = F1 /\ Len(F1) <= Len(F) /\ Len(F1) \in Nat
    BY <1>1 DEF F1, Begins
  <2>2. \A k \in 1 .. Len(F1) : SubSeq(F, 1, Len(F1))[k] = F[k]
    BY <1>0, <2>1
  <2> QED
    BY <1>1, <2>1, <2>2
<1> HIDE DEF F1, p, b
<1>4. p < Len(data) /\ Len(data) \in Nat
  BY <1>0 DEF p, Begins
<1>5. data[p + 1] = B[1]
  <2>1. 1 \in 1 .. b /\ p + 1 \in 1 .. p + b /\ p + 1 \in 1 .. Len(data)
    BY <1>1, <1>4
  <2> QED
    BY <1>2, <1>3, <2>1 DEF Begins
<1>6. ASSUME p + b <= Len(data)
      PROVE  SubSeq(data, p + 1, p + b) = B
  <2> DEFINE x == SubSeq(data, p + 1, p + b)
  <2>1. x \in Seq(Tokens) /\ Len(x) = b /\ \A k \in 1 .. b : x[k] = data[p + k]
    BY <1>0, <1>1, <1>4, <1>6
  <2> HIDE DEF x
  <2>2. \A k \in 1 .. b : data[p + k] = B[k]
    <3> SUFFICES ASSUME NEW k \in 1 .. b PROVE data[p + k] = B[k]
      OBVIOUS
    <3>1. p + k \in 1 .. p + b /\ p + k \in 1 .. Len(data)
      BY <1>1, <1>4, <1>6
    <3> QED
      BY <1>2, <1>3, <3>1 DEF Begins
  <2>3. Len(x) = Len(B) /\ \A k \in 1 .. Len(x) : x[k] = B[k]
    BY <2>1, <2>2 DEF b
  <2>4. x = B
    BY <1>0, <2>1, <2>3, SeqEqual, Zenon
  <2> QED
    BY <2>4 DEF x
<1> QED
  BY <1>5, <1>6 DEF p, b

(* What the reader does at the end of a record, when the stream is all of  *)
(* the records or breaks off in one.                                       *)
LEMMA ReadRecordAt ==
    ASSUME NEW hs \in Seq(HeaderType), NEW f, Flat(f, hs),
           NEW data \in Seq(Tokens), NEW rest \in Seq(Tokens), data \o rest = f[Len(hs)],
           NEW n \in 0 .. Len(hs), NEW state, state.at = Len(f[n]) + 1,
           Len(f[n]) <= Len(data)
    PROVE  \/ Len(f[n]) = Len(data) /\ ReadRecord(data, state) = state
           \/ /\ n < Len(hs) /\ Len(f[n + 1]) <= Len(data)
              /\ ReadRecord(data, state) =
                    [at |-> Len(f[n + 1]) + 1, records |-> Append(state.records, Made(hs[n + 1]))]
           \/ /\ n < Len(hs) /\ Len(f[n]) < Len(data) /\ Len(data) < Len(f[n + 1])
              /\ ReadRecord(data, state) =
                    [at |-> Len(data) + 1, records |-> Append(state.records, ParseError)]
<1> DEFINE N == Len(hs)
           D == Len(data)
           F == f[N]
           F0 == f[n]
           p == Len(F0)
<1>1. N \in Nat /\ n \in 0 .. N /\ D \in Nat /\ F \in Seq(Tokens) /\ F0 \in Seq(Tokens)
  <2>1. f \in [0 .. N -> Seq(Tokens)]
    BY Zenon DEF Flat
  <2>2. N \in Nat /\ D \in Nat /\ N \in 0 .. N
    OBVIOUS
  <2> QED
    BY <2>1, <2>2, Zenon
<1>2. D <= Len(F) /\ \A k \in 1 .. D : data[k] = F[k]
  <2>1. /\ Len(data \o rest) = Len(data) + Len(rest)
        /\ \A k \in 1 .. Len(data) : (data \o rest)[k] = data[k]
    BY ConcatParts, Zenon
  <2>2. Len(rest) \in Nat
    OBVIOUS
  <2>3. F = data \o rest
    OBVIOUS
  <2> HIDE DEF F
  <2>4. Len(F) = Len(data) + Len(rest) /\ \A k \in 1 .. Len(data) : F[k] = data[k]
    BY <2>1, <2>3
  <2> HIDE DEF D
  <2>5. Len(F) = D + Len(rest)
    BY <2>4 DEF D
  <2> QED
    BY <1>1, <2>2, <2>4, <2>5 DEF D
<1>3. state.at = p + 1 /\ p <= D
  OBVIOUS
<1>4. p \in Nat
  BY <1>1
<1> HIDE DEF p, D
<1>5. CASE p = D
  <2>1. state.at > Len(data)
    BY <1>1, <1>3, <1>5 DEF D
  <2>2. ReadRecord(data, state) = state
    BY <2>1 DEF ReadRecord
  <2> QED
    BY <1>5, <2>2 DEF p, D
<1>6. CASE p < D
  <2>1. n < N /\ n + 1 \in 1 .. N /\ n + 1 \in 0 .. N
    <3>1. n # N
      BY <1>1, <1>2, <1>4, <1>6 DEF p, F
    <3> QED
      BY <1>1, <3>1
  <2> DEFINE h == hs[n + 1]
             A == Len(Addresses(h))
             C == Len(Content(h))
             B == Made(h)
             F1 == f[n + 1]
             q == Len(F1)
  <2>2. h \in HeaderType
    BY <2>1
  <2>3. /\ B \in Seq(Tokens) /\ Len(B) = 1 + A + C /\ B[1] = <<h>>
        /\ A \in Nat /\ C \in Nat
    BY <2>2, HeaderTokens, Zenon
  <2>4. F1 = F0 \o B /\ q = p + Len(B)
    <3>1. /\ f[n + 1] = f[(n + 1) - 1] \o Made(hs[n + 1])
          /\ Len(f[n + 1]) = Len(f[(n + 1) - 1]) + Len(Made(hs[n + 1]))
      BY <2>1, FlatStep, Zenon
    <3>2. (n + 1) - 1 = n
      OBVIOUS
    <3> QED
      BY <3>1, <3>2 DEF p
  <2>5. SubSeq(F, 1, q) = F1 /\ q <= Len(F)
    <3>1. N \in 0 .. N /\ n + 1 <= N
      BY <1>1, <2>1
    <3> QED
      BY <2>1, <3>1, FlatGrows, Zenon
  <2> HIDE DEF h, A, C, B, N, F, F0
  <2>6. B # <<>>
    <3>1. Len(B) # 0
      BY <2>3
    <3> QED
      BY <3>1
  <2>7. /\ data[p + 1] = <<h>>
        /\ p + Len(B) <= D => SubSeq(data, p + 1, p + Len(B)) = B
    <3>1. Begins(F0, B, data, F)
      BY <1>1, <1>2, <1>6, <2>3, <2>4, <2>5, <2>6 DEF D, p, Begins
    <3>2. /\ data[Len(F0) + 1] = B[1]
          /\ Len(F0) + Len(B) <= Len(data) => SubSeq(data, Len(F0) + 1, Len(F0) + Len(B)) = B
      BY <3>1, RecordInStream
    <3> QED
      BY <2>3, <3>2 DEF D, p
  <2> HIDE DEF q
  <2>8. q = p + 1 + A + C /\ p + Len(B) = q
    BY <1>4, <2>3, <2>4
  <2>9. data[state.at] = <<h>> /\ ~(state.at > D)
    BY <1>1, <1>3, <1>4, <1>6, <2>7
  <2>10. Len(<<h>>) = 1 /\ <<h>>[1] = h
    OBVIOUS
  <2>11. data[state.at][1] = h /\ ~(Len(data[state.at]) # 1)
    BY <2>9, <2>10
  <2>12. ReadRecord(data, state) =
            IF state.at + A + C > D
            THEN [at |-> D + 1, records |-> Append(state.records, ParseError)]
            ELSE [at |-> state.at + A + C + 1,
                  records |-> Append(state.records, SubSeq(data, state.at, state.at + A + C))]
    BY <2>9, <2>11 DEF ReadRecord, A, C, D
  <2>13. state.at + A + C = q
    BY <1>3, <1>4, <2>3, <2>8
  <2>14. CASE q <= D
    <3>1. SubSeq(data, state.at, q) = B
      BY <1>3, <2>7, <2>8, <2>14
    <3>2. ~(q > D)
      BY <1>1, <1>4, <2>3, <2>8, <2>14
    <3>3. ReadRecord(data, state) =
              [at |-> q + 1, records |-> Append(state.records, B)]
      BY <2>12, <2>13, <3>1, <3>2
    <3> QED
      BY <2>1, <2>14, <3>3 DEF N, D, h, q, B
  <2>15. CASE ~(q <= D)
    <3>1. q > D /\ D < q
      BY <1>1, <1>4, <2>3, <2>8, <2>15
    <3>2. ReadRecord(data, state) =
              [at |-> D + 1, records |-> Append(state.records, ParseError)]
      BY <2>12, <2>13, <3>1
    <3> QED
      BY <1>6, <2>1, <3>1, <3>2 DEF N, D, p, q, F0
  <2> QED
    BY <2>14, <2>15
<1> QED
  BY <1>1, <1>3, <1>4, <1>5, <1>6

LEMMA ReadersRecords ==
    ASSUME NEW hs \in Seq(HeaderType), NEW f, Flat(f, hs),
           NEW data \in Seq(Tokens), NEW rest \in Seq(Tokens), data \o rest = f[Len(hs)]
    PROVE  LET made == [k \in DOMAIN hs |-> Made(hs[k])]
           IN  /\ \E n \in 0 .. Len(hs) :
                     \/ parse(data) = SubSeq(made, 1, n)
                     \/ parse(data) = Append(SubSeq(made, 1, n), ParseError)
               /\ rest = <<>> => parse(data) = made
<1> DEFINE made == [k \in DOMAIN hs |-> Made(hs[k])]
           N == Len(hs)
           D == Len(data)
           At(n) == [at |-> Len(f[n]) + 1, records |-> SubSeq(made, 1, n)]
           CutIn(n) == [at |-> D + 1, records |-> Append(SubSeq(made, 1, n), ParseError)]
           Uncut == {At(n) : n \in {n \in 0 .. N : Len(f[n]) <= D}}
           Cut == {CutIn(n) : n \in {n \in 0 .. N : n < N /\ Len(f[n]) < D /\ D < Len(f[n + 1])}}
           S == Uncut \cup Cut
           base == [at |-> 1, records |-> <<>>]
           step == [n \in 1 .. D |-> [x \in S |-> ReadRecord(data, x)]]
           Is(g) == g = [n \in 0 .. D |-> IF n = 0 THEN base ELSE ReadRecord(data, g[n - 1])]
           after == CHOOSE g : Is(g)
<1>1. N \in Nat /\ D \in Nat /\ \A n \in 0 .. N : f[n] \in Seq(Tokens) /\ Len(f[n]) \in Nat
  <2>1. f \in [0 .. N -> Seq(Tokens)]
    BY Zenon DEF Flat
  <2>2. N \in Nat /\ D \in Nat
    OBVIOUS
  <2> HIDE DEF N, D
  <2>3. \A n \in 0 .. N : f[n] \in Seq(Tokens)
    BY <2>1
  <2>4. \A x \in Seq(Tokens) : Len(x) \in Nat
    OBVIOUS
  <2> QED
    BY <2>2, <2>3, <2>4, Zenon
<1>2. made \in Seq(Seq(Tokens)) /\ Len(made) = N /\ \A n \in 1 .. N : made[n] = Made(hs[n])
  <2> DEFINE T == Seq(Tokens)
  <2>1. ASSUME NEW n \in 1 .. N
        PROVE  Made(hs[n]) \in T
    <3>1. hs[n] \in HeaderType
      OBVIOUS
    <3> QED
      BY <3>1, HeaderTokens, Zenon
  <2>2. N \in Nat /\ DOMAIN hs = 1 .. N
    OBVIOUS
  <2> HIDE DEF N, T
  <2>3. made = [k \in 1 .. N |-> Made(hs[k])]
    BY <2>2
  <2> HIDE DEF made
  <2>4. made \in [1 .. N -> T] /\ \A n \in 1 .. N : made[n] = Made(hs[n])
    BY <2>1, <2>3
  <2>5. made \in Seq(T) /\ Len(made) = N
    BY <2>2, <2>4
  <2> QED
    BY <2>4, <2>5 DEF T
<1>3. parse(data) = after[D].records
  BY DEF parse
<1> HIDE DEF after, made, N, D
<1>4. base \in S
  <2>1. Len(f[0]) = 0 /\ SubSeq(made, 1, 0) = <<>>
    BY <1>2 DEF Flat
  <2>2. At(0) = base /\ At(0) \in Uncut
    BY <1>1, <2>1
  <2> QED
    BY <2>2
<1>5. ASSUME NEW x \in S
      PROVE  ReadRecord(data, x) \in S
  <2>1. CASE x \in Cut
    <3>1. x.at = D + 1
      BY <2>1
    <3>2. x \in S
      OBVIOUS
    <3> HIDE DEF S, Cut, Uncut
    <3>3. x.at > Len(data)
      BY <1>1, <3>1 DEF D
    <3>4. ReadRecord(data, x) = x
      BY <3>3 DEF ReadRecord
    <3> QED
      BY <3>2, <3>4
  <2>2. CASE x \in Uncut
    <3>1. PICK n \in 0 .. N : x = At(n) /\ Len(f[n]) <= D
      BY <2>2
    <3>2. x.at = Len(f[n]) + 1 /\ x.records = SubSeq(made, 1, n)
      BY <3>1
    <3> HIDE DEF S, Cut, Uncut, At, CutIn
    <3>a. n \in 0 .. Len(hs) /\ x.at = Len(f[n]) + 1 /\ Len(f[n]) <= Len(data)
      BY <3>1, <3>2 DEF N, D
    <3>3. \/ Len(f[n]) = D /\ ReadRecord(data, x) = x
          \/ /\ n < N /\ Len(f[n + 1]) <= D
             /\ ReadRecord(data, x) =
                   [at |-> Len(f[n + 1]) + 1, records |-> Append(x.records, Made(hs[n + 1]))]
          \/ /\ n < N /\ Len(f[n]) < D /\ D < Len(f[n + 1])
             /\ ReadRecord(data, x) = [at |-> D + 1, records |-> Append(x.records, ParseError)]
      BY <3>a, ReadRecordAt, Zenon DEF N, D
    <3>4. ASSUME n < N, Len(f[n + 1]) <= D,
                 ReadRecord(data, x) =
                    [at |-> Len(f[n + 1]) + 1, records |-> Append(x.records, Made(hs[n + 1]))]
          PROVE  ReadRecord(data, x) \in S
      <4>1. n + 1 \in 0 .. N /\ n + 1 \in 1 .. N
        BY <1>1, <3>4
      <4>2. SubSeq(made, 1, n + 1) = Append(SubSeq(made, 1, n), Made(hs[n + 1]))
        BY <1>2, <4>1
      <4>3. ReadRecord(data, x) = At(n + 1)
        BY <3>2, <3>4, <4>2 DEF At
      <4> QED
        BY <3>4, <4>1, <4>3 DEF S, Uncut
    <3>5. ASSUME n < N, Len(f[n]) < D, D < Len(f[n + 1]),
                 ReadRecord(data, x) = [at |-> D + 1, records |-> Append(x.records, ParseError)]
          PROVE  ReadRecord(data, x) \in S
      <4>1. ReadRecord(data, x) = CutIn(n)
        BY <3>2, <3>5 DEF CutIn
      <4> QED
        BY <3>5, <4>1 DEF S, Cut
    <3>6. x \in S
      OBVIOUS
    <3> QED
      BY <3>3, <3>4, <3>5, <3>6
  <2> QED
    BY <2>1, <2>2
<1>6. step \in [1 .. D -> [S -> S]]
  BY <1>5
<1>7. \A n \in 1 .. D : \A x \in S : step[n][x] = ReadRecord(data, x)
  OBVIOUS
<1>8. \A x \in S : \/ \E n \in 0 .. N : x = At(n) /\ Len(f[n]) <= D
                   \/ \E n \in 0 .. N : x = CutIn(n) /\ n < N /\ Len(f[n]) < D /\ D < Len(f[n + 1])
  OBVIOUS
<1> HIDE DEF step, S, base
<1>9. PICK g \in [0 .. D -> S] : Recurs(g, D, base, step)
  BY <1>1, <1>4, <1>6, Recursion
<1>10. g = [n \in 0 .. D |-> IF n = 0 THEN base ELSE step[n][g[n - 1]]]
  BY <1>9, Zenon DEF Recurs
<1>11. \A n \in 0 .. D : n = 0 \/ step[n][g[n - 1]] = ReadRecord(data, g[n - 1])
  <2>0. \A n \in 0 .. D : n = 0 \/ n \in 1 .. D
    BY <1>1
  <2> SUFFICES ASSUME NEW n \in 1 .. D PROVE step[n][g[n - 1]] = ReadRecord(data, g[n - 1])
    BY <2>0
  <2>1. n - 1 \in 0 .. D
    BY <1>1
  <2> QED
    BY <1>7, <1>9, <2>1, Zenon
<1>12. Is(g)
  BY <1>10, <1>11
<1>13. Is(after)
  BY <1>12, Zenon DEF after
<1> DEFINE Below == {n \in 0 .. D : after[n] = g[n]}
<1>14. 0 \in Below
  BY <1>1, <1>12, <1>13
<1>15. \A n \in 1 .. D : n - 1 \in Below => n \in Below
  BY <1>1, <1>12, <1>13
<1> HIDE DEF Below
<1>16. 0 .. D \subseteq Below
  BY <1>1, <1>14, <1>15, UpTo
<1>17. after[D] = g[D] /\ g[D] \in S
  BY <1>1, <1>9, <1>16 DEF Below
<1>18. g[0] = base /\ \A n \in 1 .. D : g[n] = ReadRecord(data, g[n - 1])
  BY <1>1, <1>12
<1>19. \E n \in 0 .. N : \/ parse(data) = SubSeq(made, 1, n)
                         \/ parse(data) = Append(SubSeq(made, 1, n), ParseError)
  <2>1. CASE \E n \in 0 .. N : g[D] = At(n) /\ Len(f[n]) <= D
    BY <1>3, <1>17, <2>1
  <2>2. CASE \E n \in 0 .. N : g[D] = CutIn(n)
    BY <1>3, <1>17, <2>2
  <2> QED
    BY <1>8, <1>17, <2>1, <2>2
<1>20. ASSUME rest = <<>>
       PROVE  parse(data) = made
  <2>1. data = f[N] /\ D = Len(f[N])
    <3>1. data \o rest = data
      BY <1>20
    <3> QED
      BY <3>1 DEF N, D
  <2>2. \A x \in S : \E n \in 0 .. N : x = At(n) /\ Len(f[n]) <= D
    <3> SUFFICES ASSUME NEW n \in 0 .. N, n < N, D < Len(f[n + 1]) PROVE FALSE
      BY <1>8
    <3>1. n + 1 \in 0 .. N /\ n + 1 <= N /\ N \in 0 .. N
      BY <1>1
    <3>2. Len(f[n + 1]) <= Len(f[N])
      BY <3>1, FlatGrows DEF N
    <3> QED
      BY <1>1, <2>1, <3>1, <3>2
  <2> DEFINE Ahead == {n \in 0 .. D : g[n].at > n}
  <2>3. 0 \in Ahead
    BY <1>1, <1>18 DEF base
  <2>4. ASSUME NEW n \in 1 .. D, n - 1 \in Ahead
        PROVE  n \in Ahead
    <3>1. n - 1 \in 0 .. D /\ n \in 0 .. D
      BY <1>1
    <3>2. PICK k \in 0 .. N : g[n - 1] = At(k) /\ Len(f[k]) <= D
      BY <1>9, <2>2, <3>1
    <3>3. /\ g[n - 1].at = Len(f[k]) + 1 /\ Len(f[k]) + 1 > n - 1 /\ Len(f[k]) \in Nat
      BY <1>1, <2>4, <3>2
    <3> DEFINE x == g[n - 1]
    <3>a. k \in 0 .. Len(hs) /\ x.at = Len(f[k]) + 1 /\ Len(f[k]) <= Len(data)
      BY <3>2, <3>3 DEF N, D
    <3> HIDE DEF x
    <3>b. \/ Len(f[k]) = D /\ ReadRecord(data, x) = x
          \/ /\ k < N /\ Len(f[k + 1]) <= D
             /\ ReadRecord(data, x) =
                   [at |-> Len(f[k + 1]) + 1, records |-> Append(x.records, Made(hs[k + 1]))]
          \/ /\ k < N /\ Len(f[k]) < D /\ D < Len(f[k + 1])
             /\ ReadRecord(data, x) = [at |-> D + 1, records |-> Append(x.records, ParseError)]
      BY <3>a, ReadRecordAt, Zenon DEF N, D
    <3>c. g[n] = ReadRecord(data, x)
      BY <1>18 DEF x
    <3>4. \/ Len(f[k]) = D /\ g[n] = g[n - 1]
          \/ k < N /\ g[n].at = Len(f[k + 1]) + 1
          \/ k < N /\ D < Len(f[k + 1])
      BY <3>b, <3>c DEF x
    <3>5. CASE Len(f[k]) = D /\ g[n] = g[n - 1]
      BY <1>1, <3>1, <3>3, <3>5
    <3>6. CASE k < N /\ g[n].at = Len(f[k + 1]) + 1
      <4>1. k + 1 \in 0 .. N /\ k <= k + 1 /\ k < k + 1
        BY <1>1, <3>6
      <4>2. Len(f[k]) < Len(f[k + 1])
        BY <4>1, FlatGrows DEF N
      <4> QED
        BY <1>1, <3>1, <3>3, <3>6, <4>1, <4>2
    <3>7. CASE k < N /\ D < Len(f[k + 1])
      <4>1. k + 1 \in 0 .. N /\ k + 1 <= N /\ N \in 0 .. N
        BY <1>1, <3>7
      <4>2. Len(f[k + 1]) <= Len(f[N])
        BY <4>1, FlatGrows DEF N
      <4> QED
        BY <1>1, <2>1, <3>7, <4>1, <4>2
    <3> QED
      BY <3>4, <3>5, <3>6, <3>7
  <2> HIDE DEF Ahead
  <2>5. \A n \in 1 .. D : n - 1 \in Ahead => n \in Ahead
    BY <2>4
  <2>6. 0 .. D \subseteq Ahead
    BY <1>1, <2>3, <2>5, UpTo
  <2>7. g[D].at > D
    BY <1>1, <2>6 DEF Ahead
  <2>8. PICK k \in 0 .. N : g[D] = At(k) /\ Len(f[k]) <= D
    BY <1>17, <2>2
  <2>9. Len(f[k]) = Len(f[N])
    BY <1>1, <2>1, <2>7, <2>8
  <2>10. k = N
    <3> SUFFICES ASSUME k < N PROVE FALSE
      BY <1>1
    <3>1. Len(f[k]) < Len(f[N])
      <4>1. N \in 0 .. N /\ k <= N
        BY <1>1
      <4> QED
        BY <4>1, FlatGrows DEF N
    <3> QED
      BY <1>1, <2>9, <3>1
  <2>11. g[D].records = SubSeq(made, 1, N) /\ SubSeq(made, 1, N) = made
    BY <1>2, <2>8, <2>10
  <2> QED
    BY <1>3, <1>17, <2>11
<1> QED
  BY <1>19, <1>20 DEF N, made

LEMMA FramedInv ==
    ASSUME SenderInv, FrameInv
    PROVE  Framed
<1>1. PICK f, rest : /\ Flat(f, sent) /\ rest \in Seq(Tokens)
                     /\ stream \o rest = f[Len(sent)]
                     /\ client => rest = Pending(out)
  BY DEF FrameInv
<1>2. stream \in Seq(Tokens) /\ sent \in Seq(HeaderType)
  BY DEF SenderInv
<1> DEFINE made == [k \in DOMAIN sent |-> Made(sent[k])]
<1>3. /\ \E n \in 0 .. Len(sent) :
            parse(stream) = SubSeq(made, 1, n) \/ parse(stream) = Append(SubSeq(made, 1, n), ParseError)
      /\ rest = <<>> => parse(stream) = made
  BY <1>1, <1>2, ReadersRecords
<1>4. pc = "end" /\ client => rest = <<>>
  BY <1>1 DEF SenderInv, Pending
<1> QED
  BY <1>3, <1>4 DEF Framed

(* The sender goes on as in SnapshotStream, whatever the analysis does.    *)
LEMMA AnalysisSends == AnalysisSpec => Spec
<1>1. AnalysisInit => Init
  BY DEF AnalysisInit
<1>2. [AnalysisNext]_<<vars, analysisVars>> => [Next]_vars
  BY DEF AnalysisNext, Stream, Analyze
<1> QED
  BY <1>1, <1>2, PTL DEF AnalysisSpec, Spec

LEMMA SenderAlways == AnalysisSpec => [](SenderInv /\ FrameInv)
<1>1. Init => SenderInv /\ FrameInv
  BY SenderInvInit, FrameInvInit
<1>2. SenderInv /\ FrameInv /\ [Next]_vars => (SenderInv /\ FrameInv)'
  BY SenderInvStep, FrameInvStep
<1> QED
  BY <1>1, <1>2, AnalysisSends, PTL DEF Spec

(* Of any process, and however sendto cuts what the child sends and        *)
(* wherever the client hangs up, the reader of analyze.py finds the first  *)
(* of the records that were sent, whole and in order, raises ParseError    *)
(* after them exactly where one may be cut, and never takes contents for a *)
(* header; with the client there to the end it finds them all.             *)
THEOREM StreamFramed == AnalysisSpec => []Framed
<1>1. SenderInv /\ FrameInv => Framed
  BY FramedInv
<1> QED
  BY <1>1, SenderAlways, PTL

LEMMA SenderTyped ==
    ASSUME SenderInv
    PROVE  TypeOK
<1>1. <<>> \notin ToSet(out)
  BY DEF SenderInv, ToSet, Range
<1> QED
  BY <1>1 DEF SenderInv, TypeOK

(* The sender's state keeps its types, and the walk of the list that       *)
(* sendGlobalVariable makes never leaves it.                               *)
THEOREM SenderTypeCorrect == AnalysisSpec => []TypeOK
<1>1. SenderInv => TypeOK
  BY SenderTyped
<1> QED
  BY <1>1, SenderAlways, PTL

-----------------------------------------------------------------------------
(* The threads' stacks.                                                    *)

LEMMA DisguisedIsIn ==
    ASSUME SenderInv
    PROVE  Mappings = MappingsOf(snapshot) /\ Disguised = DisguisedIn(snapshot)
<1>1. Mappings = MappingsOf(snapshot)
  BY DEF Mappings, MappingsOf
<1>2. snapshot.lines \in Seq(Seq(Pieces))
  BY SnapshotAssumption DEF SenderInv
<1>3. ToSet(snapshot.lines) = {snapshot.lines[k] : k \in DOMAIN snapshot.lines}
  BY <1>2 DEF ToSet
<1>4. Disguised <=> DisguisedIn(snapshot)
  BY <1>3 DEF Disguised, DisguisedIn
<1> QED
  BY <1>1, <1>4 DEF Disguised, DisguisedIn

Ordered(mappings) ==
    \A i \in DOMAIN mappings :
        /\ mappings[i].start < mappings[i].end
        /\ \A j \in i + 1 .. Len(mappings) : mappings[i].end <= mappings[j].start

LEMMA MappingsOrdered ==
    ASSUME NEW s \in Snapshots
    PROVE  /\ MappingsOf(s) \in Seq(Elements) /\ MappingsOf(s) # <<>>
           /\ DOMAIN MappingsOf(s) = DOMAIN s.lines /\ Len(MappingsOf(s)) = Len(s.lines)
           /\ Ordered(MappingsOf(s))
           /\ ~Data(MappingsOf(s)[Len(MappingsOf(s))])
<1> DEFINE lines == s.lines
           N == Len(lines)
           M == MappingsOf(s)
<1>1. /\ lines \in Seq(Seq(Pieces)) /\ lines # <<>> /\ N \in Nat \ {0} /\ DOMAIN lines = 1 .. N
      /\ \A i \in 1 .. N :
            /\ lines[i] \in Seq(Pieces) /\ lines[i] # <<>>
            /\ lines[i][1].start < lines[i][1].end
            /\ \A j \in i + 1 .. N : lines[i][1].end <= lines[j][1].start
      /\ ~(lines[N][1].protect = {"r", "w"} /\ lines[N][1].path)
  <2> DEFINE L == Seq(Pieces)
  <2>0. /\ lines \in Seq(L) /\ lines # <<>>
        /\ \A i \in DOMAIN lines :
              /\ lines[i] # <<>>
              /\ lines[i][1].start < lines[i][1].end
              /\ \A j \in i + 1 .. Len(lines) : lines[i][1].end <= lines[j][1].start
        /\ ~(lines[Len(lines)][1].protect = {"r", "w"} /\ lines[Len(lines)][1].path)
    BY SnapshotAssumption, Zenon
  <2> HIDE DEF lines, L
  <2>1. N \in Nat \ {0} /\ DOMAIN lines = 1 .. N /\ \A i \in 1 .. N : lines[i] \in L
    BY <2>0
  <2> HIDE DEF N
  <2>2. /\ \A i \in 1 .. N :
              /\ lines[i] # <<>>
              /\ lines[i][1].start < lines[i][1].end
              /\ \A j \in i + 1 .. N : lines[i][1].end <= lines[j][1].start
        /\ ~(lines[N][1].protect = {"r", "w"} /\ lines[N][1].path)
    BY <2>0, <2>1, Zenon DEF N
  <2> QED
    BY <2>0, <2>1, <2>2 DEF L
<1>2. M = [i \in 1 .. N |-> Element(lines[i][1])]
  BY <1>1 DEF MappingsOf
<1> HIDE DEF lines, N, M
<1>3. \A i \in 1 .. N : lines[i][1] \in Pieces
  BY <1>1
<1>4. \A i \in 1 .. N : Element(lines[i][1]) \in Elements
  BY <1>3, ElementType
<1>5. M \in Seq(Elements) /\ Len(M) = N /\ DOMAIN M = 1 .. N /\ M # <<>>
  <2>1. M \in [1 .. N -> Elements]
    BY <1>2, <1>4
  <2>2. N \in Nat \ {0}
    BY <1>1
  <2> QED
    BY <2>1, <2>2
<1>6. \A i \in 1 .. N : /\ M[i].start = lines[i][1].start /\ M[i].end = lines[i][1].end
                        /\ M[i].protect = lines[i][1].protect /\ M[i].path = lines[i][1].path
  BY <1>2 DEF Element
<1>7. Ordered(M)
  <2> SUFFICES ASSUME NEW i \in 1 .. N
               PROVE  /\ M[i].start < M[i].end
                      /\ \A j \in i + 1 .. N : M[i].end <= M[j].start
    BY <1>5 DEF Ordered
  <2>1. \A j \in i + 1 .. N : j \in 1 .. N
    BY <1>1
  <2> QED
    BY <1>1, <1>6, <2>1
<1>8. ~Data(M[N])
  BY <1>1, <1>6 DEF Data
<1> QED
  BY <1>1, <1>5, <1>7, <1>8 DEF lines, N, M

LEMMA LowerBoundIs ==
    ASSUME NEW sp \in Nat, list \in Seq(Elements)
    PROVE  \/ /\ lowerBound(sp) = NULL
              /\ \A k \in 1 .. Len(list) : list[k].start < sp
           \/ /\ lowerBound(sp) \in 1 .. Len(list) /\ list[lowerBound(sp)].start >= sp
              /\ \A k \in 1 .. Len(list) : k < lowerBound(sp) => list[k].start < sp
<1> DEFINE I == {k \in 1 .. Len(list) : list[k].start >= sp}
<1>1. lowerBound(sp) = IF I # {} THEN Min(I) ELSE 0
  BY DEF lowerBound, SelectInSeq
<1>2. \A k \in 1 .. Len(list) : list[k].start \in Nat
  BY DEF Elements
<1>3. CASE I = {}
  BY <1>1, <1>2, <1>3 DEF NULL
<1>4. CASE I # {}
  <2>1. I \subseteq Nat
    OBVIOUS
  <2>2. Min(I) \in I /\ \A y \in I : Min(I) <= y
    <3> HIDE DEF I
    <3>1. \E x \in I : \A y \in I : x <= y
      BY <1>4, <2>1, LeastNat
    <3>2. Min(I) = CHOOSE x \in I : \A y \in I : x <= y
      BY DEF Min
    <3> QED
      BY <3>1, <3>2, Zenon
  <2>3. lowerBound(sp) \in I /\ \A y \in I : lowerBound(sp) <= y
    BY <1>1, <1>4, <2>2
  <2>4. lowerBound(sp) \in 1 .. Len(list) /\ list[lowerBound(sp)].start >= sp
    BY <2>3
  <2>5. ASSUME NEW k \in 1 .. Len(list), k < lowerBound(sp) PROVE list[k].start < sp
    <3>1. k \notin I
      BY <2>3, <2>4, <2>5
    <3> QED
      BY <1>2, <3>1
  <2> QED
    BY <2>4, <2>5
<1> QED
  BY <1>3, <1>4

(* The element that is found is the only one that sp can be in.            *)
LEMMA FoundIsOnly ==
    ASSUME NEW sp \in Nat, list \in Seq(Elements), list # <<>>, Ordered(list),
           NEW j \in 1 .. Len(list), list[j].start <= sp, sp < list[j].end
    PROVE  j = Found(sp)
<1> DEFINE N == Len(list)
           b == lowerBound(sp)
<1>1. N \in Nat \ {0} /\ DOMAIN list = 1 .. N
  OBVIOUS
<1> HIDE DEF N, b
<1>2. \A k \in 1 .. N : list[k].start \in Nat /\ list[k].end \in Nat
  BY DEF Elements, N
<1>3. \A i, k \in 1 .. N : i < k => list[i].start < list[i].end /\ list[i].end <= list[k].start
  <2> SUFFICES ASSUME NEW i \in 1 .. N, NEW k \in 1 .. N, i < k
               PROVE  list[i].start < list[i].end /\ list[i].end <= list[k].start
    OBVIOUS
  <2>1. k \in i + 1 .. N
    BY <1>1
  <2> QED
    BY <1>1, <2>1 DEF Ordered, N
<1>4. \/ b = NULL /\ \A k \in 1 .. N : list[k].start < sp
      \/ b \in 1 .. N /\ list[b].start >= sp /\ \A k \in 1 .. N : k < b => list[k].start < sp
  BY LowerBoundIs DEF N, b
<1>5. Found(sp) = IF b = NULL THEN N ELSE IF b # 1 /\ list[b].start # sp THEN b - 1 ELSE b
  BY DEF Found, N, b
<1>6. CASE b = NULL /\ \A k \in 1 .. N : list[k].start < sp
  <2>1. N \in 1 .. N
    BY <1>1
  <2> QED
    BY <1>2, <1>3, <1>5, <1>6, <2>1 DEF N
<1>7. CASE b \in 1 .. N /\ list[b].start >= sp /\ \A k \in 1 .. N : k < b => list[k].start < sp
  <2>1. b # NULL
    BY <1>7 DEF NULL
  <2>2. CASE list[b].start = sp
    BY <1>2, <1>3, <1>5, <1>7, <2>1, <2>2 DEF N
  <2>3. CASE list[b].start # sp
    <3>1. list[b].start > sp
      BY <1>2, <1>7, <2>3
    <3>2. j < b
      BY <1>2, <1>3, <1>7, <3>1 DEF N
    <3>3. b # 1 /\ b - 1 \in 1 .. N /\ b - 1 < b
      BY <1>7, <3>2 DEF N
    <3>4. ~(j < b - 1)
      <4> SUFFICES ASSUME j < b - 1 PROVE FALSE
        OBVIOUS
      <4>1. j \in 1 .. N /\ b - 1 \in 1 .. N
        BY <3>3 DEF N
      <4>2. list[j].end <= list[b - 1].start
        BY <1>3, <4>1
      <4>3. list[b - 1].start < sp
        BY <1>7, <3>3
      <4>4. list[j].end \in Nat /\ list[b - 1].start \in Nat
        BY <1>2, <4>1
      <4> QED
        BY <4>2, <4>3, <4>4
    <3> QED
      BY <1>5, <1>7, <2>1, <2>3, <3>2, <3>3, <3>4 DEF N
  <2> QED
    BY <2>2, <2>3
<1> QED
  BY <1>4, <1>6, <1>7

(* What is sent of the stack at sp.                                        *)
StackOf(mappings, sp) ==
    {Header(sp, m.end - sp, THREAD, {"content"}) :
        m \in {m \in ToSet(mappings) : m.start <= sp /\ sp < m.end /\ ReadWrite(m)}}

LEMMA StackOfFound ==
    ASSUME NEW sp \in Nat, list \in Seq(Elements), list # <<>>, Ordered(list)
    PROVE  LET e == list[Found(sp)]
           IN  StackOf(list, sp) = IF e.start <= sp /\ sp < e.end /\ ReadWrite(e)
                                   THEN {Header(sp, e.end - sp, THREAD, {"content"})} ELSE {}
<1> DEFINE e == list[Found(sp)]
           M == {m \in ToSet(list) : m.start <= sp /\ sp < m.end /\ ReadWrite(m)}
<1>1. Found(sp) \in DOMAIN list /\ DOMAIN list = 1 .. Len(list)
  BY FoundInList
<1>2. ToSet(list) = {list[k] : k \in 1 .. Len(list)}
  BY DEF ToSet
<1>3. e \in ToSet(list)
  BY <1>1, <1>2
<1>4. ASSUME NEW m \in M PROVE m = e
  <2>1. PICK k \in 1 .. Len(list) : m = list[k]
    BY <1>2
  <2>2. k = Found(sp)
    BY <2>1, FoundIsOnly
  <2> QED
    BY <2>1, <2>2
<1> HIDE DEF e
<1>5. M = IF e.start <= sp /\ sp < e.end /\ ReadWrite(e) THEN {e} ELSE {}
  BY <1>3, <1>4
<1> HIDE DEF M
<1>6. StackOf(list, sp) = {Header(sp, m.end - sp, THREAD, {"content"}) : m \in M}
  BY DEF StackOf, M
<1> QED
  BY <1>5, <1>6 DEF e

LEMMA SentAppend ==
    ASSUME NEW h, Send(h), sent \in Seq(HeaderType), h \in HeaderType, NEW kind
    PROVE  Sent(kind)' = Sent(kind) \cup (IF h.backtraces = kind /\ h.len > 0 THEN {h} ELSE {})
<1>1. sent' = Append(sent, h)
  BY DEF Send
<1>2. ToSet(sent') = ToSet(sent) \cup {h}
  <2>1. ToSet(sent) = {sent[k] : k \in 1 .. Len(sent)}
    BY DEF ToSet
  <2>2. ToSet(sent') = {sent'[k] : k \in 1 .. Len(sent) + 1}
    BY <1>1 DEF ToSet
  <2> DEFINE n == Len(sent)
  <2>3. n \in Nat /\ sent'[n + 1] = h /\ \A k \in 1 .. n : sent'[k] = sent[k]
    BY <1>1
  <2> HIDE DEF n
  <2>4. 1 .. n + 1 = (1 .. n) \cup {n + 1}
    BY <2>3
  <2> QED
    BY <2>1, <2>2, <2>3, <2>4 DEF n
<1> QED
  BY <1>2 DEF Sent

StackInv ==
    ~DisguisedIn(snapshot) =>
        /\ pc \in {"walk", "parse"} => Sent(THREAD) = {}
        /\ pc = "stacks" =>
              /\ next <= Len(snapshot.sps) + 1
              /\ Sent(THREAD) = UNION {StackOf(MappingsOf(snapshot), snapshot.sps[k]) :
                                          k \in 1 .. next - 1}
        /\ pc \in {"globals", "bss"} =>
              Sent(THREAD) = UNION {StackOf(MappingsOf(snapshot), snapshot.sps[k]) :
                                       k \in 1 .. Len(snapshot.sps)}

LEMMA StackInvStep ==
    ASSUME SenderInv, StackInv, [Next]_vars
    PROVE  StackInv'
<1> DEFINE M == MappingsOf(snapshot)
           sps == snapshot.sps
<1>1. snapshot \in Snapshots /\ sps \in Seq(Nat) /\ Len(sps) \in Nat /\ sent \in Seq(HeaderType)
      /\ next \in Nat \ {0}
  BY SnapshotAssumption DEF SenderInv
<1>2. CASE UNCHANGED vars
  BY <1>2 DEF vars, StackInv, Sent
<1>3. CASE SendSome \/ SendLost \/ Killed \/ HangUp
  BY <1>3 DEF SendSome, SendLost, Killed, HangUp, StackInv, Sent
<1>4. ASSUME Child, pc # "stacks", ~DisguisedIn(snapshot)
      PROVE  Sent(THREAD)' = Sent(THREAD)
  <2>1. \/ UNCHANGED sent
        \/ \E h \in HeaderType : Send(h) /\ h.backtraces \in Kinds(pc)
    BY <1>4, ChildSends
  <2>2. ASSUME NEW h \in HeaderType, Send(h), h.backtraces \in Kinds(pc)
        PROVE  Sent(THREAD)' = Sent(THREAD)
    <3>1. h.backtraces # THREAD
      BY <1>4, <2>2 DEF Kinds, THREAD, GLOBAL
    <3>2. Sent(THREAD)' = Sent(THREAD) \cup (IF h.backtraces = THREAD /\ h.len > 0 THEN {h} ELSE {})
      BY <1>1, <2>2, SentAppend
    <3> QED
      BY <3>1, <3>2
  <2> QED
    BY <2>1, <2>2 DEF Sent
<1>5. CASE NotifyChunk \/ WalkEnds
  BY <1>4, <1>5 DEF NotifyChunk, WalkEnds, Child, Sends, GoTo, StackInv
<1>6. CASE ParseMaps
  <2>1. pc = "parse" /\ pc' = "stacks" /\ next' = 1 /\ UNCHANGED snapshot
    BY <1>6 DEF ParseMaps, Sends, GoTo
  <2>2. 1 .. 1 - 1 = {}
    OBVIOUS
  <2> QED
    BY <1>1, <1>4, <1>6, <2>1, <2>2 DEF Child, StackInv
<1>7. CASE SendStack
  <2> SUFFICES ASSUME ~DisguisedIn(snapshot)' PROVE StackInv!2'
    BY DEF StackInv
  <2> DEFINE sp == sps[next]
             e == list[Found(sp)]
             h == Header(sp, e.end - sp, THREAD, {"content"})
  <2>1. /\ pc = "stacks" /\ pc' = "stacks" /\ next' = next + 1 /\ UNCHANGED <<snapshot, list>>
        /\ next <= Len(sps)
        /\ IF e.start <= sp /\ e.end >= sp /\ ReadWrite(e) THEN Send(h) ELSE UNCHANGED sent
    BY <1>7 DEF SendStack, Sends, GoTo
  <2>2. ~DisguisedIn(snapshot)
    BY <2>1
  <2>3. list = M
    BY <1>1, <2>1, <2>2, ListOfMappings DEF SenderInv
  <2>4. list \in Seq(Elements) /\ list # <<>> /\ Ordered(list)
    BY <1>1, <2>3, MappingsOrdered
  <2>5. next \in 1 .. Len(sps) /\ sp \in Nat
    BY <1>1, <2>1
  <2>6. Found(sp) \in DOMAIN list /\ e \in Elements
    <3>1. Found(sp) \in DOMAIN list
      BY <2>4, FoundInList
    <3> QED
      BY <2>4, <3>1
  <2>7. StackOf(list, sp) = IF e.start <= sp /\ sp < e.end /\ ReadWrite(e) THEN {h} ELSE {}
    BY <2>4, <2>5, StackOfFound
  <2> HIDE DEF e, sp
  <2>8. /\ h.backtraces = THREAD /\ h.len = e.end - sp
        /\ e.end >= sp => h \in HeaderType
    BY <2>5, <2>6 DEF Header, HeaderType, Elements, THREAD
  <2>9. e.start \in Nat /\ e.end \in Nat
    BY <2>6 DEF Elements
  <2> HIDE DEF h
  <2>10. Sent(THREAD)' = Sent(THREAD) \cup StackOf(list, sp)
    <3>1. CASE e.start <= sp /\ e.end >= sp /\ ReadWrite(e)
      <4>1. Sent(THREAD)' = Sent(THREAD) \cup (IF h.backtraces = THREAD /\ h.len > 0 THEN {h} ELSE {})
        BY <1>1, <2>1, <2>8, <3>1, SentAppend
      <4>2. h.len > 0 <=> sp < e.end
        BY <2>5, <2>8, <2>9
      <4> QED
        BY <2>7, <2>8, <3>1, <4>1, <4>2
    <3>2. CASE ~(e.start <= sp /\ e.end >= sp /\ ReadWrite(e))
      <4>1. ~(e.start <= sp /\ sp < e.end /\ ReadWrite(e))
        BY <2>5, <2>9, <3>2
      <4> QED
        BY <2>1, <2>7, <3>2, <4>1 DEF Sent
    <3> QED
      BY <3>1, <3>2
  <2>11. Sent(THREAD) = UNION {StackOf(M, sps[k]) : k \in 1 .. next - 1}
    BY <2>1, <2>2 DEF StackInv
  <2>12. 1 .. next' - 1 = (1 .. next - 1) \cup {next}
    BY <1>1, <2>1
  <2> HIDE DEF M, sps
  <2>13. Sent(THREAD)' = UNION {StackOf(M, sps[k]) : k \in 1 .. next' - 1}
    BY <2>3, <2>10, <2>11, <2>12 DEF sp
  <2> QED
    BY <1>1, <2>1, <2>5, <2>13 DEF M, sps
<1>8. CASE StacksEnd
  <2> SUFFICES ASSUME ~DisguisedIn(snapshot)' PROVE StackInv!2'
    BY DEF StackInv
  <2>1. pc = "stacks" /\ pc' = "globals" /\ UNCHANGED <<snapshot, sent>> /\ next > Len(sps)
    BY <1>8 DEF StacksEnd, Sends, GoTo
  <2>2. /\ next <= Len(sps) + 1
        /\ Sent(THREAD) = UNION {StackOf(M, sps[k]) : k \in 1 .. next - 1}
    BY <2>1 DEF StackInv
  <2>3. next - 1 = Len(sps)
    BY <1>1, <2>1, <2>2
  <2> QED
    BY <2>1, <2>2, <2>3 DEF Sent
<1>9. CASE SendData \/ SendBss
  BY <1>4, <1>9 DEF SendData, SendBss, Child, Sends, GoTo, StackInv
<1>10. CASE Finish
  BY <1>10 DEF Finish, GoTo, StackInv
<1> QED
  BY <1>2, <1>3, <1>5, <1>6, <1>7, <1>8, <1>9, <1>10 DEF Next, Sending, Child


LEMMA StackInvInit == Init => StackInv
  BY DEF Init, StackInv, Sent, ToSet

LEMMA StackAlways == AnalysisSpec => []StackInv
<1>1. Init => StackInv
  BY StackInvInit
<1>2. SenderInv /\ StackInv /\ [Next]_vars => StackInv'
  BY StackInvStep
<1> QED
  BY <1>1, <1>2, AnalysisSends, SenderAlways, PTL DEF Spec

LEMMA StackInvSent ==
    ASSUME SenderInv, StackInv
    PROVE  StacksSent
<1> DEFINE sps == snapshot.sps
           M == MappingsOf(snapshot)
<1> SUFFICES ASSUME pc = "globals", ~Disguised
             PROVE  Sent(THREAD) = UNION {StackOf(Mappings, sp) : sp \in ToSet(sps)}
  BY DEF StacksSent, StackOf
<1>1. Mappings = M /\ ~DisguisedIn(snapshot)
  BY DisguisedIsIn
<1>2. Sent(THREAD) = UNION {StackOf(M, sps[k]) : k \in 1 .. Len(sps)}
  BY <1>1 DEF StackInv
<1>3. ToSet(sps) = {sps[k] : k \in 1 .. Len(sps)}
  <2>1. sps \in Seq(Nat)
    BY SnapshotAssumption DEF SenderInv
  <2> QED
    BY <2>1 DEF ToSet
<1> HIDE DEF sps, M
<1> QED
  BY <1>1, <1>2, <1>3

(* Of any process whose paths do not read as mappings, the thread's stacks *)
(* that are sent, each from its sp to the end of the mapping it is in, are *)
(* those of the threads whose sp is in a readable and writable mapping;    *)
(* the search in the list, which takes the element before the bound unless *)
(* sp is right at its start, never finds a mapping next to it.             *)
THEOREM StacksFound == AnalysisSpec => []StacksSent
<1>1. SenderInv /\ StackInv => StacksSent
  BY StackInvSent
<1> QED
  BY <1>1, StackAlways, SenderAlways, PTL


-----------------------------------------------------------------------------
(* The global variables.                                                   *)

(* A sequence collected item by item.                                      *)
Collected(f, N, item, taken) ==
    f = [k \in 0 .. N |-> IF k = 0 THEN <<>>
                          ELSE IF k \in taken THEN Append(f[k - 1], item[k])
                          ELSE f[k - 1]]

LEMMA Collects ==
    ASSUME NEW S, NEW N \in Nat, NEW item \in [1 .. N -> S], NEW taken
    PROVE  \E f : Collected(f, N, item, taken)
<1> DEFINE step == [k \in 1 .. N |-> [x \in Seq(S) |-> IF k \in taken THEN Append(x, item[k]) ELSE x]]
<1>1. step \in [1 .. N -> [Seq(S) -> Seq(S)]] /\ <<>> \in Seq(S)
  OBVIOUS
<1>2. \A k \in 1 .. N : \A x \in Seq(S) :
          step[k][x] = IF k \in taken THEN Append(x, item[k]) ELSE x
  OBVIOUS
<1> HIDE DEF step
<1>3. PICK f \in [0 .. N -> Seq(S)] : Recurs(f, N, <<>>, step)
  BY <1>1, Recursion
<1>4. f = [k \in 0 .. N |-> IF k = 0 THEN <<>> ELSE step[k][f[k - 1]]]
  BY <1>3, Zenon DEF Recurs
<1>5. \A k \in 0 .. N : k = 0 \/ step[k][f[k - 1]] = IF k \in taken THEN Append(f[k - 1], item[k])
                                                    ELSE f[k - 1]
  <2>0. \A k \in 0 .. N : k = 0 \/ (k \in 1 .. N /\ k - 1 \in 0 .. N)
    OBVIOUS
  <2>1. ASSUME NEW k \in 1 .. N, k - 1 \in 0 .. N
        PROVE  step[k][f[k - 1]] = IF k \in taken THEN Append(f[k - 1], item[k]) ELSE f[k - 1]
    <3>1. f[k - 1] \in Seq(S)
      BY <1>3, <2>1
    <3> QED
      BY <1>2, <3>1, Zenon
  <2> QED
    BY <2>0, <2>1, Zenon
<1>6. f = [k \in 0 .. N |-> IF k = 0 THEN <<>>
                            ELSE IF k \in taken THEN Append(f[k - 1], item[k])
                            ELSE f[k - 1]]
  BY <1>4, <1>5
<1>7. Collected(f, N, item, taken)
  BY <1>6, Zenon DEF Collected
<1> QED
  BY <1>7

DataAt(mappings, i) == i \in DOMAIN mappings /\ Data(mappings[i])

BssAt(mappings, i) ==
    /\ DataAt(mappings, i - 1)
    /\ ReadWrite(mappings[i]) /\ ~mappings[i].path /\ mappings[i - 1].end = mappings[i].start

GlobalOf(m) == Header(m.start, m.end - m.start, GLOBAL, {"content"})

(* What is to be sent up to each mapping.                                  *)
GlobalsTo(mappings) ==
    LET upTo[k \in 0 .. Len(mappings)] ==
            IF k = 0 THEN <<>>
            ELSE IF DataAt(mappings, k) \/ BssAt(mappings, k)
            THEN Append(upTo[k - 1], GlobalOf(mappings[k]))
            ELSE upTo[k - 1]
    IN  upTo

(* Those of the records that are global variables.                         *)
GlobalsIn(hs) ==
    LET upTo[k \in 0 .. Len(hs)] ==
            IF k = 0 THEN <<>>
            ELSE IF hs[k].backtraces = GLOBAL THEN Append(upTo[k - 1], hs[k])
            ELSE upTo[k - 1]
    IN  upTo[Len(hs)]

LEMMA GlobalsAre ==
    Globals = GlobalsTo(Mappings)[Len(Mappings)] /\ SentGlobals = GlobalsIn(sent)
  BY DEF Globals, GlobalsTo, IsData, IsBss, DataAt, BssAt, GlobalOf, SentGlobals, GlobalsIn

LEMMA GlobalType ==
    ASSUME NEW m \in Elements
    PROVE  GlobalOf(m) \in HeaderType /\ GlobalOf(m).backtraces = GLOBAL
  BY DEF GlobalOf, Elements, Header, HeaderType, GLOBAL

LEMMA GlobalsToSteps ==
    ASSUME NEW M \in Seq(Elements)
    PROVE  /\ GlobalsTo(M)[0] = <<>>
           /\ \A k \in 1 .. Len(M) :
                 GlobalsTo(M)[k] = IF DataAt(M, k) \/ BssAt(M, k)
                                   THEN Append(GlobalsTo(M)[k - 1], GlobalOf(M[k]))
                                   ELSE GlobalsTo(M)[k - 1]
<1> DEFINE N == Len(M)
           item == [k \in 1 .. N |-> GlobalOf(M[k])]
           taken == {k \in 1 .. N : DataAt(M, k) \/ BssAt(M, k)}
           Is(f) == f = [k \in 0 .. N |-> IF k = 0 THEN <<>>
                                          ELSE IF DataAt(M, k) \/ BssAt(M, k)
                                          THEN Append(f[k - 1], GlobalOf(M[k]))
                                          ELSE f[k - 1]]
           upTo == CHOOSE f : Is(f)
<1>1. N \in Nat /\ \A k \in 1 .. N : M[k] \in Elements
  OBVIOUS
<1>2. item \in [1 .. N -> HeaderType]
  BY <1>1, GlobalType
<1>3. \A k \in 1 .. N : item[k] = GlobalOf(M[k]) /\ (k \in taken <=> DataAt(M, k) \/ BssAt(M, k))
  OBVIOUS
<1>4. GlobalsTo(M) = upTo
  BY DEF GlobalsTo
<1> HIDE DEF N, item, taken
<1>5. PICK f : Collected(f, N, item, taken)
  BY <1>1, <1>2, Collects, Zenon
<1>6. \A k \in 0 .. N : k = 0 \/ k \in 1 .. N
  BY <1>1
<1>7. Is(f)
  BY <1>3, <1>5, <1>6 DEF Collected
<1>8. Is(upTo)
  BY <1>7, Zenon
<1> HIDE DEF upTo
<1>9. 0 \in 0 .. N /\ \A k \in 1 .. N : k \in 0 .. N /\ k # 0
  BY <1>1
<1>10. upTo[0] = <<>>
  BY <1>8, <1>9
<1>11. \A k \in 1 .. N : upTo[k] = IF DataAt(M, k) \/ BssAt(M, k)
                                   THEN Append(upTo[k - 1], GlobalOf(M[k]))
                                   ELSE upTo[k - 1]
  BY <1>8, <1>9
<1> QED
  BY <1>4, <1>10, <1>11 DEF N

LEMMA GlobalsInSteps ==
    ASSUME NEW hs \in Seq(HeaderType)
    PROVE  \E f : /\ f[0] = <<>> /\ GlobalsIn(hs) = f[Len(hs)]
                  /\ \A k \in 1 .. Len(hs) :
                        f[k] = IF hs[k].backtraces = GLOBAL THEN Append(f[k - 1], hs[k])
                               ELSE f[k - 1]
<1> DEFINE N == Len(hs)
           item == [k \in 1 .. N |-> hs[k]]
           taken == {k \in 1 .. N : hs[k].backtraces = GLOBAL}
           Is(f) == f = [k \in 0 .. N |-> IF k = 0 THEN <<>>
                                          ELSE IF hs[k].backtraces = GLOBAL
                                          THEN Append(f[k - 1], hs[k])
                                          ELSE f[k - 1]]
           upTo == CHOOSE f : Is(f)
<1>1. N \in Nat /\ \A k \in 1 .. N : hs[k] \in HeaderType
  OBVIOUS
<1>2. item \in [1 .. N -> HeaderType]
  BY <1>1
<1>3. \A k \in 1 .. N : item[k] = hs[k] /\ (k \in taken <=> hs[k].backtraces = GLOBAL)
  OBVIOUS
<1>4. GlobalsIn(hs) = upTo[N]
  BY DEF GlobalsIn
<1> HIDE DEF N, item, taken
<1>5. PICK f : Collected(f, N, item, taken)
  BY <1>1, <1>2, Collects, Zenon
<1>6. \A k \in 0 .. N : k = 0 \/ k \in 1 .. N
  BY <1>1
<1>7. Is(f)
  BY <1>3, <1>5, <1>6 DEF Collected
<1>8. Is(upTo)
  BY <1>7, Zenon
<1> HIDE DEF upTo
<1>9. 0 \in 0 .. N /\ \A k \in 1 .. N : k \in 0 .. N /\ k # 0
  BY <1>1
<1>10. upTo[0] = <<>>
  BY <1>8, <1>9
<1>11. \A k \in 1 .. N : upTo[k] = IF hs[k].backtraces = GLOBAL THEN Append(upTo[k - 1], hs[k])
                                   ELSE upTo[k - 1]
  BY <1>8, <1>9
<1> QED
  BY <1>4, <1>10, <1>11 DEF N

LEMMA GlobalsInAppend ==
    ASSUME NEW hs \in Seq(HeaderType), NEW h \in HeaderType
    PROVE  GlobalsIn(Append(hs, h)) = IF h.backtraces = GLOBAL THEN Append(GlobalsIn(hs), h)
                                      ELSE GlobalsIn(hs)
<1> DEFINE N == Len(hs)
           gs == Append(hs, h)
<1>1. /\ N \in Nat /\ gs \in Seq(HeaderType) /\ Len(gs) = N + 1
      /\ gs[N + 1] = h /\ \A k \in 1 .. N : gs[k] = hs[k]
  OBVIOUS
<1>2. PICK f : /\ f[0] = <<>> /\ GlobalsIn(hs) = f[N]
               /\ \A k \in 1 .. N : f[k] = IF hs[k].backtraces = GLOBAL THEN Append(f[k - 1], hs[k])
                                           ELSE f[k - 1]
  BY GlobalsInSteps
<1> HIDE DEF gs
<1>3. PICK g : /\ g[0] = <<>> /\ GlobalsIn(gs) = g[Len(gs)]
               /\ \A k \in 1 .. Len(gs) :
                     g[k] = IF gs[k].backtraces = GLOBAL THEN Append(g[k - 1], gs[k]) ELSE g[k - 1]
  BY <1>1, GlobalsInSteps, Zenon
<1> HIDE DEF N
<1> DEFINE Same == {k \in 0 .. N : f[k] = g[k]}
<1>4. 0 \in Same
  BY <1>1, <1>2, <1>3
<1>5. \A k \in 1 .. N : k - 1 \in Same => k \in Same
  <2> SUFFICES ASSUME NEW k \in 1 .. N, f[k - 1] = g[k - 1] PROVE f[k] = g[k]
    BY <1>1
  <2>1. k \in 1 .. Len(gs)
    BY <1>1
  <2> QED
    BY <1>1, <1>2, <1>3, <2>1
<1> HIDE DEF Same
<1>6. 0 .. N \subseteq Same
  BY <1>1, <1>4, <1>5, UpTo
<1>7. f[N] = g[N]
  BY <1>1, <1>6 DEF Same
<1>8. N + 1 \in 1 .. Len(gs) /\ (N + 1) - 1 = N
  BY <1>1
<1>9. g[N + 1] = IF h.backtraces = GLOBAL THEN Append(g[N], h) ELSE g[N]
  BY <1>1, <1>3, <1>8
<1> QED
  BY <1>1, <1>2, <1>3, <1>7, <1>9 DEF gs


(* No two mappings with data are neighbours, and no path reads as one.     *)
Apart(s) ==
    /\ s.full /\ ~DisguisedIn(s)
    /\ \A i \in DOMAIN MappingsOf(s) :
          ~(DataAt(MappingsOf(s), i) /\ DataAt(MappingsOf(s), i + 1))

(* g is what was to be sent before the walk comes to mapping n, back at    *)
(* the first one all of it, and what n follows is no data.                 *)
Walked(mappings, g, n) ==
    /\ g = GlobalsTo(mappings)[IF n = 1 THEN Len(mappings) ELSE n - 1]
    /\ ~DataAt(mappings, n - 1)

GlobalInv ==
    Apart(snapshot) =>
        /\ pc \in {"walk", "parse", "stacks"} => GlobalsIn(sent) = <<>>
        /\ pc = "globals" =>
              IF start THEN next = 1 /\ GlobalsIn(sent) = <<>>
              ELSE Walked(MappingsOf(snapshot), GlobalsIn(sent), next)
        /\ pc = "bss" =>
              /\ next # 1 /\ ~start
              /\ GlobalsIn(sent) = GlobalsTo(MappingsOf(snapshot))[next - 1]
              /\ BssAt(MappingsOf(snapshot), next)
        /\ pc = "end" =>
              GlobalsIn(sent) = GlobalsTo(MappingsOf(snapshot))[Len(MappingsOf(snapshot))]

(* Going on from a mapping that is no data.                                *)
LEMMA WalkGoesOn ==
    ASSUME list \in Seq(Elements), NEW k \in 1 .. Len(list), ~DataAt(list, k)
    PROVE  Walked(list, GlobalsTo(list)[k], m_next(k))
<1>1. DOMAIN list = 1 .. Len(list) /\ Len(list) \in Nat
  OBVIOUS
<1>2. m_next(k) = IF k = Len(list) THEN 1 ELSE k + 1
  BY <1>1, NextInRing
<1>3. ~DataAt(list, 0)
  BY <1>1 DEF DataAt
<1> DEFINE n == Len(list)
<1>4. n \in Nat /\ k \in 1 .. n
  BY <1>1
<1> HIDE DEF n
<1>5. CASE k = n
  BY <1>2, <1>3, <1>5 DEF Walked, n
<1>6. CASE k # n
  <2>1. m_next(k) = k + 1 /\ k + 1 # 1 /\ (k + 1) - 1 = k
    BY <1>2, <1>4, <1>6 DEF n
  <2> QED
    BY <2>1 DEF Walked
<1> QED
  BY <1>5, <1>6

LEMMA GlobalInvInit == Init => GlobalInv
<1> SUFFICES ASSUME Init PROVE GlobalInv
  OBVIOUS
<1>1. sent = <<>> /\ <<>> \in Seq(HeaderType) /\ Len(<<>>) = 0
  BY DEF Init
<1>2. PICK f : f[0] = <<>> /\ GlobalsIn(sent) = f[Len(sent)]
  BY <1>1, GlobalsInSteps
<1>3. GlobalsIn(sent) = <<>>
  BY <1>1, <1>2
<1> QED
  BY <1>3 DEF Init, GlobalInv

LEMMA GlobalSent ==
    ASSUME SenderInv, NEW h \in HeaderType, Send(h)
    PROVE  GlobalsIn(sent') = IF h.backtraces = GLOBAL THEN Append(GlobalsIn(sent), h)
                              ELSE GlobalsIn(sent)
<1>1. sent' = Append(sent, h) /\ sent \in Seq(HeaderType)
  BY DEF Send, SenderInv
<1> QED
  BY <1>1, GlobalsInAppend

LEMMA GlobalInvStep ==
    ASSUME SenderInv, GlobalInv, [Next]_vars
    PROVE  GlobalInv'
<1> DEFINE M == MappingsOf(snapshot)
           N == Len(M)
           U == GlobalsTo(M)
<1>1. CASE UNCHANGED vars
  BY <1>1 DEF vars, GlobalInv
<1>2. CASE SendSome \/ SendLost \/ Killed \/ HangUp
  BY <1>2 DEF SendSome, SendLost, Killed, HangUp, GlobalInv
<1>3. ASSUME NotifyChunk \/ WalkEnds \/ ParseMaps \/ SendStack \/ StacksEnd
      PROVE  GlobalsIn(sent') = GlobalsIn(sent) /\ UNCHANGED snapshot
  <2>1. /\ pc \in {"walk", "parse", "stacks"} /\ UNCHANGED snapshot
        /\ pc = "parse" => UNCHANGED sent
    BY <1>3 DEF NotifyChunk, WalkEnds, ParseMaps, SendStack, StacksEnd, Sends
  <2>2. \/ UNCHANGED sent
        \/ \E h \in HeaderType : Send(h) /\ h.backtraces \in Kinds(pc)
    BY <1>3, ChildSends DEF Child
  <2>3. ASSUME NEW h \in HeaderType, Send(h), h.backtraces \in Kinds(pc), pc # "parse"
        PROVE  GlobalsIn(sent') = GlobalsIn(sent)
    <3>1. h.backtraces # GLOBAL
      BY <2>1, <2>3 DEF Kinds, THREAD, GLOBAL
    <3> QED
      BY <2>3, <3>1, GlobalSent
  <2> QED
    BY <2>1, <2>2, <2>3
<1>4. CASE NotifyChunk \/ WalkEnds \/ ParseMaps \/ SendStack \/ StacksEnd
  <2>1. GlobalsIn(sent') = GlobalsIn(sent) /\ UNCHANGED snapshot
    BY <1>3, <1>4
  <2>2. /\ pc \in {"walk", "parse", "stacks"}
        /\ \/ pc' \in {"walk", "parse", "stacks"}
           \/ pc' = "globals" /\ start' /\ next' = 1
           \/ pc' = "end" /\ ~snapshot.full
    BY <1>4 DEF NotifyChunk, WalkEnds, ParseMaps, SendStack, StacksEnd, Sends, GoTo
  <2> QED
    BY <2>1, <2>2 DEF GlobalInv, Apart
<1>5. ASSUME SendData \/ SendBss \/ Finish, Apart(snapshot)
      PROVE  /\ list = M /\ list \in Seq(Elements) /\ next \in 1 .. N /\ N \in Nat
             /\ DOMAIN list = 1 .. N
             /\ \A k \in 1 .. N : GlobalOf(list[k]) \in HeaderType
             /\ ~DataAt(M, N)
             /\ UNCHANGED snapshot
  <2>1. pc \in {"globals", "bss"} /\ UNCHANGED snapshot
    BY <1>5 DEF SendData, SendBss, Finish, Sends
  <2>2. snapshot \in Snapshots /\ list = parseLines(snapshot.lines) /\ next \in DOMAIN list
    BY <2>1 DEF SenderInv
  <2>3. list = M
    BY <1>5, <2>2, ListOfMappings DEF Apart
  <2>4. list \in Seq(Elements) /\ ~Data(M[N])
    BY <2>2, <2>3, MappingsOrdered
  <2>5. N \in Nat /\ DOMAIN list = 1 .. N /\ \A k \in 1 .. N : list[k] \in Elements
    BY <2>3, <2>4
  <2> QED
    BY <2>1, <2>2, <2>3, <2>4, <2>5, GlobalType DEF DataAt
<1>6. CASE SendBss
  <2> SUFFICES ASSUME Apart(snapshot)' PROVE GlobalInv!2'
    BY DEF GlobalInv
  <2>1. /\ pc = "bss" /\ pc' = "globals" /\ next' = m_next(next) /\ UNCHANGED <<snapshot, start>>
        /\ Send(GlobalOf(list[next]))
    BY <1>6 DEF SendBss, Sends, GoTo, SendElement, GlobalOf
  <2>2. Apart(snapshot)
    BY <2>1
  <2>3. next # 1 /\ ~start /\ GlobalsIn(sent) = U[next - 1] /\ BssAt(M, next)
    BY <2>1, <2>2 DEF GlobalInv
  <2>4. ~DataAt(list, next)
    BY <1>5, <1>6, <2>2, <2>3 DEF BssAt, DataAt, Data
  <2>5. GlobalsIn(sent') = Append(U[next - 1], GlobalOf(list[next]))
    BY <1>5, <1>6, <2>1, <2>2, <2>3, GlobalSent, GlobalType
  <2>6. U[next] = Append(U[next - 1], GlobalOf(list[next]))
    BY <1>5, <1>6, <2>2, <2>3, GlobalsToSteps
  <2>7. Walked(M, U[next], m_next(next))
    BY <1>5, <1>6, <2>2, <2>4, WalkGoesOn
  <2> QED
    BY <2>1, <2>3, <2>5, <2>6, <2>7
<1>7. CASE SendData
  <2> SUFFICES ASSUME Apart(snapshot)' PROVE GlobalInv!2'
    BY DEF GlobalInv
  <2> DEFINE k == next
             c == m_next(k)
  <2>1. /\ pc = "globals" /\ (k # 1 \/ start) /\ ~start' /\ UNCHANGED snapshot
        /\ IF Data(list[k])
           THEN /\ Send(GlobalOf(list[k]))
                /\ IF Follows(k, c) THEN pc' = "bss" /\ next' = c
                   ELSE pc' = "globals" /\ next' = m_next(c)
           ELSE pc' = "globals" /\ next' = c /\ UNCHANGED sent
    BY <1>7 DEF SendData, Sends, GoTo, SendElement, GlobalOf
  <2>2. Apart(snapshot)
    BY <2>1
  <2>3. /\ list = M /\ list \in Seq(Elements) /\ k \in 1 .. N /\ N \in Nat /\ DOMAIN list = 1 .. N
        /\ \A i \in 1 .. N : GlobalOf(list[i]) \in HeaderType
        /\ ~DataAt(M, N)
    BY <1>5, <1>7, <2>2
  <2>4. U[0] = <<>> /\ \A i \in 1 .. N : U[i] = IF DataAt(M, i) \/ BssAt(M, i)
                                                THEN Append(U[i - 1], GlobalOf(M[i]))
                                                ELSE U[i - 1]
    BY <2>3, GlobalsToSteps
  <2>5. GlobalsIn(sent) = U[k - 1] /\ ~DataAt(M, k - 1)
    <3>1. CASE start
      <4>1. k = 1 /\ GlobalsIn(sent) = <<>>
        BY <2>1, <2>2, <3>1 DEF GlobalInv
      <4>2. ~DataAt(M, 0)
        BY <2>3 DEF DataAt
      <4> QED
        BY <2>4, <4>1, <4>2
    <3>2. CASE ~start
      BY <2>1, <2>2, <3>2 DEF GlobalInv, Walked
    <3> QED
      BY <3>1, <3>2
  <2>6. ~BssAt(M, k)
    BY <2>5 DEF BssAt
  <2>7. DataAt(M, k) <=> Data(list[k])
    BY <2>3 DEF DataAt
  <2>8. c = IF k = N THEN 1 ELSE k + 1
    BY <2>3, NextInRing
  <2>9. CASE ~Data(list[k])
    <3>1. GlobalsIn(sent') = U[k]
      BY <2>1, <2>3, <2>4, <2>5, <2>6, <2>7, <2>9
    <3>2. Walked(M, U[k], c)
      BY <2>3, <2>7, <2>9, WalkGoesOn
    <3> QED
      BY <2>1, <2>9, <3>1, <3>2
  <2>10. CASE Data(list[k])
    <3>1. k # N /\ c = k + 1 /\ c \in 1 .. N /\ c # 1 /\ c - 1 = k
      <4>1. k # N
        BY <2>3, <2>7, <2>10
      <4>2. k \in 1 .. N /\ N \in Nat /\ c = IF k = N THEN 1 ELSE k + 1
        BY <2>3, <2>8
      <4> HIDE DEF N, c, k
      <4> QED
        BY <4>1, <4>2
    <3>2. U[k] = Append(U[k - 1], GlobalOf(list[k]))
      BY <2>3, <2>4, <2>7, <2>10
    <3>3. GlobalsIn(sent') = U[k]
      BY <2>1, <2>3, <2>5, <2>10, <3>2, GlobalSent, GlobalType
    <3>4. ~DataAt(M, c)
      BY <2>2, <2>3, <2>7, <2>10, <3>1 DEF Apart
    <3>5. Follows(k, c) <=> BssAt(M, c)
      BY <2>3, <2>7, <2>10, <3>1 DEF Follows, BssAt
    <3> HIDE DEF c
    <3>6. CASE Follows(k, c)
      BY <2>1, <2>10, <3>1, <3>3, <3>5, <3>6
    <3>7. CASE ~Follows(k, c)
      <4>1. U[c] = U[k]
        BY <2>4, <3>1, <3>4, <3>5, <3>7
      <4>2. Walked(M, U[c], m_next(c))
        BY <2>3, <3>1, <3>4, WalkGoesOn
      <4> QED
        BY <2>1, <2>10, <3>3, <3>7, <4>1, <4>2
    <3> QED
      BY <3>6, <3>7
  <2> QED
    BY <2>9, <2>10
<1>8. CASE Finish
  <2> SUFFICES ASSUME Apart(snapshot)' PROVE GlobalInv!2'
    BY DEF GlobalInv
  <2>1. pc = "globals" /\ next = 1 /\ ~start /\ pc' = "end" /\ UNCHANGED <<snapshot, sent>>
    BY <1>8 DEF Finish, Sends, GoTo
  <2>2. Walked(M, GlobalsIn(sent), 1)
    BY <2>1 DEF GlobalInv
  <2> QED
    BY <2>1, <2>2 DEF Walked
<1> QED
  BY <1>1, <1>2, <1>4, <1>6, <1>7, <1>8 DEF Next, Sending, Child

LEMMA GlobalAlways == AnalysisSpec => []GlobalInv
<1>1. Init => GlobalInv
  BY GlobalInvInit
<1>2. SenderInv /\ GlobalInv /\ [Next]_vars => GlobalInv'
  BY GlobalInvStep
<1> QED
  BY <1>1, <1>2, AnalysisSends, SenderAlways, PTL DEF Spec

(* Of any process whose data mappings are no neighbours and whose paths do *)
(* not read as mappings, the loop over the ring of mappings sends all of   *)
(* its global variables, each once and in order, although every match      *)
(* passes over the element behind it and may come past the head.           *)
THEOREM GlobalsFound == AnalysisSpec => []GlobalsSent
<1>1. ASSUME SenderInv, GlobalInv
      PROVE  GlobalsSent
  <2> SUFFICES ASSUME pc = "end", snapshot.full, ~Disguised,
                      \A i \in DOMAIN Mappings : ~(IsData(i) /\ IsData(i + 1))
               PROVE  SentGlobals = Globals
    BY DEF GlobalsSent
  <2>1. Mappings = MappingsOf(snapshot) /\ ~DisguisedIn(snapshot)
    BY <1>1, DisguisedIsIn
  <2>2. Apart(snapshot)
    BY <2>1 DEF Apart, IsData, DataAt
  <2>3. GlobalsIn(sent) = GlobalsTo(Mappings)[Len(Mappings)]
    BY <1>1, <2>1, <2>2 DEF GlobalInv
  <2> QED
    BY <2>3, GlobalsAre
<1> QED
  BY <1>1, GlobalAlways, SenderAlways, PTL
=============================================================================
