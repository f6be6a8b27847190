----------------------------- MODULE MCAnalysis -----------------------------
(* Address spaces of up to four mappings, and heaps of up to four          *)
(* allocations that point to each other, for checking SnapshotStream and   *)
(* Analysis.                                                               *)
EXTENDS Analysis

Piece(from, to, protect, path) ==
    [dash |-> TRUE, blank |-> TRUE, start |-> from, end |-> to, protect |-> protect, path |-> path]

Kinds == {[protect |-> {"r", "w"}, path |-> TRUE], [protect |-> {"r", "w"}, path |-> FALSE],
          [protect |-> {"r", "x"}, path |-> TRUE], [protect |-> {"r", "w", "s"}, path |-> TRUE]}

(* Mapping i takes two words, and is moved up by its gap.                  *)
Line(i, kind, gap) == <<Piece((3 * i) + gap, (3 * i) + 2 + gap, kind.protect, kind.path)>>
Vectors == <<Piece(40, 41, {"r", "x"}, FALSE)>>

(* Gaps that never fall make neighbours adjoin or not.                     *)
Spaces(n) ==
    {[i \in 1 .. n |-> Line(i, f[i].kind, f[i].gap)] \o <<Vectors>> :
        f \in [1 .. n -> [kind : Kinds, gap : {0, 1}]]}

(* What is left of a path after 511 bytes.                                 *)
Plain == [Piece(0, 0, {}, FALSE) EXCEPT !.dash = FALSE]
Hyphenated == [Piece(0, 0, {}, FALSE) EXCEPT !.blank = FALSE]
Disguise == Piece(10, 11, {"r", "w"}, FALSE)
Long(kind) ==
    {<<Append(Line(1, kind, 0), rest), Line(2, kind, 0), Vectors>> :
        rest \in {Plain, Hyphenated, Disguise}}

Chunk(addr, size, backtraces, mmap, resident) ==
    [addr |-> addr, size |-> size, backtraces |-> backtraces, mmap |-> mmap, resident |-> resident]
Ledger == <<Chunk(100, 5, 2, FALSE, TRUE), Chunk(200, 0, 0, FALSE, TRUE),
            Chunk(300, 8, 1, TRUE, TRUE), Chunk(400, 8, 1, TRUE, FALSE)>>

NoWords == [a \in {} |-> 0]
Full(chunks, lines, sps) ==
    [full |-> TRUE, chunks |-> chunks, lines |-> lines, sps |-> sps, words |-> NoWords]

AddressSpaces ==
    {[full |-> FALSE, chunks |-> Ledger, lines |-> <<Vectors>>, sps |-> <<>>,
      words |-> NoWords],
     Full(Ledger, <<Line(1, [protect |-> {"r", "w"}, path |-> FALSE], 0), Vectors>>, <<3, 4>>)}
      \cup {Full(<<>>, lines, <<sp>>) :
               lines \in Spaces(2) \cup UNION {Long(kind) : kind \in Kinds},
               sp \in {2, 3, 4, 5, 6, 7, 8, 9, 40, 50}}
      \cup {Full(<<>>, lines, <<>>) : lines \in Spaces(3)}

(* Heaps between a page of global variables, at 4, and a stack, at 66.     *)
Heap(chunks, words) ==
    [full |-> TRUE, chunks |-> chunks, sps |-> <<66>>, words |-> words,
     lines |-> <<<<Piece(4, 6, {"r", "w"}, TRUE)>>, <<Piece(64, 68, {"r", "w"}, FALSE)>>,
                 <<Piece(80, 81, {"r", "x"}, FALSE)>>>>]

(* Roots and allocations that point to starts, inside, right behind and    *)
(* between allocations, of which the first two are neighbours.             *)
Reachable ==
    {Heap(<<Chunk(20, 8, 1, FALSE, TRUE), Chunk(12, 8, 1, FALSE, TRUE),
            Chunk(10, 8, 1, FALSE, TRUE), Chunk(30, 4, 1, TRUE, TRUE)>>,
          (5 :> g) @@ (67 :> s) @@ (11 :> a) @@ (12 :> b) @@ (21 :> c)) :
        g \in {0, 12, 14}, s \in {0, 11, 22}, a \in {0, 9, 12, 20}, b \in {0, 13, 21, 23},
        c \in {0, 10, 66}}

(* Leaked allocations, and whom they point to: four, or five in two pairs  *)
(* and one that may join them.                                             *)
Unrooted(n, words) ==
    Heap([i \in 1 .. n |-> Chunk(10 * i, 8, IF i = 2 THEN 0 ELSE 1, FALSE, TRUE)], words)
Leaks ==
    {Unrooted(4, (10 :> p) @@ (20 :> q) @@ (30 :> r) @@ (40 :> t[1]) @@ (41 :> t[2])) :
        p \in {0, 20, 30, 40}, q \in {0, 10, 31, 40}, r \in {0, 11, 40},
        t \in {<<0, 0>>, <<10, 0>>, <<20, 0>>, <<30, 30>>, <<32, 10>>, <<20, 30>>}}
      \cup {Unrooted(5, (20 :> 10) @@ (40 :> 30) @@ (50 :> p) @@ (51 :> q)) :
               p \in {0, 10, 30, 40}, q \in {10, 20, 40}}

(* Allocations inside the stack's mapping, above its sp and on its page,   *)
(* and around and inside the global variables.                             *)
Collisions ==
    {[Heap(chunks, (8 :> g) @@ (9 :> 44) @@ (17 :> s) @@ (20 :> 44) @@ (40 :> 48)) EXCEPT
        !.lines = <<<<Piece(8, 10, {"r", "w"}, TRUE)>>, <<Piece(16, 28, {"r", "w"}, FALSE)>>,
                    <<Piece(60, 61, {"r", "x"}, FALSE)>>>>, !.sps = <<sp>>] :
        g \in {0, 40}, s \in {0, 40}, sp \in {16, 17},
        chunks \in {<<Chunk(20, 8, 1, FALSE, TRUE), Chunk(40, 4, 1, FALSE, TRUE),
                      Chunk(44, 4, 1, FALSE, TRUE), Chunk(48, 4, 1, FALSE, TRUE)>>,
                    <<Chunk(7, 8, 1, FALSE, TRUE), Chunk(17, 4, 1, FALSE, TRUE),
                      Chunk(40, 4, 1, FALSE, TRUE), Chunk(44, 4, 1, FALSE, TRUE)>>,
                    <<Chunk(24, 4, 1, TRUE, TRUE), Chunk(26, 4, 1, FALSE, TRUE),
                      Chunk(40, 4, 1, FALSE, TRUE)>>,
                    <<Chunk(16, 4, 1, FALSE, TRUE), Chunk(40, 4, 1, FALSE, TRUE)>>,
                    <<Chunk(18, 4, 1, FALSE, TRUE), Chunk(40, 4, 1, FALSE, TRUE)>>}}

AllSnapshots == AddressSpaces \cup Reachable \cup Leaks \cup Collisions
=============================================================================
