------------------------------ MODULE HashTable ------------------------------
(***************************************************************************)
(* The hash table of src/ghash.c as the ledger uses it: insert, remove,    *)
(* lookup and foreach, with open addressing, tombstones and resizing.      *)
(*                                                                         *)
(* The table is one record and every function of the code is an operator   *)
(* from tables to tables.  A slot's hash is UNUSED, TOMBSTONE or real, and *)
(* probing stops only at an UNUSED one.  The arrays keys and values, which *)
(* the code shares until a value differs from its key, are always two      *)
(* here: a chunk record is never its own key.                              *)
(***************************************************************************)
EXTENDS Naturals, FiniteSets

CONSTANTS
    Keys,               \* addresses that may be inserted
    Values,             \* records
    Nil,                \* NULL
    MinShift,           \* HASH_TABLE_MIN_SHIFT
    GuintRange          \* 2^w for a guint of w bits

ASSUME HashKeyAssumption == Keys \subseteq Nat \ {0} /\ Nil \notin Keys \cup Values
ASSUME HashSizeAssumption == MinShift \in 2 .. 5 /\ GuintRange \in Nat \ {0}

(* 1 << n                                                                  *)
Pow2[n \in Nat] == IF n = 0 THEN 1 ELSE 2 * Pow2[n - 1]

(* Sizes are gints and maybe_resize computes four times the nodes: below   *)
(* 2^29 nodes nothing overflows.  Blocks are eight bytes apart, so a 32    *)
(* bit address space has no more.                                          *)
ASSUME HashCountAssumption == IsFiniteSet(Keys) /\ Cardinality(Keys) < Pow2[29]

VARIABLE hash_table

UNUSED_HASH_VALUE == 0
TOMBSTONE_HASH_VALUE == 1
HASH_IS_REAL(h) == h >= 2

(* The primes for shifts 0 to 31.                                          *)
prime_mod ==
    <<1, 2, 3, 7, 13, 31, 61, 127, 251, 509, 1021, 2039, 4093, 8191, 16381, 32749,
      65521, 131071, 262139, 524287, 1048573, 2097143, 4194301, 8388593, 16777213,
      33554393, 67108859, 134217689, 268435399, 536870909, 1073741789, 2147483647>>

Slots(ht) == 0 .. ht.size - 1

Empty(shift) ==
    LET size == Pow2[shift]
    IN  [size |-> size, mod |-> prime_mod[shift + 1], nnodes |-> 0, noccupied |-> 0,
         hashes |-> [i \in 0 .. size - 1 |-> UNUSED_HASH_VALUE],
         keys |-> [i \in 0 .. size - 1 |-> Nil],
         values |-> [i \in 0 .. size - 1 |-> Nil]]

(* keyHash truncates the address to a guint.                               *)
keyHash(k) == k % GuintRange

HashOf(k) == IF HASH_IS_REAL(keyHash(k)) THEN keyHash(k) ELSE 2

(* The slot after n steps of probing for h: each step is one longer.       *)
Probe(ht, h, n) == ((h % ht.mod) + ((n * (n + 1)) \div 2)) % ht.size

(* The first probe of h to hit one of the slots given.                     *)
FirstProbe(ht, h, slots) ==
    CHOOSE n \in Slots(ht) :
        Probe(ht, h, n) \in slots /\ \A m \in 0 .. n - 1 : Probe(ht, h, m) \notin slots

(* The slot of the key; or the first tombstone met on the way to an unused *)
(* slot, or that slot.                                                     *)
lookup_node(ht, k) ==
    LET h == HashOf(k)
        Match(i) == ht.hashes[i] = h /\ ht.keys[i] = k
        stops == {i \in Slots(ht) : ht.hashes[i] = UNUSED_HASH_VALUE \/ Match(i)}
        last == FirstProbe(ht, h, stops)
        tombs == {n \in 0 .. last : ht.hashes[Probe(ht, h, n)] = TOMBSTONE_HASH_VALUE}
    IN  IF Match(Probe(ht, h, last)) \/ tombs = {}
        THEN Probe(ht, h, last)
        ELSE Probe(ht, h, CHOOSE n \in tombs : \A m \in tombs : n <= m)

find_closest_shift(n) == CHOOSE i \in 0 .. n : Pow2[i] > n /\ (i > 0 => Pow2[i - 1] <= n)

shift_from_size(n) ==
    IF find_closest_shift(n) > MinShift THEN find_closest_shift(n) ELSE MinShift

(* Put slot i of the old table where probing in the new one ends.          *)
Rehash(old, new, i) ==
    LET h == old.hashes[i]
        unused == {j \in Slots(new) : new.hashes[j] = UNUSED_HASH_VALUE}
        to == Probe(new, h, FirstProbe(new, h, unused))
    IN  IF ~HASH_IS_REAL(h) THEN new
        ELSE [new EXCEPT !.hashes[to] = h, !.keys[to] = old.keys[i], !.values[to] = old.values[i]]

(* The new table after each number of slots of the old one.                *)
Rehashed(old, new) ==
    LET after[n \in 0 .. old.size] ==
            IF n = 0 THEN new ELSE Rehash(old, after[n - 1], n - 1)
    IN  after

resize(ht) ==
    LET new == [Empty(shift_from_size(2 * ht.nnodes)) EXCEPT
                   !.nnodes = ht.nnodes, !.noccupied = ht.nnodes]
    IN  Rehashed(ht, new)[ht.size]

maybe_resize(ht) ==
    IF \/ ht.size > ht.nnodes * 4 /\ ht.size > Pow2[MinShift]
       \/ ht.size <= ht.noccupied + (ht.noccupied \div 16)
    THEN resize(ht)
    ELSE ht

(* Mutant: a reused tombstone is counted as newly occupied.                *)
insert_node_recounting(ht, i, k, v) ==
    IF HASH_IS_REAL(ht.hashes[i]) THEN [ht EXCEPT !.values[i] = v]
    ELSE maybe_resize([ht EXCEPT !.hashes[i] = HashOf(k), !.keys[i] = k, !.values[i] = v,
                                 !.nnodes = @ + 1, !.noccupied = @ + 1])

insert_node(ht, i, k, v) ==
    LET old_hash == ht.hashes[i]
        new == [ht EXCEPT !.hashes[i] = HashOf(k), !.keys[i] = k, !.values[i] = v,
                          !.nnodes = @ + 1]
    IN  IF HASH_IS_REAL(old_hash) THEN [ht EXCEPT !.values[i] = v]
        ELSE IF old_hash = UNUSED_HASH_VALUE
        THEN maybe_resize([new EXCEPT !.noccupied = @ + 1])
        ELSE new

(* Mutants: no tombstone is erected; the slot keeps its key.               *)
remove_node_unmarked(ht, i) ==
    [ht EXCEPT !.hashes[i] = UNUSED_HASH_VALUE, !.keys[i] = Nil, !.values[i] = Nil,
               !.nnodes = @ - 1, !.noccupied = @ - 1]

remove_node_keeping_key(ht, i) ==
    [ht EXCEPT !.hashes[i] = TOMBSTONE_HASH_VALUE, !.values[i] = Nil, !.nnodes = @ - 1]

remove_node(ht, i) ==
    [ht EXCEPT !.hashes[i] = TOMBSTONE_HASH_VALUE, !.keys[i] = Nil, !.values[i] = Nil,
               !.nnodes = @ - 1]

lookup(ht, k) ==
    LET i == lookup_node(ht, k)
    IN  IF HASH_IS_REAL(ht.hashes[i]) THEN ht.values[i] ELSE Nil

-----------------------------------------------------------------------------
Init == hash_table = Empty(MinShift)

g_hash_table_insert(k, v) == hash_table' = insert_node(hash_table, lookup_node(hash_table, k), k, v)

g_hash_table_remove(k) ==
    LET i == lookup_node(hash_table, k)
    IN  /\ HASH_IS_REAL(hash_table.hashes[i])
        /\ hash_table' = maybe_resize(remove_node(hash_table, i))

Next == \E k \in Keys : g_hash_table_remove(k) \/ \E v \in Values : g_hash_table_insert(k, v)

Spec == Init /\ [][Next]_hash_table

-----------------------------------------------------------------------------
(* Properties.                                                             *)

(* The sizes and the prime belong to one shift, and the three arrays agree *)
(* on which slots are in use.                                              *)
TypeOK ==
    /\ \E shift \in MinShift .. 30 :
          hash_table.size = Pow2[shift] /\ hash_table.mod = prime_mod[shift + 1]
    /\ hash_table.nnodes \in Nat /\ hash_table.noccupied \in Nat
    /\ hash_table.hashes \in [Slots(hash_table) -> Nat]
    /\ hash_table.keys \in [Slots(hash_table) -> Keys \cup {Nil}]
    /\ hash_table.values \in [Slots(hash_table) -> Values \cup {Nil}]
    /\ \A i \in Slots(hash_table) :
          IF HASH_IS_REAL(hash_table.hashes[i])
          THEN hash_table.keys[i] # Nil /\ hash_table.values[i] # Nil
          ELSE hash_table.keys[i] = Nil /\ hash_table.values[i] = Nil

RealSlots == {i \in Slots(hash_table) : HASH_IS_REAL(hash_table.hashes[i])}

Tombs == {i \in Slots(hash_table) : hash_table.hashes[i] = TOMBSTONE_HASH_VALUE}

(* The size fits.  The two counters maybe_resize decides on count the      *)
(* arrays, through every removal, reuse of a tombstone and resize.         *)
(* Probing ends: between calls the probe sequence of every key meets an    *)
(* unused slot, however many tombstones have piled up.  And memory is      *)
(* given back: the table is never more than four times too big.            *)
SizeFits ==
    /\ hash_table.nnodes = Cardinality(RealSlots)
    /\ hash_table.noccupied = Cardinality(RealSlots \cup Tombs)
    /\ \A k \in Keys : \E n \in Slots(hash_table) :
          hash_table.hashes[Probe(hash_table, HashOf(k), n)] = UNUSED_HASH_VALUE
    /\ hash_table.size > Pow2[MinShift] => hash_table.size <= 4 * hash_table.nnodes

(* foreach meets every key that lookup finds once, with lookup's value.    *)
ForeachIsLookup ==
    /\ \A i, j \in RealSlots : hash_table.keys[i] = hash_table.keys[j] => i = j
    /\ \A k \in Keys :
          {hash_table.values[i] : i \in {j \in RealSlots : hash_table.keys[j] = k}}
              = {lookup(hash_table, k)} \ {Nil}

(* Lookup sees a map: what was last inserted for a key and not removed.    *)
Map == INSTANCE MapSpec WITH map <- [k \in Keys |-> lookup(hash_table, k)]

MapSpecHolds == Map!Spec
=============================================================================
