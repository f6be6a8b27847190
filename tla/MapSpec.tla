------------------------------- MODULE MapSpec -------------------------------
(***************************************************************************)
(* A map from keys to values, as the callers of src/ghash.c see it.        *)
(***************************************************************************)
CONSTANTS Keys, Values, Nil

VARIABLE map

Init == map = [k \in Keys |-> Nil]

Insert(k, v) == map' = [map EXCEPT ![k] = v]

Remove(k) == map' = [map EXCEPT ![k] = Nil]

Next == \E k \in Keys : Remove(k) \/ \E v \in Values : Insert(k, v)

Spec == Init /\ [][Next]_map
=============================================================================
