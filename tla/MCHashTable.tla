---------------------------- MODULE MCHashTable ----------------------------
(* Instances of HashTable for TLC.  Guints of four bits let addresses share *)
(* a hash (5 and 21) and meet the two reserved values (16 and 33).          *)
EXTENDS HashTable

FewKeys == {5, 16, 21, 33}
=============================================================================
