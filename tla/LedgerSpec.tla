----------------------------- MODULE LedgerSpec -----------------------------
(***************************************************************************)
(* What the heap ledger promises to the rest of the analyzer: a map from   *)
(* addresses to chunk records that changes one whole call at a time, and   *)
(* reports of it that are snapshots of a single moment.                    *)
(*                                                                         *)
(* HeapInterpose, the model of src/main.cpp and src/HeapInfo.cpp, is shown *)
(* to implement this module.  Nothing here mentions locks, threads, the    *)
(* steps of a call or the steps of a walk.                                 *)
(***************************************************************************)
EXTENDS Naturals

CONSTANTS
    Addr,       \* addresses of heap blocks
    Page,       \* addresses of mapped pages
    HeapInfos,  \* the records a heap block can have
    PageInfo,   \* the record of a page
    NoInfo      \* no record

VARIABLES
    known,      \* address -> its record, or NoInfo
    report      \* the last report sent: a set of [key, len]

vars == <<known, report>>

Key == Addr \cup Page

Recorded == {k \in Key : known[k] # NoInfo}

Init == known = [k \in Key |-> NoInfo] /\ report = {}

(* A call hands out memory: none of it may still be on record.             *)
Register(ks, info) ==
    /\ ks \cap Recorded = {}
    /\ known' = [k \in Key |-> IF k \in ks THEN info ELSE known[k]]
    /\ UNCHANGED report

RegisterBlock == \E a \in Addr, i \in HeapInfos : Register({a}, i)

RegisterPages == \E ps \in SUBSET Page : ps # {} /\ Register(ps, PageInfo)

(* A call takes memory back.                                               *)
Unregister ==
    /\ \E ks \in SUBSET Recorded :
          /\ ks # {}
          /\ ks \subseteq Page \/ \E a \in Addr : ks = {a}
          /\ known' = [k \in Key |-> IF k \in ks THEN NoInfo ELSE known[k]]
    /\ UNCHANGED report

(* A reallocation moves a record, or resizes it in place.                  *)
Renew ==
    /\ \E old, new \in Addr, i \in HeapInfos :
          /\ old \in Recorded
          /\ new = old \/ new \notin Recorded
          /\ known' = [known EXCEPT ![old] = NoInfo, ![new] = i]
    /\ UNCHANGED report

(* Lengths are reported rounded up to whole words.                         *)
Entry(k) ==
    [key |-> k,
     len |-> CHOOSE n \in known[k].size .. known[k].size + 3 : n % 4 = 0]

(* Every recorded block is reported; a page only when it is resident.      *)
Report ==
    /\ \E resident \in SUBSET Page :
          report' = {Entry(k) : k \in Recorded \ (Page \ resident)}
    /\ UNCHANGED known

Next == RegisterBlock \/ RegisterPages \/ Unregister \/ Renew \/ Report

Spec == Init /\ [][Next]_vars
=============================================================================
