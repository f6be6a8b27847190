--------------------------- MODULE MCHeapInterpose ---------------------------
(* Constants and symmetry for checking HeapInterpose with TLC.               *)
EXTENDS HeapInterpose, TLC

Symmetry == Permutations(Threads) \cup Permutations(Addr)

(* libc calls the hooks back only while the handler holds the ledger's lock. *)
InLockPcs == {"alloc", "record", "forget"}

AnyLibcPcs == InLockPcs \cup {"release"}

HeapOps == {"malloc", "free", "realloc"}

MixedOps == AllOps \ {"calloc", "memalign"}
=============================================================================
