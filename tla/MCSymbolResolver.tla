-------------------------- MODULE MCSymbolResolver --------------------------
(* Names, files and images for checking SymbolResolver with TLC.           *)
EXTENDS SymbolResolver

Malloc == <<109, 97, 108, 108, 111, 99>>
Free == <<102, 114, 101, 101>>
Calloc == <<99, 97, 108, 108, 111, 99>>
Realloc == <<114, 101, 97, 108, 108, 111, 99>>
Memalign == <<109, 101, 109, 97, 108, 105, 103, 110>>
MallocUsableSize == Malloc \o <<95, 117, 115, 97, 98, 108, 101, 95, 115, 105, 122, 101>>
Mmap == <<109, 109, 97, 112>>
Munmap == <<109, 117, 110, 109, 97, 112>>
ReallocArray == Realloc \o <<97, 114, 114, 97, 121>>

Wanted == <<Malloc, Free, Calloc, Realloc, Memalign, MallocUsableSize, Mmap, Munmap>>

(* The values of the hash the ELF specification defines.                   *)
Abi(name) ==
    CASE name = Malloc -> 121123667 [] name = Free -> 448693
      [] name = Calloc -> 110637907 [] name = Realloc -> 146289443
      [] name = Memalign -> 205007086 [] name = MallocUsableSize -> 50480629
      [] name = Mmap -> 476032 [] name = Munmap -> 122442624
      [] name = ReallocArray -> 34806713

WantedHash == [name \in ToSet(Wanted) |-> Abi(name)]

(* Lines shorter than the buffer of 8 bytes, as long, and longer.          *)
Lines == [length : {3, 4, 8, 9}, path : {LibcPath, 2}]
Maps(k) == {[i \in 1 .. k |-> [addr |-> 100 * i, length |-> f[i].length, path |-> f[i].path]] :
               f \in [1 .. k -> Lines]}
Files == Maps(1) \cup Maps(2) \cup Maps(3)

(* The linker's table: symbol i is followed by the last one before it in   *)
(* its bucket; symbol 0 is nobody's.                                       *)
LastIn(names, b, nBucket, below) ==
    Max({0} \cup {i \in 1 .. below - 1 : Abi(names[i]) % nBucket = b})
Buckets(names, nBucket) == [b \in 1 .. nBucket |-> LastIn(names, b - 1, nBucket, Len(names) + 1)]
Chains(names, nBucket) == [i \in DOMAIN names |-> LastIn(names, Abi(names[i]) % nBucket, nBucket, i)]

Symbols(names) == [i \in DOMAIN names |-> [name |-> names[i], value |-> 16 * i]]

Entry(tag, value) == [tag |-> tag, value |-> value]
Complete == <<Entry("NULL", 0), Entry("HASH", 64), Entry("STRTAB", 80), Entry("SYMTAB", 96),
              Entry("STRSZ", 48), Entry("SONAME", 7)>>

Image(android, nBucket, names, entries) ==
    [magic |-> TRUE, type |-> "DYN", android |-> android,
     bucket |-> Buckets(names, nBucket), chain |-> Chains(names, nBucket),
     symbols |-> Symbols(names),
     phdrs |-> <<[type |-> "LOAD", entries |-> <<>>], [type |-> "DYNAMIC", entries |-> entries]>>]

Good == Image(TRUE, 3, Wanted \o <<ReallocArray>>, Complete)

Libcs == {Good,
          Image(FALSE, 1, <<ReallocArray>> \o Reverse(Wanted), Complete),
          Image(TRUE, 2, Wanted \o <<ReallocArray>>, Complete),
          Image(TRUE, 2, Tail(Wanted), Complete),
          Image(FALSE, 2, Wanted, Tail(Tail(Complete))),
          [Good EXCEPT !.magic = FALSE],
          [Good EXCEPT !.type = "EXEC"],
          [Good EXCEPT !.phdrs = <<Good.phdrs[1]>>]}
=============================================================================
