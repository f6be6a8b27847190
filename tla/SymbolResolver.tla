--------------------------- MODULE SymbolResolver ---------------------------
(***************************************************************************)
(* How the preloaded library finds the allocator it wraps: initMyMalloc of *)
(* src/mymalloc.cpp, which reads /proc/self/maps through a buffer of fixed *)
(* size to find libc, the dynamic section of libc in memory, and the       *)
(* symbols through libc's hash table.  No allocator can be used yet.       *)
(*                                                                         *)
(* External: the kernel's maps file, whose reads are short only at its     *)
(* end; the image the linker made and the loader mapped.  A line of the    *)
(* file is its address, its path and what is between them.                 *)
(***************************************************************************)
EXTENDS Integers, SequencesExt

CONSTANTS
    BufSize,        \* buf_size
    Names,          \* the names to resolve, in order, as sequences of bytes
    AbiHash,        \* of each of them, the hash the linker computes
    MapsFiles,      \* /proc/self/maps as it may be: lines [addr, length, path]
    Images          \* libc as it may be; bucket b is bucket[b + 1], chain i is chain[i]

ASSUME BufSizeAssumption == BufSize \in Nat \ {0}

VARIABLES
    maps, image,        \* the process
    file,               \* maps, byte by byte
    pc,
    buf,                \* buf_, one byte longer than BufSize
    endOfLine,          \* -1 for NULL; other positions count from 0
    endOfBuffer,
    endOfFile,
    offset,             \* bytes of the file read so far
    taken,              \* lines readLine has returned
    start,              \* start_
    fields,             \* symTable_, strTable_, strTableSz_, bucket_
    n,                  \* the symbol doFindSym looks at
    my                  \* mymalloc and the others, as far as they are set

process == <<maps, image, file>>
reader == <<buf, endOfLine, endOfBuffer, endOfFile, offset, taken>>
vars == <<process, pc, reader, start, fields, n, my>>

NULL == -1
NUL == 0
Newline == 10
LibcPath == 1       \* a path with "/libc.so" in it

NoFields == [SYMTAB |-> 0, STRTAB |-> 0, STRSZ |-> 0, HASH |-> 0]

-----------------------------------------------------------------------------
(* What the kernel, the linker and the loader make.                        *)

LineType == [addr : Nat \ {NUL, Newline, LibcPath}, length : Nat \ 0 .. 2,
             path : Nat \ {NUL, Newline}]

ASSUME MapsAssumption == MapsFiles \subseteq Seq(LineType)

(* The chain from symbol h leads to symbol t: t is in all that has h and   *)
(* is closed under the chain.                                              *)
Leads(libc, h, t) ==
    \A S \in SUBSET DOMAIN libc.symbols :
        (h \in S /\ \A i \in S : libc.chain[i] \in S \cup {0}) => t \in S

(* The linker gives each symbol a name of its own and hangs those that are *)
(* asked for where the hash says; chains end with 0.                       *)
HashTable(libc) ==
    /\ libc.symbols \in Seq([name : Seq(Nat), value : Nat])
    /\ \A i, j \in DOMAIN libc.symbols :
          libc.symbols[i].name = libc.symbols[j].name => i = j
    /\ libc.bucket \in Seq(0 .. Len(libc.symbols)) /\ libc.bucket # <<>>
    /\ libc.chain \in [DOMAIN libc.symbols -> 0 .. Len(libc.symbols)]
    /\ \A name \in ToSet(Names), t \in DOMAIN libc.symbols :
          LET head == libc.bucket[(AbiHash[name] % Len(libc.bucket)) + 1]
          IN  libc.symbols[t].name = name => head # 0 /\ Leads(libc, head, t)

(* A dynamic section says what it says once, and no table is at 0.         *)
DynamicSection(entries) ==
    /\ entries \in Seq([tag : STRING, value : Nat])
    /\ \A i, j \in DOMAIN entries :
          entries[i].tag \in DOMAIN NoFields =>
              /\ entries[i].value # 0
              /\ entries[i].tag = entries[j].tag => i = j

ASSUME ImagesAssumption ==
    \A libc \in Images :
        /\ HashTable(libc)
        /\ libc.android \in BOOLEAN /\ libc.magic \in BOOLEAN
        /\ \A i \in 1 .. Len(libc.phdrs) : DynamicSection(libc.phdrs[i].entries)

-----------------------------------------------------------------------------
(* External: the file, byte by byte, and the image.                        *)

Text(line) == <<line.addr>> \o [i \in 1 .. line.length - 3 |-> 46] \o <<line.path>>
File(lines) == FlattenSeq([i \in DOMAIN lines |-> Append(Text(lines[i]), Newline)])

(* A pointer in the dynamic section as the loader leaves it: bionic does   *)
(* not change it, glibc adds the base.                                     *)
Relative(tag) == tag \in {"SYMTAB", "STRTAB", "HASH"}
Loaded(entry) == entry.value + (IF Relative(entry.tag) /\ ~image.android THEN start ELSE 0)

-----------------------------------------------------------------------------
(* StackFileReader::readLine.  Past the end of the file the buffer is not  *)
(* terminated again, so what memmove leaves behind the rest stays there.   *)

Lesser(a, b) == IF a < b THEN a ELSE b

(* Mutant: the rest of the buffer is dropped.                              *)
MovedNothing ==
    IF endOfLine = NULL THEN [bytes |-> buf, end |-> endOfBuffer]
    ELSE [bytes |-> buf, end |-> 0]

Moved ==
    IF endOfLine = NULL THEN [bytes |-> buf, end |-> endOfBuffer]
    ELSE LET rest == endOfBuffer - endOfLine
         IN  [bytes |-> [i \in DOMAIN buf |-> IF i < rest THEN buf[i + endOfLine] ELSE buf[i]],
              end |-> rest]

(* Mutant: the room is that of an empty buffer.                            *)
ReadBytesOver(end) == Lesser(BufSize, Len(file) - offset)

(* What read(2) returns for the room that is left.                         *)
ReadBytes(end) == Lesser(BufSize - end, Len(file) - offset)

Filled(moved, count) ==
    [i \in DOMAIN buf |->
        IF i \in moved.end .. moved.end + count - 1
        THEN file[offset + 1 + i - moved.end]
        ELSE IF i = moved.end + count THEN NUL ELSE moved.bytes[i]]

(* strchr(buf_, '\n')                                                      *)
LineEnd(bytes) ==
    LET first == SelectInSeq([i \in 1 .. BufSize + 1 |-> bytes[i - 1]],
                             LAMBDA c : c \in {NUL, Newline})
    IN  IF bytes[first - 1] = Newline THEN first - 1 ELSE NULL

ReadLine ==
    /\ pc = "readLine"
    /\ LET moved == Moved
           count == IF endOfFile THEN 0 ELSE ReadBytes(moved.end)
           bytes == IF endOfFile THEN moved.bytes ELSE Filled(moved, count)
           end == LineEnd(bytes)
       IN  /\ endOfBuffer' = moved.end + count
           /\ offset' = offset + count
           /\ endOfFile' = (endOfFile \/ count = 0)
           /\ IF end = NULL
              THEN /\ pc' = "trap"
                   /\ buf' = bytes /\ endOfLine' = NULL
                   /\ UNCHANGED taken
              ELSE /\ pc' = "examine"
                   /\ buf' = [bytes EXCEPT ![end] = NUL] /\ endOfLine' = end + 1
                   /\ taken' = taken + 1
    /\ UNCHANGED <<process, start, fields, n, my>>

(* What readLine has returned.                                             *)
Line == [i \in 1 .. endOfLine - 1 |-> buf[i - 1]]

(* findLibcAddr: the first mapping with "/libc.so" in its path.            *)
Examine ==
    /\ pc = "examine"
    /\ IF \E i \in DOMAIN Line : Line[i] = LibcPath
       THEN start' = Line[1] /\ pc' = "elf"
       ELSE pc' = "readLine" /\ UNCHANGED start
    /\ UNCHANGED <<process, reader, fields, n, my>>

-----------------------------------------------------------------------------
(* check_elf, deal_with_elf and fill_with_dyn.  Both classes are read the  *)
(* same way, by a template.                                                *)

Base == IF image.android THEN start ELSE 0

(* Of two entries with the same tag the later one counts.                  *)
fill_with_dyn(dyn) ==
    [tag \in DOMAIN NoFields |->
        LET last == SelectLastInSeq(dyn, LAMBDA entry : entry.tag = tag)
        IN  IF last = 0 THEN NoFields[tag]
            ELSE Loaded(dyn[last]) + (IF Relative(tag) THEN Base ELSE 0)]

DealWithElf ==
    /\ pc = "elf"
    /\ LET dynamic == SelectInSeq(image.phdrs, LAMBDA phdr : phdr.type = "DYNAMIC")
           found == fill_with_dyn(image.phdrs[dynamic].entries)
       IN  IF image.magic /\ image.type = "DYN" /\ dynamic # 0
           THEN /\ fields' = found
                /\ pc' = IF \E tag \in DOMAIN found : found[tag] = 0 THEN "trap" ELSE "find"
           ELSE pc' = "trap" /\ UNCHANGED fields
    /\ UNCHANGED <<process, reader, start, n, my>>

-----------------------------------------------------------------------------
(* The symbols.                                                            *)

(* Of two numbers of four bits.                                            *)
Xor(a, b) ==
    LET bit(k) == ((a \div (2 ^ k)) + (b \div (2 ^ k))) % 2
    IN  bit(0) + 2 * bit(1) + 4 * bit(2) + 8 * bit(3)

(* One round of elf_hash: h has 28 bits before it and 32 when it has been  *)
(* shifted; the highest four of them are folded into bits 4 to 7.          *)
HashRound(h, byte) ==
    LET low == ((h % (2 ^ 24)) * 16) + byte
        g == ((h \div (2 ^ 24)) + (low \div (2 ^ 28))) % 16
        folded == (low \div 16) % 16
    IN  (low % (2 ^ 28)) - 16 * folded + 16 * Xor(folded, g)

elf_hash(name) == FoldLeft(HashRound, 0, name)

ASSUME NamesAssumption ==
    /\ Names \in Seq(Seq(1 .. 255)) /\ AbiHash \in [ToSet(Names) -> Nat]
    /\ \A name \in ToSet(Names) : elf_hash(name) = AbiHash[name]

Bucket(name) == image.bucket[(elf_hash(name) % Len(image.bucket)) + 1]

FindSym ==
    /\ pc = "find"
    /\ IF Len(my) = Len(Names)
       THEN pc' = "done" /\ UNCHANGED n
       ELSE /\ n' = Bucket(Names[Len(my) + 1])
            /\ pc' = "walk"
    /\ UNCHANGED <<process, reader, start, fields, my>>

(* Mutant: a name matches what begins with it.                             *)
MatchesPrefix(symbol, name) == IsPrefix(name, symbol.name)

(* strcmp(getString(s->st_name), symName) == 0                             *)
Matches(symbol, name) == symbol.name = name

NextInChain(i) == image.chain[i]

(* doFindSym's loop; a symbol that is not found ends the process.          *)
Walk ==
    /\ pc = "walk"
    /\ CASE n = 0 -> pc' = "trap" /\ UNCHANGED <<n, my>>
         [] n # 0 /\ Matches(image.symbols[n], Names[Len(my) + 1]) ->
                /\ my' = Append(my, start + image.symbols[n].value)
                /\ pc' = "find"
                /\ UNCHANGED n
         [] OTHER -> n' = NextInChain(n) /\ UNCHANGED <<pc, my>>
    /\ UNCHANGED <<process, reader, start, fields>>

-----------------------------------------------------------------------------
Init ==
    /\ maps \in MapsFiles /\ image \in Images /\ file = File(maps)
    /\ pc = "readLine"
    /\ buf = [i \in 0 .. BufSize |-> NUL]
    /\ endOfLine = NULL /\ endOfBuffer = 0 /\ endOfFile = FALSE
    /\ offset = 0 /\ taken = 0
    /\ start = 0 /\ fields = NoFields /\ n = 0 /\ my = <<>>

Next == ReadLine \/ Examine \/ DealWithElf \/ FindSym \/ Walk

Spec == Init /\ [][Next]_vars

-----------------------------------------------------------------------------
(* Properties.                                                             *)

(* Besides the types: the reader stays inside its buffer.                  *)
TypeOK ==
    /\ pc \in {"readLine", "examine", "elf", "find", "walk", "trap", "done"}
    /\ DOMAIN buf = 0 .. BufSize /\ buf[BufSize] = NUL
    /\ endOfBuffer \in 0 .. BufSize /\ endOfLine \in {NULL} \cup 1 .. endOfBuffer
    /\ offset \in 0 .. Len(file) /\ taken \in 0 .. Len(maps)
    /\ n \in 0 .. Len(image.symbols)
    /\ Len(my) <= Len(Names)

(* Every line readLine returns is the file's next line, whole, wherever    *)
(* the buffer's end cuts the lines, and although the buffer is not         *)
(* terminated again after the end of the file.                             *)
LinesWhole == pc = "examine" => Line = Text(maps[taken])

LibcLine == SelectInSeq(maps, LAMBDA line : line.path = LibcPath)

Defines(name) == SelectInSeq(image.symbols, LAMBDA symbol : symbol.name = name)

Dynamic == SelectInSeq(image.phdrs, LAMBDA phdr : phdr.type = "DYNAMIC")

Usable ==
    /\ image.magic /\ image.type = "DYN" /\ Dynamic # 0
    /\ DOMAIN NoFields \subseteq {entry.tag : entry \in ToSet(image.phdrs[Dynamic].entries)}

(* When initMyMalloc returns, it has read libc's own tables, and each      *)
(* pointer is the address of its own symbol in the libc that is mapped     *)
(* first, whatever else shares a bucket or a prefix with it.  And it does  *)
(* return: the process is only stopped when libc cannot be used, for want  *)
(* of a line for it, or with a line up to it that the buffer cannot hold;  *)
(* or it is no shared library with a complete dynamic section; or a symbol *)
(* is not there.                                                           *)
Resolved ==
    /\ pc = "done" =>
        /\ \A entry \in ToSet(image.phdrs[Dynamic].entries) :
              Relative(entry.tag) => fields[entry.tag] = maps[LibcLine].addr + entry.value
        /\ \A i \in DOMAIN Names :
              /\ Defines(Names[i]) # 0
              /\ my[i] = maps[LibcLine].addr + image.symbols[Defines(Names[i])].value
    /\ pc = "trap" =>
        \/ LibcLine = 0
        \/ \E i \in 1 .. LibcLine : maps[i].length > BufSize
        \/ ~Usable
        \/ \E i \in DOMAIN Names : Defines(Names[i]) = 0
=============================================================================
