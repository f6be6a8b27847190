------------------------------- MODULE Unwind -------------------------------
(***************************************************************************)
(* The backtrace taken for every record: ChunkInfo::get of                 *)
(* src/ChunkInfo.cpp and the ARM unwinder of src/backtrace_arm.c.          *)
(*                                                                         *)
(* The unwinder keeps a cursor: where each register of the current frame   *)
(* is saved, the frame's ip and its cfa.  For each frame it looks the ip   *)
(* up in the exidx table, extracts the entry's instructions, and runs them *)
(* on the cursor, which makes it the caller's.                             *)
(*                                                                         *)
(* External: the compiled program.  A function is its place in the code,   *)
(* its table entry (words of four bytes, high byte first), what its        *)
(* prologue does to the stack and the sites its calls return to.           *)
(* Addresses are numbers, and memory holds the words that prologues have   *)
(* saved.                                                                  *)
(***************************************************************************)
EXTENDS Integers, FiniteSets, SequencesExt, TLC

CONSTANTS
    Functions,          \* the table: functions in the order of their addresses
    CodeEnd,            \* end of the code the table covers
    Bottoms,            \* what the outermost frame returns to
    MaxFrames,          \* longest chain of calls
    MAX_BACKTRACES,
    Ignore,             \* innermost frames not recorded
    StackPointer,       \* sp in fast_backtrace
    FramePointers       \* what a word read as a frame pointer may be

Regs == 0 .. 15
SP == 13
LR == 14
PC == 15
FP == 11

ASSUME UnwindBoundAssumption ==
    MAX_BACKTRACES \in Nat /\ Ignore \in Nat /\ MaxFrames \in Nat \ {0}
ASSUME TableAssumption ==
    /\ Functions # <<>> /\ Functions \in Seq(ToSet(Functions))
    /\ CodeEnd \in Nat
    /\ \A i \in DOMAIN Functions : Functions[i].start \in Nat /\ Functions[i].start < CodeEnd
    /\ \A i, j \in DOMAIN Functions : i < j => Functions[i].start < Functions[j].start

VARIABLES
    chain,      \* the calls in progress, outermost first
    bottom,     \* what the outermost frame returns to
    mem,        \* word address -> word
    pc,         \* the step of ChunkInfo::get and what it calls
    cursor,     \* [loc, ip, cfa]
    buf, pos,   \* the instructions extracted, and the next to run
    crawl,      \* stack_crawl_state_t: [count, ignore]
    fast,       \* fast_backtrace: [fp, ignore, size]
    stored,     \* the addresses written to m_backtraces
    len         \* m_backtracesLen

program == <<chain, bottom, mem>>
frameVars == <<cursor, buf, pos>>
vars == <<program, pc, frameVars, crawl, fast, stored, len>>

NULL == 0

-----------------------------------------------------------------------------
(* External: the machine.  A prologue instruction stores registers below   *)
(* sp (r12 stands for the caller's sp, as in an APCS prologue), makes room *)
(* and may set up a frame pointer.                                         *)

StackTop == 9000
RegSlot(r) == 4 * (r + 1)

(* f's words, and g's where f has none.                                    *)
Over(f, g) == [a \in DOMAIN f \cup DOMAIN g |-> IF a \in DOMAIN f THEN f[a] ELSE g[a]]

Prologue(m, op) ==
    LET base == m.reg[SP] - 4 * Len(op.save)
        Stored(r) == IF r = 12 THEN m.reg[SP] ELSE m.reg[r]
        slots == [a \in {base + 4 * (i - 1) : i \in DOMAIN op.save} |->
                     Stored(op.save[(a - base) \div 4 + 1])]
        sp == base - op.room
    IN  [reg |-> IF op.fp = NULL THEN [m.reg EXCEPT ![SP] = sp]
                 ELSE [m.reg EXCEPT ![SP] = sp, ![op.fp] = sp + op.off],
         mem |-> Over(slots, m.mem)]

Prologues(m, ops) ==
    LET after[n \in 0 .. Len(ops)] == IF n = 0 THEN m ELSE Prologue(after[n - 1], ops[n])
    IN  after[Len(ops)]

(* A function runs its prologue, then code that overwrites the registers   *)
(* it has saved, then a call that returns to the call's site.              *)
Run(m, call) ==
    LET f == Functions[call.f]
        in == Prologues(m, f.prologue)
        free == UNION {ToSet(op.save) : op \in ToSet(f.prologue)}
                    \ ({FP} \cup {op.fp : op \in ToSet(f.prologue)})
    IN  [in EXCEPT !.reg = [r \in Regs |->
             IF r \in {LR, PC} THEN f.start + call.site
             ELSE IF r \in free THEN 100000 + 16 * call.f + r
             ELSE in.reg[r]]]

(* The prologues of MaxFrames calls, of whatever functions, fit the stack. *)
StackUse(ops) ==
    LET used[n \in 0 .. Len(ops)] ==
            IF n = 0 THEN 0 ELSE used[n - 1] + (4 * Len(ops[n].save) + ops[n].room)
    IN  used[Len(ops)]

(* A call's site is in its function, behind the first instruction.         *)
ASSUME ProgramAssumption ==
    /\ Bottoms \subseteq Nat
    /\ \A i \in DOMAIN Functions :
          LET f == Functions[i]
              behind == IF i = Len(Functions) THEN CodeEnd ELSE Functions[i + 1].start
          IN  /\ \A site \in f.sites : site \in Nat \ {0} /\ f.start + site < behind
              /\ f.prologue \in Seq([save : Seq(Regs \ {SP}), room : Nat, fp : Regs \ {SP}, off : Nat])
              /\ MaxFrames * (StackUse(f.prologue) + RegSlot(16)) <= StackTop

(* The machine before the first of some calls and after each: the stack    *)
(* frames.                                                                 *)
Frames(calls, base) ==
    LET start == [reg |-> [r \in Regs |-> IF r = SP THEN StackTop
                                          ELSE IF r = LR THEN base ELSE 200000 + r],
                  mem |-> <<>>]
        after[n \in 0 .. Len(calls)] == IF n = 0 THEN start ELSE Run(after[n - 1], calls[n])
    IN  after

(* Memory when the innermost function has stored its registers in a        *)
(* unw_tdep_context_t.                                                     *)
Memory(calls, base) ==
    LET end == Frames(calls, base)[Len(calls)]
    IN  Over([a \in {RegSlot(r) : r \in Regs} |-> end.reg[a \div 4 - 1]], end.mem)

(* dl_unwind_find_exidx: the table of the module the address is in.        *)
HasTable(ip) == ip >= Functions[1].start - 50 /\ ip < CodeEnd

-----------------------------------------------------------------------------
(* The table.                                                              *)

(* The binary search of tdep_search_unwind_table between two entries.      *)
Search(ip) ==
    LET Narrow[at \in (DOMAIN Functions) \X (DOMAIN Functions)] ==
            LET entry == at[1] + ((at[2] - at[1] + 1) \div 2)
            IN  IF at[1] >= at[2] - 1 THEN at[1]
                ELSE IF ip < Functions[entry].start THEN Narrow[<<at[1], entry>>]
                ELSE Narrow[<<entry, at[2]>>]
    IN  Narrow[<<1, Len(Functions)>>]

(* tdep_find_proc_info: the entry for ip, or NULL for UNW_ENOINFO.         *)
FindProcInfo(ip) ==
    IF ~HasTable(ip) \/ ip < Functions[1].start THEN NULL
    ELSE IF ip >= Functions[Len(Functions)].start THEN Len(Functions)
    ELSE Search(ip)

CANT_UNWIND == <<0, 0, 0, 1>>
FINISH == 176
Compact(word) == word[1] >= 128

(* arm_exidx_extract.  The words of an entry are its own second word when  *)
(* that is compact, and otherwise the table entry it points to.  The code  *)
(* asserts that a table entry has at most five more words.                 *)
Instructions(f) ==
    LET w == f.words
        Bytes(first, n) == [k \in 1 .. 4 * n |-> w[first + (k - 1) \div 4][((k - 1) % 4) + 1]]
    IN  IF f.inline THEN Tail(w[1])
        ELSE IF ~Compact(w[1]) THEN Tail(w[2]) \o Bytes(3, w[2][1])
        ELSE IF w[1][1] % 16 \in {1, 2}
        THEN SubSeq(w[1], 3, 4) \o Bytes(2, w[1][2])
        ELSE Tail(w[1])

Extract(f) ==
    LET bytes == Instructions(f)
    IN  IF Last(bytes) # FINISH THEN Append(bytes, FINISH) ELSE bytes

Bits(n) == {r \in 0 .. 11 : (n \div 2 ^ r) % 2 = 1}

(* The operand of "vsp = vsp + 0x204 + (uleb128 << 2)" that starts at i.   *)
UlebLength(b, i) == CHOOSE n \in 1 .. Len(b) + 1 - i : b[i + n - 1] < 128 /\
                                                       \A m \in 1 .. n - 1 : b[i + m - 1] >= 128
Uleb128(b, i) ==
    LET high == UlebLength(b, i)
        sum[n \in 0 .. high] == IF n = 0 THEN 0 ELSE 128 * sum[n - 1] + (b[i + high - n] % 128)
    IN  sum[high]

Move(n, bytes) == [cmd |-> "MOVE", by |-> n, regs |-> {}, size |-> bytes]
Pop(regs, bytes) == [cmd |-> "REG_POP", by |-> 0, regs |-> regs, size |-> bytes]
Refuse == [cmd |-> "REFUSED", by |-> 0, regs |-> {}, size |-> 2]

(* arm_exidx_decode: the instruction at i and the bytes it takes.  Popping *)
(* VFP, iWMMXt and control registers only moves the cfa.                   *)
DecodeAt(b, i) ==
    LET op == b[i]
        op2 == b[i + 1]
    IN  CASE op \in 0 .. 63 -> Move((4 * op) + 4, 1)
          [] op \in 64 .. 127 -> Move(-((4 * (op % 64)) + 4), 1)
          [] op \in 128 .. 143 ->
                IF op = 128 /\ op2 = 0 THEN Refuse
                ELSE Pop({r + 4 : r \in Bits(((op % 16) * 256) + op2)}, 2)
          [] op \in 144 .. 159 \ {144 + SP, 144 + PC} ->
                [cmd |-> "REG_TO_SP", by |-> op % 16, regs |-> {}, size |-> 1]
          [] op \in 160 .. 175 ->
                Pop((4 .. 4 + (op % 8)) \cup (IF op % 16 >= 8 THEN {LR} ELSE {}), 1)
          [] op = FINISH -> [cmd |-> "FINISH", by |-> 0, regs |-> {}, size |-> Len(b) + 1 - i]
          [] op = 177 -> IF op2 \in 1 .. 15 THEN Pop(Bits(op2), 2) ELSE Refuse
          [] op = 178 -> Move(516 + (4 * Uleb128(b, i + 1)), 1 + UlebLength(b, i + 1))
          [] op = 179 -> Move(8 * ((op2 % 16) + 1) + 4, 2)
          [] op \in {198, 200, 201} -> Move(8 * ((op2 % 16) + 1), 2)
          [] op \in 184 .. 191 -> Move(8 * ((op % 8) + 1) + 4, 1)
          [] op \in 192 .. 197 \cup 208 .. 215 -> Move(8 * ((op % 8) + 1), 1)
          [] op = 199 -> IF op2 \in 1 .. 15 THEN Move(4 * Cardinality(Bits(op2)), 2) ELSE Refuse
          [] OTHER -> Refuse

(* The places where the instructions of an entry begin.                    *)
Begins(b) ==
    LET upTo[n \in 0 .. Len(b)] ==
            IF n = 0 THEN {1}
            ELSE upTo[n - 1] \cup {i \in {n + 1} :
                                      \E j \in upTo[n - 1] : j + DecodeAt(b, j).size = i}
    IN  upTo[Len(b)]

(* Entries have as many words as they say, of which the code asserts that  *)
(* they are at most five; and no operand of a "vsp = vsp + 0x204 + ..."    *)
(* runs over the end.                                                      *)
ASSUME EntriesAssumption ==
    \A i \in DOMAIN Functions :
        LET w == Functions[i].words
            b == Extract(Functions[i])
            more == IF Compact(w[1]) THEN w[1][2] ELSE w[2][1]
        IN  w # <<CANT_UNWIND>> =>
                /\ w \in Seq([1 .. 4 -> 0 .. 255]) /\ w # <<>>
                /\ Functions[i].inline \in BOOLEAN
                /\ ~Functions[i].inline /\ (Compact(w[1]) => w[1][1] % 16 \in {1, 2}) =>
                      more \in 0 .. 5 /\ Len(w) = more + (IF Compact(w[1]) THEN 1 ELSE 2)
                /\ \A j \in Begins(b) : j <= Len(b) /\ b[j] = 178 =>
                                           \E k \in j + 1 .. Len(b) : b[k] < 128

(* dwarf_get; a word no prologue has saved reads as 0.                     *)
WordIn(words, a) == IF a \in DOMAIN words THEN words[a] ELSE 0
Word(a) == WordIn(mem, a)

(* Mutant: a popped sp does not replace the cfa.                           *)
PopMoves(c, regs) ==
    [c EXCEPT !.loc = [r \in Regs |-> IF r \in regs
                                      THEN c.cfa + 4 * Cardinality({q \in regs : q < r})
                                      ELSE c.loc[r]],
              !.cfa = @ + 4 * Cardinality(regs)]

(* arm_exidx_apply_cmd for the commands that do not fail.                  *)
PopRegs(c, regs) ==
    LET loc == [r \in Regs |-> IF r \in regs
                               THEN c.cfa + 4 * Cardinality({q \in regs : q < r})
                               ELSE c.loc[r]]
    IN  [c EXCEPT !.loc = loc,
                  !.cfa = IF SP \in regs THEN Word(loc[SP]) ELSE @ + 4 * Cardinality(regs)]

Apply(c, edata) ==
    CASE edata.cmd = "MOVE" -> [c EXCEPT !.cfa = @ + edata.by]
      [] edata.cmd = "REG_POP" -> PopRegs(c, edata.regs)
      [] edata.cmd = "REG_TO_SP" ->
            [c EXCEPT !.loc[SP] = c.loc[edata.by], !.cfa = Word(c.loc[edata.by])]
      [] edata.cmd = "FINISH" ->
            LET saved == IF c.loc[PC] = NULL THEN c.loc[LR] ELSE c.loc[PC]
            IN  [c EXCEPT !.loc[PC] = saved, !.ip = Word(saved)]

-----------------------------------------------------------------------------
(* The backtrace.                                                          *)

(* ChunkInfo::get clears the record and calls mybacktrace, whose           *)
(* init_dwarf points the cursor at the registers just stored.              *)
Begin ==
    /\ pc = "get"
    /\ pc' = "step"
    /\ cursor' = [loc |-> [r \in Regs |-> RegSlot(r)],
                  ip |-> Word(RegSlot(PC)), cfa |-> Word(RegSlot(SP))]
    /\ UNCHANGED <<program, buf, pos, crawl, fast, stored, len>>

(* arm_exidx_step finds the frame's entry; without one, or with one that   *)
(* cannot be unwound, the trace ends.                                      *)
Step ==
    /\ pc = "step"
    /\ cursor' = [cursor EXCEPT !.loc[PC] = NULL]
    /\ LET entry == FindProcInfo(cursor.ip)
       IN  IF entry = NULL \/ (entry # NULL /\ Functions[entry].words = <<CANT_UNWIND>>)
           THEN pc' = "return" /\ UNCHANGED <<buf, pos>>
           ELSE /\ buf' = Extract(Functions[entry])
                /\ pos' = 1
                /\ pc' = "decode"
    /\ UNCHANGED <<program, crawl, fast, stored, len>>

(* An error is a negative result, which mybacktrace does not tell from     *)
(* success: the address it has is handed on once more.                     *)
Decode ==
    /\ pc = "decode" /\ pos <= Len(buf)
    /\ LET edata == DecodeAt(buf, pos)
       IN  IF edata.cmd = "REFUSED"
           THEN pc' = "callback" /\ UNCHANGED <<cursor, pos>>
           ELSE /\ cursor' = Apply(cursor, edata)
                /\ pos' = pos + edata.size
                /\ UNCHANGED pc
    /\ UNCHANGED <<program, buf, crawl, fast, stored, len>>

Stepped ==
    /\ pc = "decode" /\ pos > Len(buf)
    /\ pc' = IF cursor.ip = 0 THEN "return" ELSE "callback"
    /\ UNCHANGED <<program, frameVars, crawl, fast, stored, len>>

(* Mutant: a frame that is not recorded is counted as one that is.         *)
CallbackCounts ==
    /\ pc = "callback"
    /\ pc' = "step"
    /\ crawl' = [crawl EXCEPT !.count = @ - 1]
    /\ stored' = IF crawl.ignore > 0 THEN stored ELSE Append(stored, cursor.ip)
    /\ UNCHANGED <<program, frameVars, fast, len>>

(* trace_function.                                                         *)
Callback ==
    /\ pc = "callback"
    /\ pc' = IF crawl.count > 0 THEN "step" ELSE "return"
    /\ IF crawl.count = 0 \/ cursor.ip = 0 THEN UNCHANGED <<crawl, stored>>
       ELSE IF crawl.ignore > 0
       THEN crawl' = [crawl EXCEPT !.ignore = @ - 1] /\ UNCHANGED stored
       ELSE crawl' = [crawl EXCEPT !.count = @ - 1] /\ stored' = Append(stored, cursor.ip)
    /\ UNCHANGED <<program, frameVars, fast, len>>

(* Mutant: the frame pointers are tried whenever the record is not full.   *)
UnwoundPartly ==
    /\ pc = "return"
    /\ pc' = "fast"
    /\ \E fp \in FramePointers :
          fast' = [fp |-> fp, ignore |-> Ignore, size |-> MAX_BACKTRACES]
    /\ UNCHANGED <<program, frameVars, crawl, stored, len>>

(* backtrace: with nothing found, try the frame pointers.                  *)
Unwound ==
    /\ pc = "return"
    /\ IF crawl.count = MAX_BACKTRACES
       THEN /\ pc' = "fast"
            /\ \E fp \in FramePointers :
                  fast' = [fp |-> fp, ignore |-> Ignore, size |-> MAX_BACKTRACES]
            /\ UNCHANGED len
       ELSE pc' = "end" /\ len' = MAX_BACKTRACES - crawl.count /\ UNCHANGED fast
    /\ UNCHANGED <<program, frameVars, crawl, stored>>

OnStack(fp) == fp # NULL /\ fp >= StackPointer /\ fp <= StackPointer + (4096 * 100)

(* Mutant: an ignored frame is not counted off.                            *)
FastStepIgnores ==
    /\ pc = "fast" /\ OnStack(fast.fp) /\ fast.size > 0
    /\ \E fp \in FramePointers :
          IF fast.ignore > 0
          THEN fast' = [fast EXCEPT !.fp = fp] /\ UNCHANGED stored
          ELSE /\ fast' = [fast EXCEPT !.fp = fp, !.size = @ - 1]
               /\ stored' = Append(stored, fast.fp + 4)
    /\ UNCHANGED <<program, pc, frameVars, crawl, len>>

(* One round of fast_backtrace.  The words at the frame pointer may be     *)
(* anything; the address stored is named by the place it is read from.     *)
FastStep ==
    /\ pc = "fast" /\ OnStack(fast.fp) /\ fast.size > 0
    /\ \E fp \in FramePointers :
          IF fast.ignore > 0
          THEN /\ fast' = [fp |-> fp, ignore |-> fast.ignore - 1, size |-> fast.size]
               /\ UNCHANGED stored
          ELSE /\ fast' = [fp |-> fp, ignore |-> 0, size |-> fast.size - 1]
               /\ stored' = Append(stored, fast.fp + 4)
    /\ UNCHANGED <<program, pc, frameVars, crawl, len>>

(* The fallback's length is not used: its caller returns crawl's.          *)
FastDone ==
    /\ pc = "fast" /\ ~(OnStack(fast.fp) /\ fast.size > 0)
    /\ pc' = "end"
    /\ len' = MAX_BACKTRACES - crawl.count
    /\ UNCHANGED <<program, frameVars, crawl, fast, stored>>

-----------------------------------------------------------------------------
Calls == UNION {[f : {f}, site : Functions[f].sites] : f \in DOMAIN Functions}
Chains == UNION {[1 .. n -> Calls] : n \in 1 .. MaxFrames}

Init ==
    /\ chain \in Chains
    /\ bottom \in Bottoms
    /\ mem = Memory(chain, bottom)
    /\ pc = "get"
    /\ cursor = [loc |-> [r \in Regs |-> NULL], ip |-> 0, cfa |-> 0]
    /\ buf = <<>> /\ pos = 1
    /\ crawl = [count |-> MAX_BACKTRACES, ignore |-> Ignore]
    /\ fast = [fp |-> NULL, ignore |-> 0, size |-> 0]
    /\ stored = <<>> /\ len = 0

Next ==
    \/ Begin \/ Step \/ Decode \/ Stepped \/ Callback \/ Unwound
    \/ FastStep \/ FastDone

Spec == Init /\ [][Next]_vars

(* One thread runs this code, without a call that blocks.                  *)
FairSpec == Spec /\ WF_vars(Next)

-----------------------------------------------------------------------------
(* Properties.                                                             *)

(* Besides the types: the extracted instructions fit the code's 32 bytes,  *)
(* and none is read past their end.                                        *)
TypeOK ==
    /\ pc \in {"get", "step", "decode", "callback", "return", "fast", "end"}
    /\ cursor \in [loc : [Regs -> Int], ip : Nat, cfa : Int]
    /\ Len(buf) <= 32 /\ pos \in 1 .. Len(buf) + 1
    /\ crawl \in [count : 0 .. MAX_BACKTRACES, ignore : 0 .. Ignore]
    /\ fast \in [fp : FramePointers \cup {NULL}, ignore : 0 .. Ignore,
                 size : 0 .. MAX_BACKTRACES]
    /\ len \in 0 .. MAX_BACKTRACES

(* Whatever the tables, the stack and the frame pointers hold, a backtrace *)
(* writes inside the record's array and never tells a length that covers   *)
(* words it did not write.                                                 *)
StoreInBounds ==
    /\ Len(stored) <= MAX_BACKTRACES
    /\ pc = "end" => len <= Len(stored)

(* What the callers are: frame i of the chain returns into frame i - 1,    *)
(* and the trace ends at the first frame that cannot be unwound, or that   *)
(* returns to nothing.                                                     *)
Returns(i) == IF i = 1 THEN bottom ELSE Functions[chain[i - 1].f].start + chain[i - 1].site

Opaque(i) == Functions[chain[i].f].words = <<CANT_UNWIND>>

Outermost ==
    LET last == CHOOSE i \in 0 .. Len(chain) : /\ i > 0 => Opaque(i)
                                               /\ \A j \in i + 1 .. Len(chain) : ~Opaque(j)
    IN  IF last = 0 /\ bottom = 0 THEN 1 ELSE last

Callers == [k \in 1 .. Len(chain) - Outermost |-> Returns(Len(chain) + 1 - k)]

Recorded ==
    LET all == Len(Callers)
        end == IF all < Ignore + MAX_BACKTRACES THEN all ELSE Ignore + MAX_BACKTRACES
    IN  SubSeq(Callers, Ignore + 1, end)

Refuses(f) == SubSeq(Extract(f), 1, 2) = <<128, 0>>

(* The record of an allocation holds its callers, innermost first, without *)
(* the library's own frames, as many as fit: for every shape of prologue,  *)
(* also those that move sp by a frame pointer or save sp itself.           *)
CallersFound ==
    (pc = "end" /\ Recorded # <<>>
       /\ \A i \in DOMAIN chain : ~Refuses(Functions[chain[i].f])) =>
        /\ stored = Recorded
        /\ len = Len(stored)

(* A backtrace returns, although it runs through tables and a stack that   *)
(* may repeat themselves.                                                  *)
BacktraceEnds == <>(pc = "end")
=============================================================================
