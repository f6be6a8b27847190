---------------------------- MODULE UnwindFrames ----------------------------
(***************************************************************************)
(* What the unwinder of Unwind takes for granted of the program: that the  *)
(* table entry of a function, read as the ARM exception handling ABI says, *)
(* undoes the function's prologue.                                         *)
(*                                                                         *)
(* The ABI's reader has values where the code's cursor has places: the     *)
(* virtual registers whose values are known, and the virtual sp.  It does  *)
(* what the ABI says of the instructions that the code's DecodeAt reads;   *)
(* that these are the ones the bytes mean shows where a table is written   *)
(* by the ABI, byte for byte, as in MCUnwind.                              *)
(***************************************************************************)
EXTENDS Unwind

(* The registers that a function leaves as it found them.                  *)
Preserved == 4 .. 11

(* The reader when it begins with a frame, whose machine is m.             *)
Entered(m) ==
    [val |-> [r \in Preserved |-> m.reg[r]], vsp |-> m.reg[SP], ip |-> m.reg[PC]]

Popped(v, words, regs) ==
    LET Slot(r) == v.vsp + 4 * Cardinality({q \in regs : q < r})
    IN  [val |-> Over([r \in regs \ {SP} |-> WordIn(words, Slot(r))], v.val),
         vsp |-> IF SP \in regs THEN WordIn(words, Slot(SP)) ELSE v.vsp + 4 * Cardinality(regs),
         ip |-> v.ip]

Finished(v) ==
    LET to == v.val[IF PC \in DOMAIN v.val THEN PC ELSE LR]
    IN  [val |-> Over([r \in {PC} |-> to], v.val), vsp |-> v.vsp, ip |-> to]

Executed(v, words, edata) ==
    CASE edata.cmd = "MOVE" -> [val |-> v.val, vsp |-> v.vsp + edata.by, ip |-> v.ip]
      [] edata.cmd = "REG_POP" -> Popped(v, words, edata.regs)
      [] edata.cmd = "REG_TO_SP" -> [val |-> v.val, vsp |-> v.val[edata.by], ip |-> v.ip]
      [] edata.cmd = "FINISH" -> Finished(v)

(* It pops from the frame or the frames that called it, moves sp by a      *)
(* register it knows, and finishes when it knows where the call returns.   *)
Allowed(v, m, edata) ==
    \/ edata.cmd = "MOVE"
    \/ edata.cmd = "REG_POP" /\ v.vsp >= m.reg[SP]
    \/ edata.cmd = "REG_TO_SP" /\ edata.by \in DOMAIN v.val
    \/ edata.cmd = "FINISH" /\ {LR, PC} \cap DOMAIN v.val # {}

(* The reader after each of an entry's instructions.                       *)
Execution(b, m) ==
    LET run[n \in 0 .. Len(b)] ==
            IF n = 0 THEN [pos |-> 1, v |-> Entered(m)]
            ELSE LET s == run[n - 1]
                     edata == DecodeAt(b, s.pos)
                 IN  [pos |-> s.pos + edata.size, v |-> Executed(s.v, m.mem, edata)]
    IN  run

(* The first n instructions of b are all of them and, run on the machine m *)
(* of a call, restore what the caller goes on with.                        *)
RestoresAfter(n, b, m, caller) ==
    LET run == Execution(b, m)
        end == run[n]
    IN  /\ \A k \in 0 .. n - 1 :
              run[k].pos <= Len(b) /\ Allowed(run[k].v, m, DecodeAt(b, run[k].pos))
        /\ end.pos = Len(b) + 1
        /\ end.v.ip = caller.reg[LR]
        /\ end.v.vsp = caller.reg[SP]
        /\ \A r \in Preserved : r \in DOMAIN end.v.val /\ end.v.val[r] = caller.reg[r]

Restores(b, m, caller) == \E n \in 0 .. Len(b) : RestoresAfter(n, b, m, caller)

ASSUME FramesAssumption ==
    \A calls \in Chains, base \in Bottoms : \A k \in DOMAIN calls :
        LET f == Functions[calls[k].f]
        IN  f.words # <<CANT_UNWIND>> /\ ~Refuses(f) =>
                Restores(Extract(f), Frames(calls, base)[k], Frames(calls, base)[k - 1])

(* And the outermost function returns to where no table reaches.           *)
ASSUME BottomAssumption == \A base \in Bottoms : FindProcInfo(base) = NULL
=============================================================================
