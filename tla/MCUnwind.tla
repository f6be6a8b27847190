------------------------------ MODULE MCUnwind ------------------------------
(* A program of eight functions for checking Unwind with TLC: their        *)
(* prologues, and the table entries an assembler emits for them.  The      *)
(* bytes follow the ARM exception handling ABI, not the decoder.           *)
EXTENDS UnwindFrames

Push(regs) == [save |-> regs, room |-> 0, fp |-> NULL, off |-> 0]
Sub(n) == [save |-> <<>>, room |-> n, fp |-> NULL, off |-> 0]
SetFp(r, n) == [save |-> <<>>, room |-> 0, fp |-> r, off |-> n]

Function(start, sites, prologue, inline, words) ==
    [start |-> start, sites |-> sites, prologue |-> prologue, inline |-> inline, words |-> words]

(* vsp += 8; pop {r4, lr}; finish                                          *)
Small == Function(100, {4, 96}, <<Push(<<4, 14>>), Sub(8)>>, TRUE, <<<<128, 1, 168, 176>>>>)

(* vsp = r11; vsp -= 16; pop {r4-r7, r11, lr}                              *)
Framed == Function(200, {4}, <<Push(<<4, 5, 6, 7, 11, 14>>), SetFp(11, 16), Sub(24)>>, FALSE,
                   <<<<129, 1, 155, 67>>, <<132, 143, 176, 176>>>>)

(* vsp += 0x300; pop {d8, d9}; pop {r4, lr}; pop {r0-r3}; with a           *)
(* personality routine of its own                                          *)
Variadic == Function(300, {96}, <<Push(<<0, 1, 2, 3>>), Push(<<4, 14>>), Sub(16), Sub(768)>>, FALSE,
                     <<<<0, 0, 1, 0>>, <<1, 178, 63, 209>>, <<168, 177, 15, 176>>>>)

(* The APCS prologue: vsp = r11; vsp -= 12; pop {r11, sp, lr}              *)
Apcs == Function(400, {4}, <<Push(<<11, 12, 14, 15>>), SetFp(11, 12), Sub(8)>>, FALSE,
                 <<<<129, 1, 155, 66>>, <<134, 128, 176, 176>>>>)

(* vsp += 1316; pop {wCGR0, wCGR1}, {wR10, wR11}, {d8, d9} twice, {d8},    *)
(* {d16, d17} and {wR10}, each in its own encoding; pop {r4, lr}           *)
Coprocessor == Function(500, {96}, <<Push(<<4, 14>>), Sub(8 + 16 + 20 + 16 + 12 + 16 + 8), Sub(1316)>>,
                        FALSE, <<<<130, 4, 178, 200>>, <<1, 199, 3, 193>>, <<185, 201, 129, 179>>,
                                 <<128, 200, 1, 198>>, <<160, 168, 176, 176>>>>)

(* vsp += 8; pop {d8}; pop {r4, lr}: no room for a finish                  *)
Full == Function(600, {4, 96}, <<Push(<<4, 14>>), Sub(8), Sub(8)>>, FALSE, <<<<128, 1, 208, 168>>>>)

(* "refuse to unwind", and EXIDX_CANTUNWIND, which also ends the table     *)
Refusing == Function(700, {4}, <<Push(<<4, 14>>)>>, TRUE, <<<<128, 128, 0, 176>>>>)
OpaqueCode == Function(800, {96}, <<Push(<<14>>)>>, TRUE, <<CANT_UNWIND>>)

Program == <<Small, Framed, Variadic, Apcs, Coprocessor, Full, Refusing, OpaqueCode>>
=============================================================================
