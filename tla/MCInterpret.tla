---------------------------- MODULE MCInterpret ----------------------------
(* Small programs for Interpret, assembled from fields.                    *)
EXTENDS InterpretIsa, Sequences, SequencesExt

Place(n, at) == Shl(FromNat(n), at)

(* Immediates are given as the numbers of their two's complement encoding. *)
EncI(op, f3, rd, rs1, imm) ==
  FromNat(op) \union Place(rd, 7) \union Place(f3, 12) \union Place(rs1, 15)
  \union Place(imm, 20)
EncR(f3, f7, rd, rs1, rs2) == EncI(op_op, f3, rd, rs1, 32 * f7 + rs2)
EncS(f3, rs1, rs2, imm) ==
  EncI(op_store, f3, imm % 32, rs1, 32 * (imm \div 32) + rs2)
EncB(f3, rs1, rs2, imm) ==
  EncI(op_branch, f3, 2 * ((imm \div 2) % 16) + ((imm \div 2048) % 2), rs1,
       32 * (((imm \div 32) % 64) + 64 * (imm \div 4096)) + rs2)
EncU(op, rd, imm) == FromNat(op) \union Place(rd, 7) \union Place(imm, 12)
EncJ(rd, imm) ==
  FromNat(op_jal) \union Place(rd, 7) \union Place((imm \div 4096) % 256, 12)
  \union Place((imm \div 2048) % 2, 20) \union Place((imm \div 2) % 1024, 21)
  \union Place(imm \div 2^20, 31)

Lui1(rd, v)  == EncU(op_lui, rd, v[1])
Addi1(rd, v) == EncI(op_imm, 0, rd, rd, v[2])

(* The image: two pages of code, one of data, one without any access.      *)
Protect(code) == [p \in Pages |-> CASE p \in {0, 1} -> code
                                    [] p = 2 -> {"R", "W"}
                                    [] OTHER -> {}]
DataWord == 8
Data == FromNat(16909060) \* bytes 4, 3, 2, 1
Start(code, words, entry) ==
  [mem |-> [i \in Image |-> IF i < Len(words) THEN words[i + 1]
                            ELSE IF i = DataWord THEN Data ELSE ZeroW],
   prot |-> Protect(code), pc |-> FromNat(entry)]

(* One instruction, after x1 and x2 have been given their values.          *)
With12(v, w, insn) ==
  Start({"R", "X"}, <<Lui1(1, v), Addi1(1, v), Lui1(2, w), Addi1(2, w), insn>>, 0)

(* <<upper 20 bits, lower 12 bits>>: 1, -1, the least and the greatest     *)
(* number, and one in between.                                             *)
One == <<0, 1>>
MinusOne == <<0, 4095>>
Least == <<2^19, 0>>
Greatest == <<2^19, 4095>>
Middle == <<74565, 1656>>
Numbers == {One, MinusOne, Least, Greatest, Middle}

Immediates == {0, 1, 31, 33, 2047, 2048, 4095}

OnOne == {EncI(op_imm, f3, rd, 1, imm) :
            f3 \in (0..7) \ {5}, rd \in {1, 3}, imm \in Immediates}
         \union {EncU(op, 3, imm) :
            op \in {op_lui, op_auipc}, imm \in {0, 1, 2^19, 2^20 - 1}}
OnTwo == {EncR(f3, f7, rd, 1, 2) : f3 \in {0, 6}, f7 \in {0, 32}, rd \in {0, 2}}
RightShifts(f7) == {EncI(op_imm, 5, rd, 1, 32 * f7 + n) : rd \in {1, 3}, n \in {0, 1, 31}}
Branches == {EncB(f3, 1, 2, imm) : f3 \in {0, 1, 6, 7}, imm \in {8, 2, 8190, 4096 + 4094, 2048 + 12}}
Jumps == {EncJ(rd, imm) : rd \in {0, 3}, imm \in {4, 8, 2^21 - 16, 2^20 + 2, 2048, 2^12 + 8}}
         \union {EncI(op_jalr, 0, rd, rs1, imm) : rd \in {0, 1}, rs1 \in {0, 1}, imm \in {8, 9, 4094}}

(* What the interpreter does not implement, or does not know; the right    *)
(* shifts are unimplemented only in a debug build.                         *)
Refusals == {EncR(f3, f7, 3, 1, 2) : f3 \in (0..7) \ {6}, f7 \in {0, 1, 32}}
            \union {EncB(f3, 1, 2, 8) : f3 \in 2..5}
            \union {EncI(op, f3, 3, 1, 0) : op \in {2, 15, 47, 107, 115, 119}, f3 \in {0, 1}}
            \union {EncI(op_jalr, 1, 3, 1, 0)}

Arithmetic == {With12(v, w, insn) : v, w \in Numbers, insn \in OnTwo \union Branches}
              \union {With12(v, One, insn) : v \in Numbers, insn \in OnOne}
Declined(insns) == {With12(Least, One, insn) : insn \in insns}

(* Addresses: in the data, at the end of it, beyond it, in the code, below *)
(* and above the image.                                                    *)
Addresses == {<<0, a>> : a \in {32, 33, 35, 47, 48, 16, 64, 4095, 4064}}
Accesses == {EncI(op_load, f3, rd, 1, imm) : f3 \in 0..7, rd \in {1, 3}, imm \in {0, 3, 4095}}
            \union {EncS(f3, 1, 2, imm) : f3 \in 0..7, imm \in {0, 3, 32, 4095}}

Memory(addrs, insns) == {With12(a, Middle, insn) : a \in addrs, insn \in insns}
Control == {With12(a, One, insn) : a \in {<<0, 24>>, <<0, 1>>, <<2^19, 0>>}, insn \in Jumps}

-----------------------------------------------------------------------------
(* Programs of several instructions, the code pages writable too.          *)
RWX == {"R", "W", "X"}

(* Count x1 down from n, storing it in the data, then run into the zeroes. *)
CountDown(n) ==
  <<EncI(op_imm, 0, 1, 0, n), EncS(0, 1, 1, 31), EncI(op_imm, 0, 1, 1, 4095),
    EncB(1, 1, 0, 8192 - 8), EncI(op_load, 4, 2, 0, 33)>>

(* Overwrite the instruction at 12 by the `addi x2, x0, 7' at 20.          *)
SelfModify ==
  <<EncU(op_lui, 1, 1792), EncI(op_imm, 0, 1, 1, 275), EncS(2, 0, 1, 12),
    EncI(op_imm, 0, 2, 0, 1), EncR(0, 0, 3, 2, 2)>>

(* Call a routine that returns through x5, x1 counting the calls.          *)
CallTwice ==
  <<EncJ(5, 12), EncJ(5, 8), EncJ(0, 12), EncI(op_imm, 0, 1, 1, 1),
    EncI(op_jalr, 0, 0, 5, 0), EncS(2, 0, 1, 32)>>

(* Build an instruction in the data and jump there.                        *)
JumpToData ==
  <<EncU(op_lui, 1, 1792), EncI(op_imm, 0, 1, 1, 275), EncS(2, 0, 1, 32),
    EncJ(0, 20)>>

Programs == {Start(code, p, entry) :
               code \in {{"R"}, {"R", "X"}, RWX}, entry \in {0, 2},
               p \in {CountDown(1), CountDown(3), SelfModify, CallTwice, JumpToData}}

-----------------------------------------------------------------------------
DebugStarts == Arithmetic \union Memory(Addresses, Accesses) \union Control \union Programs
               \union Declined(Refusals \union RightShifts(0) \union RightShifts(32))

(* What a release build does differently: right shifts, and passing over   *)
(* what is not implemented; and stores, wherever they go.                  *)
ReleaseStarts == {With12(v, One, insn) : v \in Numbers, insn \in RightShifts(0)}
                 \union Memory({<<0, a>> : a \in {33, 16}}, Accesses)
                 \union Programs \union Declined(Refusals)
SraiStarts == {With12(v, One, insn) : v \in Numbers, insn \in RightShifts(32)}
=============================================================================
