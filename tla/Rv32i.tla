------------------------------- MODULE Rv32i -------------------------------
(***************************************************************************)
(* What the interpreter promises: the user-level RV32I instruction set of  *)
(* the manual interpret.c names, on integers instead of bits, with none of *)
(* the interpreter's structure.  A register holds a signed 32-bit number,  *)
(* memory holds bytes.  A machine may stop at an instruction it cannot     *)
(* execute (misaligned, unreadable, not in Supported, with a bad operand   *)
(* address) but must otherwise execute what it fetched; a lenient one      *)
(* passes over the instructions it does not support.  What a reserved      *)
(* encoding does is unspecified.                                           *)
(***************************************************************************)
EXTENDS Integers

CONSTANTS
  Supported,  \* the instructions the machine promises to execute
  Lenient,    \* whether it passes over the others
  MemBytes    \* the number of bytes of its memory

VARIABLES
  x,         \* the registers x1 to x31
  pc,        \* the program counter
  m,         \* the bytes of memory
  readable,  \* the addresses that may be read and written
  writable,
  stopped    \* whether the machine has given up

isa == <<x, pc, m, readable, writable, stopped>>

-----------------------------------------------------------------------------
Int32 == (-2^30 - 2^30)..(2^30 - 1 + 2^30)

(* Addition modulo 2^32 on signed numbers, by halves.                      *)
Plus(a, b) ==
  LET lo == (a % 65536) + (b % 65536)
      hi == (a \div 65536) + (b \div 65536) + (lo \div 65536)
  IN (((hi + 32768) % 65536) - 32768) * 65536 + (lo % 65536)
Minus(a, b) == Plus(Plus(a, -1 - b), 1)

Bit(a, i) == IF i = 31 THEN a < 0 ELSE (a \div 2^i) % 2 = 1
OfBits(bits) ==
  LET sum[i \in 0..31] ==
        IF i = 0 THEN 0
        ELSE sum[i - 1] + IF i - 1 \in bits THEN 2^(i - 1) ELSE 0
  IN IF 31 \in bits THEN (sum[31] - 2^30) - 2^30 ELSE sum[31]

Less(a, b)  == a < b
Below(a, b) == IF (a < 0) = (b < 0) THEN a < b ELSE b < 0
Truth(p) == IF p THEN 1 ELSE 0

ShiftLeft(a, n) ==
  LET d[i \in 0..n] == IF i = 0 THEN a
                       ELSE LET half == d[i - 1] IN Plus(half, half)
  IN d[n]
ShiftRightArith(a, n) == (a \div 2^(n \div 2)) \div 2^(n - (n \div 2))
ShiftRightLogical(a, n) ==
  IF n = 0 \/ a >= 0 THEN ShiftRightArith(a, n)
  ELSE (ShiftRightArith(a, n) + 2^(31 - n)) + 2^(31 - n)

-----------------------------------------------------------------------------
(* The instruction at pc, as its low and high half.                        *)
Aligned(a, n) == a % n = 0
Lo == m[pc] + 256 * m[pc + 1]
Hi == m[pc + 2] + 256 * m[pc + 3]
Fetchable == Aligned(pc, 4) /\ {pc, pc + 1, pc + 2, pc + 3} \subseteq readable

op == Lo % 128
rd == (Lo \div 128) % 32
funct3 == (Lo \div 4096) % 8
rs1 == (Lo \div 32768) + 2 * (Hi % 16)
rs2 == (Hi \div 16) % 32
funct7 == Hi \div 512
Sign(weight) == IF Hi >= 32768 THEN -weight ELSE 0

ImmI == ((Hi \div 16) % 2048) + Sign(2048)
ImmS == 32 * ((Hi \div 512) % 64) + rd + Sign(2048)
ImmB == 32 * ((Hi \div 512) % 64) + 2 * (rd \div 2) + 2048 * (rd % 2)
        + Sign(4096)
ImmJ == 2 * ((Hi \div 32) % 1024) + 2048 * ((Hi \div 16) % 2)
        + 4096 * (16 * (Hi % 16) + (Lo \div 4096)) + Sign(2^20)
ImmU == (IF Hi >= 32768 THEN Hi - 65536 ELSE Hi) * 65536
        + 4096 * (Lo \div 4096)

Named(names) == names[funct3 + 1]
WithFunct7(f, name) == IF funct7 = f THEN name ELSE "reserved"

Mnemonic ==
  CASE op = 55  -> "lui"
    [] op = 23  -> "auipc"
    [] op = 111 -> "jal"
    [] op = 103 -> IF funct3 = 0 THEN "jalr" ELSE "reserved"
    [] op = 99  -> Named(<<"beq", "bne", "reserved", "reserved",
                           "blt", "bge", "bltu", "bgeu">>)
    [] op = 3   -> Named(<<"lb", "lh", "lw", "reserved",
                           "lbu", "lhu", "reserved", "reserved">>)
    [] op = 35  -> Named(<<"sb", "sh", "sw", "reserved", "reserved",
                           "reserved", "reserved", "reserved">>)
    [] op = 19  -> Named(<<"addi", WithFunct7(0, "slli"), "slti", "sltiu", "xori",
                           IF funct7 = 32 THEN "srai" ELSE WithFunct7(0, "srli"),
                           "ori", "andi">>)
    [] op = 51 /\ funct7 = 0  -> Named(<<"add", "sll", "slt", "sltu", "xor",
                                         "srl", "or", "and">>)
    [] op = 51 /\ funct7 = 32 -> IF funct3 = 0 THEN "sub"
                                 ELSE IF funct3 = 5 THEN "sra" ELSE "reserved"
    [] op = 15  -> "fence"
    [] op = 115 -> "system"
    [] OTHER    -> "reserved"

-----------------------------------------------------------------------------
Reg(i) == IF i = 0 THEN 0 ELSE x[i]
Set(value) == x' = IF rd = 0 THEN x ELSE [x EXCEPT ![rd] = value]
Go(target) == pc' = target
GoOn == Go(Plus(pc, 4))

Compute(value) == Set(value) /\ GoOn /\ m' = m
BranchIf(cond) == Go(IF cond THEN Plus(pc, ImmB) ELSE Plus(pc, 4))
                  /\ UNCHANGED <<x, m>>
Byte(a) == m[a]
LoadAddr == Plus(Reg(rs1), ImmI)
StoreAddr == Plus(Reg(rs1), ImmS)
ByteAt(value, i) == (value \div 2^(8 * i)) % 256

StoreBytes(n) ==
  /\ m' = [a \in DOMAIN m |-> IF a \in StoreAddr..(StoreAddr + n - 1)
                              THEN ByteAt(Reg(rs2), a - StoreAddr) ELSE m[a]]
  /\ GoOn /\ x' = x

BadOperand ==
  \/ Mnemonic = "lbu" /\ LoadAddr \notin readable
  \/ Mnemonic = "sb" /\ StoreAddr \notin writable
  \/ Mnemonic = "sw" /\ (~Aligned(StoreAddr, 4) \/ StoreAddr \notin writable)

Effect ==
  CASE Mnemonic = "lui"   -> Compute(ImmU)
    [] Mnemonic = "auipc" -> Compute(Plus(pc, ImmU))
    [] Mnemonic = "jal"   -> Set(Plus(pc, 4)) /\ Go(Plus(pc, ImmJ)) /\ m' = m
    [] Mnemonic = "jalr"  -> LET t == Plus(Reg(rs1), ImmI) IN
                             Set(Plus(pc, 4)) /\ Go(t - (t % 2)) /\ m' = m
    [] Mnemonic = "beq"   -> BranchIf(Reg(rs1) = Reg(rs2))
    [] Mnemonic = "bne"   -> BranchIf(Reg(rs1) # Reg(rs2))
    [] Mnemonic = "bltu"  -> BranchIf(Below(Reg(rs1), Reg(rs2)))
    [] Mnemonic = "bgeu"  -> BranchIf(~Below(Reg(rs1), Reg(rs2)))
    [] Mnemonic = "lbu"   -> Compute(Byte(LoadAddr))
    [] Mnemonic = "sb"    -> StoreBytes(1)
    [] Mnemonic = "sw"    -> StoreBytes(4)
    [] Mnemonic = "addi"  -> Compute(Plus(Reg(rs1), ImmI))
    [] Mnemonic = "slti"  -> Compute(Truth(Less(Reg(rs1), ImmI)))
    [] Mnemonic = "sltiu" -> Compute(Truth(Below(Reg(rs1), ImmI)))
    [] Mnemonic = "xori"  -> Compute(OfBits({i \in 0..31 : Bit(Reg(rs1), i) # Bit(ImmI, i)}))
    [] Mnemonic = "ori"   -> Compute(OfBits({i \in 0..31 : Bit(Reg(rs1), i) \/ Bit(ImmI, i)}))
    [] Mnemonic = "andi"  -> Compute(OfBits({i \in 0..31 : Bit(Reg(rs1), i) /\ Bit(ImmI, i)}))
    [] Mnemonic = "slli"  -> Compute(ShiftLeft(Reg(rs1), rs2))
    [] Mnemonic = "srli"  -> Compute(ShiftRightLogical(Reg(rs1), rs2))
    [] Mnemonic = "srai"  -> Compute(ShiftRightArith(Reg(rs1), rs2))
    [] Mnemonic = "add"   -> Compute(Plus(Reg(rs1), Reg(rs2)))
    [] Mnemonic = "sub"   -> Compute(Minus(Reg(rs1), Reg(rs2)))
    [] Mnemonic = "or"    -> Compute(OfBits({i \in 0..31 : Bit(Reg(rs1), i) \/ Bit(Reg(rs2), i)}))
    [] OTHER              -> FALSE

-----------------------------------------------------------------------------
Init ==
  /\ x = [i \in 1..31 |-> 0]
  /\ m \in [0..(MemBytes - 1) -> 0..255]
  /\ readable \subseteq DOMAIN m /\ writable \subseteq readable
  /\ ~stopped

Execute ==
  /\ ~stopped /\ Fetchable
  /\ Mnemonic # "reserved" /\ ~BadOperand
  /\ Effect
  /\ UNCHANGED <<readable, writable, stopped>>

Unspecified == ~stopped /\ Fetchable /\ Mnemonic = "reserved"

PassOver ==
  /\ Lenient /\ ~stopped /\ Fetchable
  /\ Mnemonic \notin Supported
  /\ GoOn
  /\ UNCHANGED <<x, m, readable, writable, stopped>>

GiveUp ==
  /\ ~stopped /\ stopped'
  /\ Fetchable => BadOperand \/ Mnemonic \notin Supported
  /\ UNCHANGED <<x, pc, m, readable, writable>>

Next == Execute \/ Unspecified \/ PassOver \/ GiveUp

Spec == Init /\ [][Next]_isa
=============================================================================
