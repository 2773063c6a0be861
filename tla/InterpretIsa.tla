---------------------------- MODULE InterpretIsa ----------------------------
(***************************************************************************)
(* The interpreter against the instruction set it interprets: the mapping  *)
(* of its bit-level state to the numbers of Rv32i, and its properties.     *)
(***************************************************************************)
EXTENDS Interpret

MemBytes == 4 * ImageWords
ByteIn(memory, a) == Value(Shr(memory[a \div 4], 8 * (a % 4)), 8)
With(permission) ==
  {a \in 0..(MemBytes - 1) : permission \in prot[(a \div 4) \div PageWords]}

(* The instructions interpret() has code for.  In a debug build the        *)
(* disassembler ends the process at a right shift.                         *)
Shifts == {"srli", "srai"}
Promised ==
  {"lui", "auipc", "jal", "jalr", "beq", "bne", "bltu", "bgeu", "lbu", "sb",
   "sw", "addi", "slti", "sltiu", "xori", "ori", "andi", "slli", "add", "sub",
   "or"} \union IF NDEBUG THEN Shifts ELSE {}

Rv == INSTANCE Rv32i WITH
         Supported <- Promised,
         Lenient <- NDEBUG,
         x <- [i \in Registers |-> Signed(registers[i])],
         pc <- Signed(pc),
         m <- [a \in 0..(MemBytes - 1) |-> ByteIn(mem, a)],
         readable <- With("R"),
         writable <- With("W"),
         stopped <- status # "running"

-----------------------------------------------------------------------------
(* The type of every variable.                                             *)
TypeOK ==
  /\ pc \in Words /\ registers \in [Registers -> Words]
  /\ mem \in [Image -> Words] /\ prot \in [Pages -> Protections]
  /\ status \in {"running", "aborted", "trapped", "segv", "wild"}

(* interpret() implements the instruction set: every iteration of its loop *)
(* is the execution of the instruction at pc, with the immediates decoded, *)
(* the old value of rs1 used when rd = rs1, the branch taken relative to   *)
(* the branch and the link to the next instruction; or a refusal that the  *)
(* instruction deserves.  A debug build stops at an instruction it does    *)
(* not implement, a release build passes over it, changing only pc.        *)
ImplementsIsa == Rv!Spec

(* What the loader protected stays what the loader loaded: however long a  *)
(* program runs, and whatever it stores, jumps to or skips, the words of    *)
(* the pages without "W" are those of the start, and so are the            *)
(* protections themselves.                                                 *)
ReadOnlyAsLoaded ==
  \E s \in Starts :
    /\ prot = s.prot
    /\ \A w \in Image : "W" \notin prot[w \div PageWords] => mem[w] = s.mem[w]

-----------------------------------------------------------------------------
(* What the code says of itself and does not do.                           *)

(* "if it's SRAI, then we want to put the top bit in, in the shifted       *)
(* bits": a shift that shift_func_srai marks keeps the sign of its source. *)
(* (The state is that after an srai of x1 into x3.)                        *)
IsSrai(insn) == Opcode(insn) = op_imm /\ Funct3(insn) = 5 /\ Funct7(insn) = 32

SraiKeepsSign ==
  [][Fetched /\ IsSrai(raw) /\ Rd(raw) # 0 /\ status' = "running" =>
       (31 \in registers'[Rd(raw)] <=> 31 \in Read(Rs1(raw)))]_vars

(* A release build is about to lose a sign in this way, the only           *)
(* instruction that keeps the interpreter from implementing the rest.      *)
SignAtStake ==
  /\ NDEBUG /\ Fetched /\ IsSrai(raw) /\ Rd(raw) # 0
  /\ read_shift_immediate(raw) # 0 /\ 31 \in Read(Rs1(raw))
=============================================================================
