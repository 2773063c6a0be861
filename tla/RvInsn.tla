------------------------------- MODULE RvInsn -------------------------------
(***************************************************************************)
(* Instruction words: the opcodes and formats of rv/insn.h, the immediate  *)
(* decoders of rv/bits.h, and what the disassembler of rv/dasm.c, which    *)
(* the emulator calls on every instruction it fetches, may do to the       *)
(* process.  A raw instruction is a word (module Words).                   *)
(***************************************************************************)
EXTENDS Words

(* enum insn_op, the opcodes the interpreter does something for.           *)
op_load == 3
op_imm == 19
op_auipc == 23
op_store == 35
op_op == 51
op_lui == 55
op_branch == 99
op_jalr == 103
op_jal == 111
op_system == 115

(* The other opcodes with a name in enum insn_op: load_fp, custom_0,       *)
(* misc_mem, imm_32, store_fp, custom_1, amo, op_32, madd, msub, nmsub,    *)
(* nmadd, fp and the two custom ones of rv128.  An opcode with no name is  *)
(* no label of any switch.                                                 *)
OtherOps == {7, 11, 15, 27, 39, 43, 47, 59, 67, 71, 75, 79, 83, 91, 123}

(* union insn: the fields of its formats.  Registers, funct3 and funct7    *)
(* are numbers, immediates are words.                                      *)
Opcode(raw) == Value(raw, 7)
Rd(raw)     == Value(Field(raw, 11, 7), 5)
Funct3(raw) == Value(Field(raw, 14, 12), 3)
Rs1(raw)    == Value(Field(raw, 19, 15), 5)
Rs2(raw)    == Value(Field(raw, 24, 20), 5)
Funct7(raw) == Value(Field(raw, 31, 25), 7)
Imm_11_0(raw) == Field(raw, 31, 20)

-----------------------------------------------------------------------------
(* Sign extension of a 12-bit value.                                       *)
sext32_imm12(x) == x \union SignFill(11 \in x, 12)

read_i_immediate(raw) == Field(raw, 30, 20) \union SignFill(31 \in raw, 11)

read_s_immediate(raw) ==
  Field(raw, 11, 7) \union Shl(Field(raw, 30, 25), 5)
  \union SignFill(31 \in raw, 11)

read_b_immediate(raw) ==
  Shl(Field(raw, 11, 8), 1) \union Shl(Field(raw, 30, 25), 5)
  \union Shl(Field(raw, 7, 7), 11) \union SignFill(31 \in raw, 12)

read_j_immediate(raw) ==
  Shl(Field(raw, 24, 21), 1) \union Shl(Field(raw, 30, 25), 5)
  \union Shl(Field(raw, 20, 20), 11) \union Shl(Field(raw, 19, 12), 12)
  \union SignFill(31 \in raw, 20)

read_upper_immediate(raw) == raw \cap (12..31)

read_shift_immediate(raw) == Value(read_i_immediate(raw), 5)

-----------------------------------------------------------------------------
(* dasm(): an assert() for what it does not know, and an index beyond its  *)
(* name tables for the funct3 of a load or a store without a name: what    *)
(* printf() then reads may be a string or may end the process.             *)
DasmAsserts(raw) ==
  \/ Opcode(raw) \in OtherOps
  \/ Opcode(raw) = op_imm /\ Funct3(raw) = 5

DasmOverruns(raw) ==
  \/ Opcode(raw) = op_load /\ Funct3(raw) > 5
  \/ Opcode(raw) = op_store /\ Funct3(raw) > 2

DasmOutcomes(raw, NDEBUG) ==
  IF DasmAsserts(raw) /\ ~NDEBUG THEN {"aborted"}
  ELSE IF DasmOverruns(raw) THEN {"returns", "segv"}
  ELSE {"returns"}
=============================================================================
