-------------------------------- MODULE Asm --------------------------------
(***************************************************************************)
(* The instructions bfc emits, as the asm_...() functions of bfc.c write   *)
(* them through union insn of rv/insn.h and the packed structs `_or' and   *)
(* `jal' of bfc.c.  An instruction is a record; Encode gives its word.     *)
(*                                                                         *)
(* BugPut is a plausible mistake in Put.  No specification uses it: it     *)
(* serves to see that a property would notice.                             *)
(***************************************************************************)
EXTENDS RvInsn

(* enum rv_regs, as far as bfc uses it.                                    *)
rv_zero == 0
rv_t0 == 5
rv_s1 == 9
rv_a0 == 10
rv_a2 == 12
rv_a7 == 17

Unset == -2^20   \* the immediate of a branch that nothing has patched yet

Insn == [op: {"lui", "addi", "lbu", "sb", "or", "ecall", "beq", "jal"},
         rd: 0..31, rs1: 0..31, rs2: 0..31, imm: Int]

asm_lui(dest, imm) ==
  [op |-> "lui", rd |-> dest, rs1 |-> 0, rs2 |-> 0, imm |-> imm]
asm_addi(dest, a, imm) ==
  [op |-> "addi", rd |-> dest, rs1 |-> a, rs2 |-> 0, imm |-> imm]
asm_lbu(base, dest, offset) ==
  [op |-> "lbu", rd |-> dest, rs1 |-> base, rs2 |-> 0, imm |-> offset]
asm_sb(base, src, offset) ==
  [op |-> "sb", rd |-> 0, rs1 |-> base, rs2 |-> src, imm |-> offset]
asm_or(dest, a, b) ==
  [op |-> "or", rd |-> dest, rs1 |-> a, rs2 |-> b, imm |-> 0]
asm_ecall == [op |-> "ecall", rd |-> 0, rs1 |-> 0, rs2 |-> 0, imm |-> 0]
asm_empty_beq(a, b) ==
  [op |-> "beq", rd |-> 0, rs1 |-> a, rs2 |-> b, imm |-> Unset]
asm_jal(link, offset) ==
  [op |-> "jal", rd |-> link, rs1 |-> 0, rs2 |-> 0, imm |-> offset]

-----------------------------------------------------------------------------
BugPut(value, width, at) ==
  Shl(FromNat(value % 2^(IF width = 12 THEN 11 ELSE width)), at)

(* The low `width' bits of a number in the field that begins at bit `at':  *)
(* a bitfield drops the others.                                            *)
Put(value, width, at) == Shl(FromNat(value % 2^width), at)

Fields(op, f3, insn) ==
  FromNat(op) \union Put(f3, 3, 12) \union Put(insn.rs1, 5, 15)

(* The immediate of jal goes into bits 31 to 12 as it is; those of sb have *)
(* their parts exchanged, which does not show on the only one there is, 0. *)
Encode(insn) ==
  CASE insn.op = "lui" ->
         FromNat(op_lui) \union Put(insn.rd, 5, 7) \union Put(insn.imm, 20, 12)
    [] insn.op = "addi" -> Fields(op_imm, 0, insn) \union Put(insn.rd, 5, 7)
                           \union Put(insn.imm, 12, 20)
    [] insn.op = "lbu" -> Fields(op_load, 4, insn) \union Put(insn.rd, 5, 7)
                          \union Put(insn.imm, 12, 20)
    [] insn.op = "sb" -> Fields(op_store, 0, insn) \union Put(insn.rs2, 5, 20)
                         \union Put(insn.imm, 5, 25) \union Put(insn.imm \div 32, 5, 7)
    [] insn.op = "or" -> Fields(op_op, 6, insn) \union Put(insn.rd, 5, 7)
                         \union Put(insn.rs2, 5, 20)
    [] insn.op = "ecall" -> FromNat(op_system)
    [] insn.op = "beq" -> Fields(op_branch, 0, insn) \union Put(insn.rs2, 5, 20)
                          \union Put(insn.imm \div 2, 4, 8)
                          \union Put(insn.imm \div 2^5, 6, 25)
                          \union Put(insn.imm \div 2^11, 1, 7)
                          \union Put(insn.imm \div 2^12, 1, 31)
    [] insn.op = "jal" -> FromNat(op_jal) \union Put(insn.rd, 5, 7)
                          \union Put(insn.imm, 20, 12)
=============================================================================
