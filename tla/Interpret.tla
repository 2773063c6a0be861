----------------------------- MODULE Interpret -----------------------------
(***************************************************************************)
(* The fetch-execute loop of interpret.c: interpret(memory, entrypoint).   *)
(* One step of the specification is one iteration of the loop: the fetch,  *)
(* the call of the disassembler, the switch and the pc += 4 of the loop    *)
(* footer.  The process has no way out but to stop: abort(), a trap, a     *)
(* segmentation fault, or an access outside the image (`wild'), after      *)
(* which C says nothing of the process and the model stops.                *)
(*                                                                         *)
(* The memory image is a function from word indices to words, in whole     *)
(* pages, none of them writable or executable without being readable (what *)
(* a read of such a page does depends on the host).  The host is           *)
(* little-endian: byte b of a word is its field [8b+7:8b].  Guest          *)
(* addresses are offsets into the image, which is far smaller than 2^31,   *)
(* so that the pointer arithmetic of the host and addition modulo 2^32     *)
(* agree on which accesses are inside.  The signed addition of addi wraps, *)
(* as it does in the code the compilers emit for it.                       *)
(*                                                                         *)
(* A definition named Bug... is a plausible mistake in the definition that *)
(* follows it.  No specification uses it: it serves to see that a property *)
(* would notice.                                                           *)
(***************************************************************************)
EXTENDS RvInsn

CONSTANTS
  NDEBUG,      \* whether assert() is compiled out
  ImageWords,  \* the length of the image in words
  PageWords,   \* the size of a page in words
  Starts       \* the possible [mem, prot, pc] the loader hands over

Image == 0..(ImageWords - 1)
Pages == 0..((ImageWords - 1) \div PageWords)
Registers == 1..31

Protections == {{}, {"R"}, {"R", "W"}, {"R", "X"}, {"R", "W", "X"}}

ASSUME BuildAssumption == NDEBUG \in BOOLEAN
ASSUME ImageAssumption ==
  ImageWords \in 1..2^16 /\ PageWords \in 1..2^16 /\ ImageWords % PageWords = 0
ASSUME StartsAssumption ==
  \A s \in Starts : /\ s.mem \in [Image -> Words]
                    /\ s.prot \in [Pages -> Protections]
                    /\ s.pc \in Words

VARIABLES
  pc,         \* the program counter
  registers,  \* x1 to x31
  mem,        \* the memory image
  prot,       \* the protection of its pages
  status      \* "running", or how the process ended

vars == <<pc, registers, mem, prot, status>>

-----------------------------------------------------------------------------
(* read_register(): register 0 reads as zero; a field of an instruction    *)
(* names no register beyond 31.                                            *)
Read(x) == IF x \in Registers THEN registers[x] ELSE ZeroW

BugWriteZero(x, value) == registers' = [i \in Registers \union {x} |->
                                          IF i = x THEN value ELSE registers[i]]

(* write_register(): register 0 is a sink.                                 *)
Write(x, value) == registers' = [i \in Registers |->
                                   IF i = x THEN value ELSE registers[i]]

Inside(addr)  == ULess(addr, FromNat(4 * ImageWords))
WordOf(addr)  == LoHalf(Shr(addr, 2))
ByteOf(addr)  == Value(addr, 2)
PageOf(addr)  == WordOf(addr) \div PageWords
MayRead(addr)  == Inside(addr) /\ "R" \in prot[PageOf(addr)]
BugWriteReadable(addr) == MayRead(addr)
MayWrite(addr) == Inside(addr) /\ "W" \in prot[PageOf(addr)]

raw == mem[WordOf(pc)]
NextPc == Add(pc, {2})

Stop(how) == status' = how /\ UNCHANGED <<pc, registers, mem, prot>>

(* An access the MMU refuses, and one outside the image, where nothing or  *)
(* any other mapping of the process may be.                                *)
Refused(addr) == IF Inside(addr) THEN Stop("segv")
                 ELSE Stop("segv") \/ Stop("wild")

-----------------------------------------------------------------------------
Init ==
  /\ \E s \in Starts : mem = s.mem /\ prot = s.prot /\ pc = s.pc
  /\ registers = [x \in Registers |-> ZeroW]
  /\ status = "running"

(* The pc is checked before the fetch.                                     *)
Aligned(addr) == addr \cap {0, 1} = {}

Misaligned ==
  status = "running" /\ ~Aligned(pc) /\ Stop("aborted")

FetchFault ==
  status = "running" /\ Aligned(pc) /\ ~MayRead(pc) /\ Refused(pc)

Fetched == status = "running" /\ Aligned(pc) /\ MayRead(pc)

(* The disassembler ends the process.                                      *)
DasmStops ==
  /\ Fetched
  /\ \E outcome \in DasmOutcomes(raw, NDEBUG) \ {"returns"} : Stop(outcome)

Executing(opcode) ==
  /\ Fetched
  /\ "returns" \in DasmOutcomes(raw, NDEBUG)
  /\ raw # ZeroW
  /\ Opcode(raw) = opcode

IllegalZero ==
  Fetched /\ raw = ZeroW /\ Stop("trapped")

(* An assert(!"not implemented") ends a debug build; with NDEBUG the       *)
(* switch is left and the loop goes on.                                    *)
NotImplemented ==
  IF NDEBUG
  THEN pc' = NextPc /\ UNCHANGED <<registers, mem, prot, status>>
  ELSE Stop("aborted")

(* The instruction completes: the registers as given, the memory alone.    *)
Continue(target) == pc' = target /\ UNCHANGED <<prot, status>>

-----------------------------------------------------------------------------
BugLinkFirst ==
  /\ Executing(op_jalr)
  /\ Write(Rd(raw), NextPc)
  /\ Continue(Add(read_i_immediate(raw), IF Rs1(raw) = Rd(raw) /\ Rd(raw) # 0
                                        THEN NextPc ELSE Read(Rs1(raw))) \ {0})
  /\ UNCHANGED mem

Jalr ==
  /\ Executing(op_jalr)
  /\ Write(Rd(raw), NextPc)
  /\ Continue(Add(read_i_immediate(raw), Read(Rs1(raw))) \ {0})
  /\ UNCHANGED mem

Jal ==
  /\ Executing(op_jal)
  /\ Write(Rd(raw), NextPc)
  /\ Continue(Add(pc, read_j_immediate(raw)))
  /\ UNCHANGED mem

Lui ==
  /\ Executing(op_lui)
  /\ Write(Rd(raw), read_upper_immediate(raw))
  /\ Continue(NextPc)
  /\ UNCHANGED mem

Auipc ==
  /\ Executing(op_auipc)
  /\ Write(Rd(raw), Add(pc, read_upper_immediate(raw)))
  /\ Continue(NextPc)
  /\ UNCHANGED mem

BugShiftSigned(src) ==
  LET n == read_shift_immediate(raw)
  IN Shr(src, n) \union SignFill(31 \in src, 31 - n)

(* imm_func_srli: bit 12 of the extended immediate selects SRAI.           *)
ShiftRight(src) ==
  LET n == read_shift_immediate(raw)
      is_SRAI == 12 \in read_i_immediate(raw)
      top_bit == 31 \in src /\ is_SRAI
  IN Shr(src, n) \union SignFill(top_bit, 31 - n)

ImmResult ==
  LET x   == Read(Rs1(raw))
      imm == read_i_immediate(raw)
  IN CASE Funct3(raw) = 0 -> Add(x, imm)
       [] Funct3(raw) = 1 -> Shl(x, read_shift_immediate(raw))
       [] Funct3(raw) = 2 -> Bool(SLess(x, imm))
       [] Funct3(raw) = 3 -> Bool(ULess(x, imm))
       [] Funct3(raw) = 4 -> Xor(x, imm)
       [] Funct3(raw) = 5 -> ShiftRight(x)
       [] Funct3(raw) = 6 -> x \union imm
       [] OTHER           -> x \cap imm

OpImm ==
  /\ Executing(op_imm)
  /\ Write(Rd(raw), ImmResult)
  /\ Continue(NextPc)
  /\ UNCHANGED mem

-----------------------------------------------------------------------------
(* Only lbu is implemented; a funct3 without a name does nothing.          *)
Load ==
  /\ Executing(op_load)
  /\ LET addr == Add(Read(Rs1(raw)), sext32_imm12(Imm_11_0(raw)))
         byte == Field(mem[WordOf(addr)], 8 * ByteOf(addr) + 7, 8 * ByteOf(addr))
     IN \/ /\ Funct3(raw) = 4 /\ MayRead(addr)
           /\ Write(Rd(raw), byte)
           /\ Continue(NextPc)
           /\ UNCHANGED mem
        \/ Funct3(raw) = 4 /\ ~MayRead(addr) /\ Refused(addr)
        \/ Funct3(raw) \in {0, 1, 2, 5} /\ NotImplemented
        \/ /\ Funct3(raw) \in {3, 6, 7}
           /\ Continue(NextPc)
           /\ UNCHANGED <<registers, mem>>

(* sb and sw; sw traps on an address that is no multiple of 4.             *)
Store ==
  /\ Executing(op_store)
  /\ LET imm  == sext32_imm12(Field(raw, 11, 7) \union Shl(Field(raw, 31, 25), 5))
         addr == Add(imm, Read(Rs1(raw)))
         word == Read(Rs2(raw))
         at   == 8 * ByteOf(addr)
         Stored == IF Funct3(raw) = 2 THEN word
                   ELSE (mem[WordOf(addr)] \ (at..(at + 7)))
                        \union Shl(Field(word, 7, 0), at)
     IN \/ /\ Funct3(raw) \in {0, 2} /\ MayWrite(addr)
           /\ Funct3(raw) = 2 => Aligned(addr)
           /\ mem' = [mem EXCEPT ![WordOf(addr)] = Stored]
           /\ Continue(NextPc)
           /\ UNCHANGED registers
        \/ Funct3(raw) = 2 /\ ~Aligned(addr) /\ Stop("trapped")
        \/ /\ Funct3(raw) \in {0, 2} /\ ~MayWrite(addr)
           /\ Funct3(raw) = 2 => Aligned(addr)
           /\ Refused(addr)
        \/ Funct3(raw) = 1 /\ NotImplemented
        \/ /\ Funct3(raw) > 2
           /\ Continue(NextPc)
           /\ UNCHANGED <<registers, mem>>

(* beq, bne, bltu and bgeu; blt and bge are not implemented.               *)
Taken(funct3, a, b) ==
  \/ funct3 = 0 /\ a = b
  \/ funct3 = 1 /\ a # b
  \/ funct3 = 6 /\ ULess(a, b)
  \/ funct3 = 7 /\ ~ULess(a, b)

Branch ==
  /\ Executing(op_branch)
  /\ IF Funct3(raw) \in {4, 5}
     THEN NotImplemented
     ELSE /\ Continue(IF Taken(Funct3(raw), Read(Rs1(raw)), Read(Rs2(raw)))
                      THEN Add(pc, read_b_immediate(raw))
                      ELSE NextPc)
          /\ UNCHANGED <<registers, mem>>

(* or, add and sub; only for add is funct7 looked at.                      *)
OpOp ==
  /\ Executing(op_op)
  /\ LET s1 == Read(Rs1(raw))
         s2 == Read(Rs2(raw))
     IN \/ /\ Funct3(raw) = 6
           /\ Write(Rd(raw), s1 \union s2)
           /\ Continue(NextPc)
           /\ UNCHANGED mem
        \/ /\ Funct3(raw) = 0
           /\ Write(Rd(raw), Add(s1, IF Funct7(raw) = 32 THEN Neg(s2) ELSE s2))
           /\ Continue(NextPc)
           /\ UNCHANGED mem
        \/ Funct3(raw) \notin {0, 6} /\ NotImplemented

System ==
  /\ Executing(op_system)
  /\ NotImplemented

Unimplemented ==
  \E opcode \in OtherOps : Executing(opcode) /\ NotImplemented

(* An opcode that is no label of the switch: on to the next instruction.   *)
Implemented == {op_load, op_imm, op_auipc, op_store, op_op, op_lui,
                op_branch, op_jalr, op_jal, op_system}

Skip ==
  \E opcode \in (0..127) \ (Implemented \union OtherOps) :
    /\ Executing(opcode)
    /\ Continue(NextPc)
    /\ UNCHANGED <<registers, mem>>

Next ==
  \/ Misaligned \/ FetchFault \/ DasmStops \/ IllegalZero
  \/ Jalr \/ Jal \/ Lui \/ Auipc \/ OpImm \/ Load \/ Store \/ Branch \/ OpOp
  \/ System \/ Unimplemented \/ Skip

Spec == Init /\ [][Next]_vars
=============================================================================
