-------------------------------- MODULE Bfc --------------------------------
(***************************************************************************)
(* The front end of bfc: compile_stdin() of bfc.c, which reads a           *)
(* Brainfuck program character by character and appends instructions to a  *)
(* growable buffer.  A '[' leaves a branch without a target and pushes its *)
(* place on a second buffer; the ']' pops it and patches the branch.       *)
(*                                                                         *)
(* The contents of the two buffers are sequences, `code' and `loops'; what *)
(* their lengths, capacities and blocks do is in module Out.  Characters   *)
(* other than the eight commands are one, "comment", but for the byte 255, *)
(* which a char cannot tell from EOF.                                      *)
(*                                                                         *)
(* A definition named Bug... is a plausible mistake in the definition that *)
(* follows it.  No specification uses it: it serves to see that a property *)
(* would notice.                                                           *)
(***************************************************************************)
EXTENDS Asm, Sequences

CONSTANTS
  Width,    \* the bits of a u32, see module Out
  Sources   \* the programs bfc may be given

Chars == {"+", "-", ".", ",", "<", ">", "[", "]", "comment", "xFF"}

ASSUME WidthAssumption == Width \in 4..32
ASSUME SourcesAssumption == Sources \subseteq Seq(Chars)

O == INSTANCE Out

VARIABLES
  source,  \* the program
  read,    \* how many of its characters have been read
  todo,    \* the instructions that the current character still emits
  insns,   \* the code buffer
  code,    \* the instructions in it
  stack,   \* loop_begin_stack
  loops,   \* the struct loop_infos in it
  status   \* "compiling", "ending", "done", or how the process ended

compiler == <<source, read, todo, insns, code, stack, loops, status>>

Prologue == <<asm_lui(rv_s1, rv_zero), asm_addi(rv_s1, rv_zero, 0)>>
Epilogue == <<asm_addi(rv_a7, rv_zero, 93), asm_addi(rv_a0, rv_zero, 0), asm_ecall>>

Bug_load_cell == asm_lbu(rv_t0, rv_s1, 0)
load_cell  == asm_lbu(rv_s1, rv_t0, 0)
store_cell == asm_sb(rv_s1, rv_t0, 0)

Call(number) ==
  <<asm_addi(rv_a7, rv_zero, number), asm_addi(rv_a0, rv_zero, 1),
    asm_or(rv_a0, rv_zero, rv_s1), asm_addi(rv_a2, rv_zero, 1), asm_ecall>>

(* What a command that is no bracket emits.                                *)
Straight(c) ==
  CASE c = "+" -> <<load_cell, asm_addi(rv_t0, rv_t0, 1), store_cell>>
    [] c = "-" -> <<load_cell, asm_addi(rv_t0, rv_t0, -1), store_cell>>
    [] c = "." -> Call(64)
    [] c = "," -> Call(63)
    [] c = ">" -> <<asm_addi(rv_s1, rv_s1, 1)>>
    [] c = "<" -> <<asm_addi(rv_s1, rv_s1, -1)>>
    [] c = "comment" -> <<>>

InfoSize == 8   \* sizeof(struct loop_info)

-----------------------------------------------------------------------------
Init ==
  /\ source \in Sources /\ read = 0 /\ todo = Prologue
  /\ insns = O!Empty /\ code = <<>>
  /\ stack = O!Empty /\ loops = <<>>
  /\ status = "compiling"

(* The process goes on after writes that went well.                        *)
After(written) == IF written = "ok" THEN status ELSE written

(* One asm_...() call.                                                     *)
EmitInsn ==
  /\ status \in {"compiling", "ending"} /\ todo # <<>>
  /\ insns' \in O!Reserve(insns, 4)
  /\ status' = After(O!Written(insns', 4))
  /\ code' = Append(code, Head(todo)) /\ todo' = Tail(todo)
  /\ UNCHANGED <<source, read, stack, loops>>

Reading == status = "compiling" /\ todo = <<>>
AtEnd == read < Len(source) => source[read + 1] = "xFF"
Char == source[read + 1]

ReadStraight ==
  /\ Reading /\ ~AtEnd /\ Char \notin {"[", "]"}
  /\ read' = read + 1 /\ todo' = Straight(Char)
  /\ UNCHANGED <<source, insns, code, stack, loops, status>>

(* '[': load the cell, push the two offsets, emit a branch without target. *)
OpenLoop ==
  /\ Reading /\ ~AtEnd /\ Char = "["
  /\ \E loaded \in O!Reserve(insns, 4) :
       /\ insns' \in O!Reserve(loaded, 4)
       /\ stack' \in O!Reserve(stack, InfoSize)
       /\ status' = IF O!Written(loaded, 4) # "ok" THEN O!Written(loaded, 4)
                    ELSE IF O!Written(stack', InfoSize) # "ok"
                    THEN O!Written(stack', InfoSize)
                    ELSE After(O!Written(insns', 4))
       /\ loops' = Append(loops, [check |-> insns.len, beq |-> loaded.len])
  /\ code' = code \o <<load_cell, asm_empty_beq(rv_t0, rv_zero)>>
  /\ read' = read + 1
  /\ UNCHANGED <<source, todo>>

BugPopHalf(s) == [s EXCEPT !.len = @ - 4]
(* pop_loop() takes the last struct loop_info off the stack.               *)
Pop(s) == [s EXCEPT !.len = @ - InfoSize]
BugTopLoop == Head(loops)
TopLoop == loops[Len(loops)]

i16(n) == ((n + 2^15) % 2^16) - 2^15

BugDistance(info, loopEnd) == i16(loopEnd - info.beq)
(* dist_from_chk, as the i16 it is stored in.                              *)
Distance(info, loopEnd) == i16(loopEnd - info.check)

(* ']': pop, reserve the jump, patch the branch, write the jump.           *)
CloseLoop ==
  /\ Reading /\ ~AtEnd /\ Char = "]" /\ loops # <<>>
  /\ insns' \in O!Reserve(insns, 4)
  /\ status' = After(O!Written(insns', 4))
  /\ LET dist == Distance(TopLoop, insns'.len)
         beq  == (TopLoop.beq \div 4) + 1
     IN code' = Append([code EXCEPT ![beq].imm = dist], asm_jal(rv_zero, -dist))
  /\ stack' = Pop(stack)
  /\ loops' = SubSeq(loops, 1, Len(loops) - 1)
  /\ read' = read + 1
  /\ UNCHANGED <<source, todo>>

(* Without its '[' the length of the stack wraps, and what is popped lies  *)
(* beyond the buffer, 2^32 bytes after or before it: the read may fail, or *)
(* give the place of a patch that goes anywhere.                           *)
CloseNothing ==
  /\ Reading /\ ~AtEnd /\ Char = "]" /\ loops = <<>>
  /\ status' \in {"segv", "wild"}
  /\ UNCHANGED <<source, read, todo, insns, code, stack, loops>>

EndOfInput ==
  /\ Reading /\ AtEnd
  /\ status' = "ending" /\ todo' = Epilogue
  /\ UNCHANGED <<source, read, insns, code, stack, loops>>

(* exit(0) is emitted; the stack is freed, whatever is left on it.         *)
Finish ==
  /\ status = "ending" /\ todo = <<>>
  /\ status' = "done" /\ stack' = O!Empty /\ loops' = <<>>
  /\ UNCHANGED <<source, read, todo, insns, code>>

Compile ==
  \/ EmitInsn \/ ReadStraight \/ OpenLoop \/ CloseLoop \/ CloseNothing
  \/ EndOfInput \/ Finish

CompilerSpec == Init /\ [][Compile]_compiler

-----------------------------------------------------------------------------
(* The type of every variable, the contents of the buffers as long as      *)
(* their lengths say.                                                      *)
LoopInfo == [check: Nat, beq: Nat]
Alive == status \in {"compiling", "ending", "done"}

TypeOK ==
  /\ source \in Sources /\ read \in 0..Len(source)
  /\ todo \in Seq(Insn) /\ code \in Seq(Insn) /\ loops \in Seq(LoopInfo)
  /\ insns \in O!Buffer /\ stack \in O!Buffer
  /\ status \in {"compiling", "ending", "done", "segv", "wild"}
  /\ Alive => insns.len = 4 * Len(code) /\ stack.len = InfoSize * Len(loops)

(* Patching: what is on the stack are the places of the branches that have *)
(* no target yet, all of them, in the order of the code, each with the     *)
(* load before it; so that a ']' patches the innermost open loop and       *)
(* nothing else.                                                           *)
OpenBranch(i) == i \in 1..Len(code) /\ code[i].op = "beq" /\ code[i].imm = Unset

OpenLoopsOnStack ==
  status \in {"compiling", "ending"} =>
    /\ \A l \in 1..Len(loops) :
         /\ OpenBranch((loops[l].beq \div 4) + 1)
         /\ loops[l].beq % 4 = 0 /\ loops[l].check = loops[l].beq - 4
         /\ l > 1 => loops[l - 1].beq < loops[l].beq
    /\ \A i \in 1..Len(code) :
         OpenBranch(i) => \E l \in 1..Len(loops) : loops[l].beq = 4 * (i - 1)

(* Brackets, by counting: '[' at i and ']' at j belong together when the   *)
(* text from i to j is balanced and no shorter text from i is.             *)
Weight(c) == CASE c = "[" -> 1 [] c = "]" -> -1 [] OTHER -> 0
Level[n \in 0..Len(source)] ==
  IF n = 0 THEN 0 ELSE Level[n - 1] + Weight(source[n])
Depth(i, j) == Level[j] - Level[i - 1]
Matches(i, j) == /\ i < j /\ source[i] = "[" /\ source[j] = "]" /\ Depth(i, j) = 0
                 /\ \A n \in i..(j - 1) : Depth(i, n) > 0

(* How many instructions a command has, and where the code of the first n  *)
(* characters ends; how far the end of a loop is from its begin, in bytes. *)
InsnCount(c) == CASE c = "[" -> 2 [] c \in {"]", ">", "<"} -> 1
                  [] c \in {"+", "-"} -> 3 [] c \in {".", ","} -> 5 [] OTHER -> 0
CodeEnd[n \in 0..Len(source)] ==
  IF n = 0 THEN 2 ELSE CodeEnd[n - 1] + InsnCount(source[n])
Span(i, j) == i16(4 * (CodeEnd[j] - CodeEnd[i - 1]))

Translation(i) ==
  IF source[i] = "["
  THEN <<load_cell,
         [asm_empty_beq(rv_t0, rv_zero) EXCEPT !.imm =
            IF \E j \in i..read : Matches(i, j)
            THEN Span(i, CHOOSE j \in i..read : Matches(i, j)) ELSE Unset]>>
  ELSE IF source[i] = "]"
  THEN <<asm_jal(rv_zero, -Span(CHOOSE j \in 1..i : Matches(j, i), i))>>
  ELSE Straight(source[i])

(* The code is the source, command by command and in order, between        *)
(* prologue and epilogue; the branch of a loop spans exactly the loop that *)
(* its brackets enclose, however loops nest and follow each other; and     *)
(* only the byte 255 cuts it short.                                        *)
CodeFollowsSource ==
  status = "done" =>
    /\ read = Len(source) \/ source[read + 1] = "xFF"
    /\ \A i \in 1..read :
         SubSeq(code, CodeEnd[i - 1] + 1, CodeEnd[i]) = Translation(i)
    /\ Len(code) = CodeEnd[read] + 3

(* The encoders and the decoders of the emulator agree: what the emulator  *)
(* decodes of each word is the instruction bfc meant (a jal excepted, and  *)
(* a distance that 13 bits cannot hold).                                   *)
Decodes(insn) ==
  LET raw == Encode(insn)
      imm12 == FromNat(insn.imm % 2^12) \union SignFill(insn.imm < 0, 12)
  IN CASE insn.op = "lui" -> Opcode(raw) = op_lui /\ Rd(raw) = insn.rd
                             /\ read_upper_immediate(raw) = Shl(FromNat(insn.imm), 12)
       [] insn.op \in {"addi", "lbu"} ->
            /\ Opcode(raw) = (IF insn.op = "addi" THEN op_imm ELSE op_load)
            /\ Funct3(raw) = (IF insn.op = "addi" THEN 0 ELSE 4)
            /\ Rd(raw) = insn.rd /\ Rs1(raw) = insn.rs1
            /\ read_i_immediate(raw) = imm12
       [] insn.op = "sb" ->
            /\ Opcode(raw) = op_store /\ Funct3(raw) = 0
            /\ Rs1(raw) = insn.rs1 /\ Rs2(raw) = insn.rs2
            /\ read_s_immediate(raw) = imm12
       [] insn.op = "or" ->
            /\ Opcode(raw) = op_op /\ Funct3(raw) = 6 /\ Funct7(raw) = 0
            /\ Rd(raw) = insn.rd /\ Rs1(raw) = insn.rs1 /\ Rs2(raw) = insn.rs2
       [] insn.op = "ecall" -> raw = FromNat(op_system)
       [] insn.op = "beq" ->
            /\ Opcode(raw) = op_branch /\ Funct3(raw) = 0
            /\ Rs1(raw) = insn.rs1 /\ Rs2(raw) = insn.rs2
            /\ insn.imm \in 0..4095 => read_b_immediate(raw) = FromNat(insn.imm)
       [] OTHER -> TRUE

DecodesAsMeant == status = "done" => \A i \in 1..Len(code) : Decodes(code[i])

(* Robustness: the compiler only leaves its buffers, or reads below its    *)
(* stack, for a ']' without '[' or for more code than half of what a u32   *)
(* can count.                                                              *)
WildOnlyIf ==
  status = "wild" =>
    \/ 4 * Len(code) > O!Half
    \/ \E j \in 1..Len(source) : /\ j = read + 1 /\ source[j] = "]"
                                 /\ \A i \in 1..j : ~Matches(i, j)
=============================================================================
