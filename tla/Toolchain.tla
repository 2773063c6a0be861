----------------------------- MODULE Toolchain -----------------------------
(***************************************************************************)
(* From Brainfuck to its execution: bfc compiles the program (Bfc), the    *)
(* code is put into an image as the ELF loader puts what bfc writes        *)
(* (EmitLoad shows where: the tape at 0, the code on the first page after  *)
(* it), and the interpreter executes it (Interpret).  The sizes of tape    *)
(* and page are scaled down.                                               *)
(***************************************************************************)
EXTENDS Bfc

CONSTANTS
  NDEBUG, ImageWords, PageWords,  \* see module Interpret
  Cells,                          \* the length of the tape, 3 * 1024
  Executed                        \* the programs to execute

ASSUME ExecutedAssumption == Executed \subseteq Sources
ASSUME CellsAssumption == Cells \in 1..(4 * PageWords)

VARIABLES pc, registers, mem, prot, guest

I == INSTANCE Interpret WITH Starts <- {}, status <- guest

running == <<pc, registers, mem, prot, guest>>
toolchain == <<compiler, running>>

-----------------------------------------------------------------------------
EntryWord == PageWords
CodeWords == EntryWord..(EntryWord + Len(code) - 1)

ImageOf(words) ==
  [w \in I!Image |-> IF w \in CodeWords THEN Encode(words[w - EntryWord + 1])
                     ELSE ZeroW]

ToolInit ==
  /\ Init
  /\ pc = FromNat(4 * EntryWord)
  /\ registers = [x \in I!Registers |-> ZeroW]
  /\ mem = [w \in I!Image |-> ZeroW] /\ prot = [p \in I!Pages |-> {}]
  /\ guest = "none"

Compiling == Compile /\ UNCHANGED running

HandOver ==
  /\ status = "done" /\ guest = "none" /\ source \in Executed
  /\ EntryWord + Len(code) <= ImageWords
  /\ guest' = "running" /\ mem' = ImageOf(code)
  /\ prot' = [p \in I!Pages |->
                IF p = 0 THEN {"R", "W"}
                ELSE IF \E w \in CodeWords : w \div PageWords = p THEN {"R", "X"}
                ELSE {}]
  /\ UNCHANGED <<compiler, pc, registers>>

Executing == I!Next /\ UNCHANGED compiler

ToolNext == Compiling \/ HandOver \/ Executing

Spec == ToolInit /\ [][ToolNext]_toolchain

-----------------------------------------------------------------------------
(* The commands of the program; the place of the command whose code holds  *)
(* pc, the first of them during the prologue, one past the last after it,  *)
(* none for a pc that is at no instruction.                                *)
Commands == SelectSeq(source, LAMBDA c : c # "comment")
Starts == [i \in 1..(Len(Commands) + 1) |->
             4 * EntryWord + 8 +
               (LET sum[n \in 0..(i - 1)] ==
                      IF n = 0 THEN 0 ELSE sum[n - 1] + 4 * InsnCount(Commands[n])
                IN sum[i - 1])]
At == Value(pc, 30)
Current ==
  IF At % 4 # 0 THEN 0
  ELSE IF At < Starts[1] THEN 1
  ELSE CHOOSE i \in DOMAIN Starts : /\ Starts[i] <= At
                                    /\ \A j \in DOMAIN Starts :
                                         j > i => At < Starts[j]

ByteAt(a) == Value(Shr(mem[a \div 4], 8 * (a % 4)), 8)

B == INSTANCE Brainfuck WITH
       Lenient <- NDEBUG,
       program <- Commands,
       next <- Current,
       pointer <- Signed(registers[rv_s1]),
       tape <- [c \in 0..(Cells - 1) |-> ByteAt(c)],
       stopped <- guest \notin {"none", "running"}

(* What the interpreter does with the code bfc makes of a program is what  *)
(* Brainfuck says of the program: cells wrap at 256 both ways, comments do *)
(* nothing, the tape is the one the pointer of the code runs over, and the *)
(* process ends after the last command and not before.                     *)
ImplementsBrainfuck == B!Spec

-----------------------------------------------------------------------------
(* What the code says of itself and does not do.                           *)

(* "Skipping the loop body is skipping right here.", "Make sure the loop   *)
(* body ends with a jump to the check.": a branch of a '[' that is taken   *)
(* leads to the command after the loop, and a ']' leads back to its '['.   *)
LoopsJumpAsSaid ==
  [][guest = "running" /\ guest' = "running" /\ Current \in 1..Len(Commands) =>
       /\ Commands[Current] = "]" =>
            \E i \in 1..Current : B!Matching(i, Current) /\ At' = Starts[i]
       /\ Commands[Current] = "[" /\ At' # At + 4 =>
            \E j \in Current..Len(Commands) :
              B!Matching(Current, j) /\ At' = Starts[j + 1]]_toolchain
=============================================================================
