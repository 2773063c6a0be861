----------------------------- MODULE Brainfuck -----------------------------
(***************************************************************************)
(* What bfc promises: a Brainfuck program does on its tape what Brainfuck  *)
(* says, one command per step, with none of the instructions in between.   *)
(* A cell is a byte.  The machine that executes the program has no input   *)
(* and output yet (nothing but comments of bfc.c says what they would do): *)
(* it gives up at '.' and ',', or, if it is lenient, passes over them.     *)
(* Off the tape nothing is specified.                                      *)
(***************************************************************************)
EXTENDS Integers, Sequences

CONSTANTS
  Cells,   \* the length of the tape
  Lenient  \* whether the machine passes over input and output

VARIABLES
  program,  \* the commands, a sequence of characters
  next,     \* the place of the next command
  pointer,  \* the current cell
  tape,     \* the content of each cell
  stopped   \* whether the machine has come to its end or given up

machine == <<program, next, pointer, tape, stopped>>

OnTape == pointer \in 0..(Cells - 1)
Command(c) == ~stopped /\ OnTape /\ next \in 1..Len(program) /\ program[next] = c

(* Brackets match when the text between them is balanced.                  *)
Nesting(i, j) ==
  LET depth[n \in (i - 1)..j] ==
        IF n < i THEN 0
        ELSE depth[n - 1] + (IF program[n] = "[" THEN 1 ELSE 0)
                          - (IF program[n] = "]" THEN 1 ELSE 0)
  IN depth[j]
Matching(i, j) == /\ i < j /\ program[i] = "[" /\ program[j] = "]"
                  /\ Nesting(i, j) = 0 /\ \A n \in i..(j - 1) : Nesting(i, n) > 0

-----------------------------------------------------------------------------
Init ==
  /\ next = 1 /\ pointer = 0 /\ stopped = FALSE
  /\ tape = [c \in 0..(Cells - 1) |-> 0]

Step(target) == next' = target /\ UNCHANGED <<program, stopped>>

Change(c, d) ==
  /\ Command(c) /\ Step(next + 1)
  /\ tape' = [tape EXCEPT ![pointer] = (@ + d) % 256]
  /\ pointer' = pointer

Move(c, d) ==
  /\ Command(c) /\ Step(next + 1)
  /\ pointer' = pointer + d /\ tape' = tape

Enter ==
  /\ Command("[")
  /\ \/ tape[pointer] # 0 /\ Step(next + 1)
     \/ /\ tape[pointer] = 0
        /\ \E j \in next..Len(program) : Matching(next, j) /\ Step(j + 1)
  /\ UNCHANGED <<pointer, tape>>

Repeat ==
  /\ Command("]")
  /\ \E i \in 1..next : Matching(i, next) /\ Step(i)
  /\ UNCHANGED <<pointer, tape>>

InputOutput ==
  /\ Lenient /\ (Command(".") \/ Command(","))
  /\ Step(next + 1)
  /\ UNCHANGED <<pointer, tape>>

(* At its end the program exits; at input and output it may give up.       *)
Stop ==
  /\ ~stopped /\ stopped' = TRUE
  /\ OnTape => next > Len(program) \/ program[next] \in {".", ","}
  /\ UNCHANGED <<program, next, pointer, tape>>

OffTape == ~OnTape

Next == \/ Change("+", 1) \/ Change("-", -1) \/ Move(">", 1) \/ Move("<", -1)
        \/ Enter \/ Repeat \/ InputOutput \/ Stop \/ OffTape

Spec == Init /\ [][Next]_machine
=============================================================================
