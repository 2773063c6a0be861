------------------------------- MODULE MCBfc -------------------------------
(* Programs for bfc, and those of them to execute.                         *)
EXTENDS Toolchain, SequencesExt

Upto(chars, n) == UNION {TupleOf(chars, i) : i \in 0..n}

(* Every nesting and sequence of up to six brackets, matched or not, with  *)
(* and without something around them.                                      *)
Brackets == Upto({"[", "]"}, 6)
Filled == Upto({"[", "]", ">", "xFF"}, 4) \union {<<"+", "[", ">", "[", "-", "]", "comment", "]", ".">>}

(* Loops with bodies so long that their code passes half of what a u32, as *)
(* scaled down, can count, or just does not.                               *)
Long(n) == <<"[">> \o [i \in 1..n |-> ">"] \o <<"]">>
LongPrograms == {Long(1), Long(24), Long(25)}

(* What is executed: all that stays on the tape, and some that leaves it.  *)
Plain == Upto({"+", "-", ">", "<"}, 3)
         \union Upto({"+", ">", ".", ",", "comment"}, 3)
Wrapping == {[i \in 1..15 |-> ">"] \o <<"+">>,
             <<"<", "+">>, [i \in 1..7 |-> "-"]}
Looping == {<<"[", "]">>, <<"[", "-", "]", "+">>, <<"+", "[", "-", "]">>}

AllSources == Brackets \union Filled \union LongPrograms \union Plain \union Wrapping
StraightLine == Plain \union Wrapping
=============================================================================
