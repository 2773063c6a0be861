------------------------------- MODULE MCCpu -------------------------------
(* Command lines of up to four words, and files to load.                   *)
EXTENDS Cpu, SequencesExt

Words == {"a", "raw", "elf", "--mode", "--empend-segment", "--help", "-8",
          "8", "9", "huge"}
FlagWords == {"--mode", "--empend-segment", "--help", "-8"}

(* A page has 8 bytes, a u32 counts 64 and a size_t 256.                   *)
Values == [w \in {"-8", "8", "9", "56", "57", "64", "72", "huge"} |->
             CASE w = "-8" -> 248 [] w = "8" -> 8 [] w = "9" -> 9
               [] w = "56" -> 56 [] w = "57" -> 57 [] w = "64" -> 64
               [] w = "72" -> 72 [] w = "huge" -> 255]

Short == UNION {TupleOf(Words, n) : n \in 0..3}
Raw(sizes) == <<"a", "--mode", "raw">> \o sizes
Size(n) == <<"--empend-segment", n>>
Long == {Raw(Size(n)) : n \in DOMAIN Values}
        \union {Raw(Size(n) \o Size(m)) : n, m \in DOMAIN Values}
        \union {Raw(<<"--mode", "elf">>), Raw(<<"--mode", "elf">> \o Size("8"))}

Lines == Short \union Long

Elf1(ident, start, types, flags) ==
  [ident |-> ident, machine |-> TRUE, entry |-> start, phentsize |-> 32,
   phdrs |-> <<[type |-> "LOAD", flags |-> flags]>>,
   shdrs |-> [n \in 1..Len(types) |-> [type |-> types[n]]]]

AllFiles ==
  {[bytes |-> 16, elf |-> Elf1(TRUE, 4, <<>>, {"R", "X"})],
   [bytes |-> 16, elf |-> Elf1(TRUE, 0, <<>>, {"R", "X"})],
   [bytes |-> 16, elf |-> Elf1(TRUE, 4, <<"RELA">>, {"R", "X"})],
   [bytes |-> 0, elf |-> Elf1(FALSE, 4, <<>>, {"R", "X"})]}
=============================================================================
