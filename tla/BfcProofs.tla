----------------------------- MODULE BfcProofs -----------------------------
(***************************************************************************)
(* Proofs about the compiler, for every set of programs and every width    *)
(* of a u32 from 4 to 32, also as part of the toolchain.                   *)
(*                                                                         *)
(* The argument: what the lengths of the two buffers are is a matter of    *)
(* what reserving does (ReserveProperties, proved in OutProofs).  On top   *)
(* of it LoopsInv, which sharpens OpenLoopsOnStack, is inductive: the      *)
(* places on the stack are in order pairwise, not only each and the next,  *)
(* so that patching the innermost branch closes no other; what is still to *)
(* be emitted is no branch; and the l-th open loop has at least l pairs of *)
(* instructions before its end, so that the stack never outgrows the code. *)
(*                                                                         *)
(* That the code is the translation of the program adds SourceInv: the     *)
(* stack holds the loops that are open by the levels of the brackets       *)
(* (SourceLoops), and the code, with what is still to be emitted of the    *)
(* current character, is the translation of what has been read (TextInv).  *)
(* It rests on two facts about brackets: one belongs to at most one other  *)
(* (MatchIsUnique), and a ']' to the innermost loop (InnermostLoop).       *)
(*                                                                         *)
(* That the words of the code decode to its instructions is DecodedInv.    *)
(* All that is ever emitted does, by the formats of RvInsnProofs; patching *)
(* a branch keeps it so because the distance is one between instructions   *)
(* (DistanceAligned): its lowest bit, which the format has no place for,   *)
(* is 0.                                                                   *)
(***************************************************************************)
EXTENDS Toolchain, Induction, RvInsnProofs, SequenceTheorems, TLAPS

-----------------------------------------------------------------------------
(* What is proved of growable buffers, of those of the compiler.           *)
P == INSTANCE OutProofs

LEMMA SameBuffers ==
  /\ O!U32 = P!U32 /\ O!Half = P!Half /\ O!Powers = P!Powers /\ O!Buffer = P!Buffer
  /\ \A out, count : O!Reserve(out, count) = P!Reserve(out, count)
  /\ \A out, count : O!Written(out, count) = P!Written(out, count)
<1>1. /\ O!U32 = P!U32 /\ O!Half = P!Half /\ O!Powers = P!Powers
      /\ O!Null = P!Null /\ O!Blocks = P!Blocks
  BY DEF O!U32, P!U32, O!Half, P!Half, O!Powers, P!Powers, O!Null, P!Null,
         O!Blocks, P!Blocks
<1>2. O!Buffer = P!Buffer
  BY <1>1, Zenon DEF O!Buffer, P!Buffer
<1>3. \A val : O!NextPo2(val) = P!NextPo2(val)
  BY <1>1, Zenon DEF O!NextPo2, P!NextPo2
<1>4. \A block : O!Reallocated(block) = P!Reallocated(block)
  BY <1>1, Zenon DEF O!Reallocated, P!Reallocated
<1>5. \A required, block : O!Grown(required, block) = P!Grown(required, block)
  BY <1>3, <1>4 DEF O!Grown, P!Grown, O!MaxPo2, P!MaxPo2
<1>6. \A out, count : O!Reserve(out, count) = P!Reserve(out, count)
  BY <1>1, <1>5, Zenon DEF O!Reserve, P!Reserve
<1>7. \A out, count : O!Written(out, count) = P!Written(out, count)
  BY <1>1, Zenon DEF O!Written, P!Written
<1> QED BY <1>1, <1>2, <1>6, <1>7

LEMMA U32Properties ==
  /\ O!U32 \in Nat /\ O!Half \in Nat /\ O!U32 >= 16 /\ O!U32 = 2 * O!Half
  /\ \A p \in O!Powers : p \in Nat \ {0} /\ p <= O!Half
BY SameBuffers, WidthAssumption, P!U32Properties

LEMMA ReserveProperties ==
  ASSUME NEW out \in O!Buffer, NEW count \in 1..8, NEW new \in O!Reserve(out, count)
  PROVE  /\ new \in O!Buffer
         /\ new.len = (out.len + count) % O!U32
         /\ out.len + count <= O!Half => new.len = out.len + count
                                         /\ new.len <= new.cap
<1>1. count \in 0..(P!U32 - 1)
  BY SameBuffers, U32Properties
<1>2. out \in P!Buffer /\ new \in P!Reserve(out, count)
  BY SameBuffers
<1>3. /\ new \in P!Buffer
      /\ new.len = (out.len + count) % P!U32
      /\ out.len + count <= P!Half => new.len = out.len + count
                                      /\ new.len <= new.cap
  BY <1>1, <1>2, WidthAssumption, P!ReserveProperties
<1> QED BY <1>3, SameBuffers

LEMMA WrittenProperties ==
  ASSUME NEW out \in O!Buffer, NEW count \in 1..8, NEW new \in O!Reserve(out, count)
  PROVE  /\ O!Written(new, count) \in {"ok", "segv", "wild"}
         /\ O!Written(new, count) = "ok" => new.len = out.len + count
         /\ out.len + count <= O!Half => O!Written(new, count) # "wild"
<1>1. count \in 0..(P!U32 - 1)
  BY SameBuffers, U32Properties
<1>2. out \in P!Buffer /\ new \in P!Reserve(out, count)
  BY SameBuffers
<1>3. /\ P!Written(new, count) \in {"ok", "segv", "wild"}
      /\ P!Written(new, count) = "ok" => new.len = out.len + count
      /\ out.len + count <= P!Half => P!Written(new, count) # "wild"
  BY <1>1, <1>2, WidthAssumption, P!WrittenProperties
<1> QED BY <1>3, SameBuffers

-----------------------------------------------------------------------------
(* What is emitted other than for a bracket is no branch.                  *)
NoBranch == {insn \in Insn : insn.op # "beq"}

LEMMA InsnTypes ==
  ASSUME NEW d \in 0..31, NEW a \in 0..31, NEW b \in 0..31, NEW n \in Int
  PROVE  /\ asm_lui(d, n) \in NoBranch
         /\ asm_addi(d, a, n) \in NoBranch
         /\ asm_lbu(a, d, n) \in NoBranch
         /\ asm_sb(a, b, n) \in NoBranch
         /\ asm_or(d, a, b) \in NoBranch
         /\ asm_jal(d, n) \in NoBranch
         /\ asm_ecall \in NoBranch
<1>1. asm_lui(d, n) \in NoBranch
  BY DEF NoBranch, Insn, asm_lui
<1>2. asm_addi(d, a, n) \in NoBranch
  BY DEF NoBranch, Insn, asm_addi
<1>3. asm_lbu(a, d, n) \in NoBranch
  BY DEF NoBranch, Insn, asm_lbu
<1>4. asm_sb(a, b, n) \in NoBranch
  BY DEF NoBranch, Insn, asm_sb
<1>5. asm_or(d, a, b) \in NoBranch
  BY DEF NoBranch, Insn, asm_or
<1>6. asm_jal(d, n) \in NoBranch
  BY DEF NoBranch, Insn, asm_jal
<1>7. asm_ecall \in NoBranch
  BY DEF NoBranch, Insn, asm_ecall
<1> QED BY <1>1, <1>2, <1>3, <1>4, <1>5, <1>6, <1>7

LEMMA BranchType ==
  ASSUME NEW a \in 0..31, NEW b \in 0..31
  PROVE  /\ asm_empty_beq(a, b) \in Insn
         /\ asm_empty_beq(a, b).op = "beq" /\ asm_empty_beq(a, b).imm = Unset
<1>1. Unset \in Int
  BY DEF Unset
<1> QED BY <1>1 DEF Insn, asm_empty_beq

LEMMA RegisterTypes ==
  /\ rv_s1 \in 0..31 /\ rv_t0 \in 0..31 /\ rv_zero \in 0..31 /\ rv_a0 \in 0..31
  /\ rv_a2 \in 0..31 /\ rv_a7 \in 0..31
BY DEF rv_s1, rv_t0, rv_zero, rv_a0, rv_a2, rv_a7

LEMMA EmittedTypes ==
  /\ load_cell \in NoBranch /\ store_cell \in NoBranch
  /\ Prologue \in Seq(NoBranch) /\ Epilogue \in Seq(NoBranch)
  /\ \A c \in Chars \ {"[", "]", "xFF"} : Straight(c) \in Seq(NoBranch)
<1>1. load_cell \in NoBranch /\ store_cell \in NoBranch
  <2>1. 0 \in Int
    OBVIOUS
  <2>2. asm_lbu(rv_s1, rv_t0, 0) \in NoBranch
    BY ONLY <2>1, InsnTypes, RegisterTypes
  <2>3. asm_sb(rv_s1, rv_t0, 0) \in NoBranch
    BY ONLY <2>1, InsnTypes, RegisterTypes
  <2> QED BY <2>2, <2>3 DEF load_cell, store_cell
<1>2. \A n \in Int : asm_addi(rv_a7, rv_zero, n) \in NoBranch
  BY InsnTypes, RegisterTypes
<1>3. /\ asm_addi(rv_a0, rv_zero, 0) \in NoBranch
      /\ asm_addi(rv_a0, rv_zero, 1) \in NoBranch
      /\ asm_addi(rv_a2, rv_zero, 1) \in NoBranch
      /\ asm_addi(rv_a7, rv_zero, 93) \in NoBranch
      /\ asm_addi(rv_s1, rv_zero, 0) \in NoBranch
      /\ asm_addi(rv_s1, rv_s1, 1) \in NoBranch
      /\ asm_addi(rv_s1, rv_s1, -1) \in NoBranch
      /\ asm_addi(rv_t0, rv_t0, 1) \in NoBranch
      /\ asm_addi(rv_t0, rv_t0, -1) \in NoBranch
  <2>1. \A d, a \in 0..31 : \A n \in Int : asm_addi(d, a, n) \in NoBranch
    BY InsnTypes
  <2>2. /\ \A n \in Int : asm_addi(rv_a0, rv_zero, n) \in NoBranch
        /\ \A n \in Int : asm_addi(rv_a2, rv_zero, n) \in NoBranch
        /\ \A n \in Int : asm_addi(rv_s1, rv_zero, n) \in NoBranch
        /\ \A n \in Int : asm_addi(rv_s1, rv_s1, n) \in NoBranch
        /\ \A n \in Int : asm_addi(rv_t0, rv_t0, n) \in NoBranch
    BY <2>1, RegisterTypes
  <2>3. 0 \in Int /\ 1 \in Int /\ -1 \in Int /\ 93 \in Int
    OBVIOUS
  <2> QED BY <1>2, <2>2, <2>3
<1>4. /\ asm_lui(rv_s1, rv_zero) \in NoBranch
      /\ asm_or(rv_a0, rv_zero, rv_s1) \in NoBranch /\ asm_ecall \in NoBranch
  <2>1. rv_zero \in Int
    BY RegisterTypes
  <2> QED BY <2>1, InsnTypes, RegisterTypes
<1>5. Prologue \in Seq(NoBranch)
  BY <1>3, <1>4 DEF Prologue
<1>6. Epilogue \in Seq(NoBranch)
  BY <1>3, <1>4 DEF Epilogue
<1>7. \A n \in Int : Call(n) \in Seq(NoBranch)
  BY <1>2, <1>3, <1>4 DEF Call
<1>8. ASSUME NEW c \in Chars \ {"[", "]", "xFF"}
      PROVE  Straight(c) \in Seq(NoBranch)
  <2>1. CASE c = "+"
    BY <2>1, <1>1, <1>3 DEF Straight
  <2>2. CASE c = "-"
    BY <2>2, <1>1, <1>3 DEF Straight
  <2>3. CASE c = "." \/ c = ","
    <3>1. Call(63) \in Seq(NoBranch) /\ Call(64) \in Seq(NoBranch)
      BY <1>7
    <3>2. c = "." => Straight(c) = Call(64)
      BY DEF Straight
    <3>3. c = "," => Straight(c) = Call(63)
      BY DEF Straight
    <3> QED BY <2>3, <3>1, <3>2, <3>3
  <2>4. CASE c = ">"
    BY <2>4, <1>3 DEF Straight
  <2>5. CASE c = "<"
    BY <2>5, <1>3 DEF Straight
  <2>6. CASE c = "comment"
    BY <2>6, EmptySeq DEF Straight
  <2> QED BY <2>1, <2>2, <2>3, <2>4, <2>5, <2>6 DEF Chars
<1> QED BY <1>1, <1>5, <1>6, <1>8

-----------------------------------------------------------------------------
(* The place of the branch of an open loop in the code.                    *)
Place(l) == (loops[l].beq \div 4) + 1

LoopsOpen ==
  \A l \in 1..Len(loops) :
    /\ OpenBranch(Place(l))
    /\ loops[l].beq % 4 = 0 /\ loops[l].check = loops[l].beq - 4
    /\ 8 * l <= loops[l].beq + 4

LoopsOrdered ==
  \A l, m \in 1..Len(loops) : l < m => loops[l].beq < loops[m].beq

OpenKnown ==
  \A i \in 1..Len(code) :
    OpenBranch(i) => \E l \in 1..Len(loops) : loops[l].beq = 4 * (i - 1)

LoopsInv ==
  status \in {"compiling", "ending"} => LoopsOpen /\ LoopsOrdered /\ OpenKnown

(* Why the compiler may have left its buffers.                             *)
WildInv ==
  status = "wild" => \/ 4 * Len(code) > O!Half
                     \/ loops = <<>> /\ ~AtEnd /\ Char = "]"

BfcInv == TypeOK /\ todo \in Seq(NoBranch) /\ LoopsInv /\ WildInv

(* The open loops are few enough for the code there is.                    *)
LEMMA PlaceProperties ==
  ASSUME BfcInv, LoopsOpen
  PROVE  /\ Len(loops) \in Nat /\ Len(code) \in Nat
         /\ \A l \in 1..Len(loops) :
              /\ loops[l].beq \in Nat /\ loops[l].check \in Nat
              /\ Place(l) \in 1..Len(code) /\ loops[l].beq = 4 * (Place(l) - 1)
         /\ 8 * Len(loops) <= 4 * Len(code)
<1>1. loops \in Seq(LoopInfo) /\ Len(loops) \in Nat /\ Len(code) \in Nat
  BY DEF BfcInv, TypeOK
<1>2. \A l \in 1..Len(loops) : loops[l].beq \in Nat /\ loops[l].check \in Nat
  <2>1. \A l \in 1..Len(loops) : loops[l] \in LoopInfo
    BY <1>1, ElementOfSeq
  <2> QED BY <2>1 DEF LoopInfo
<1>3. ASSUME NEW l \in 1..Len(loops)
      PROVE  Place(l) \in 1..Len(code) /\ loops[l].beq = 4 * (Place(l) - 1)
  <2>1. loops[l].beq % 4 = 0 /\ Place(l) \in 1..Len(code)
    BY DEF LoopsOpen, OpenBranch
  <2>2. \A n \in Nat : n % 4 = 0 => n = 4 * (((n \div 4) + 1) - 1)
    OBVIOUS
  <2> QED BY <2>1, <2>2, <1>2 DEF Place
<1>4. 8 * Len(loops) <= 4 * Len(code)
  <2>1. CASE Len(loops) = 0
    BY <2>1, <1>1
  <2>2. CASE Len(loops) > 0
    <3> DEFINE l == Len(loops)
    <3>1. l \in 1..Len(loops)
      BY <2>2, <1>1
    <3>2. 8 * l <= loops[l].beq + 4 /\ Place(l) \in 1..Len(code)
          /\ loops[l].beq = 4 * (Place(l) - 1)
      BY <3>1, <1>3 DEF LoopsOpen
    <3> QED BY <3>1, <3>2, <1>1
  <2> QED BY <2>1, <2>2, <1>1
<1> QED BY <1>1, <1>2, <1>3, <1>4

LEMMA BfcInit == Init => BfcInv
<1> SUFFICES ASSUME Init PROVE BfcInv
  OBVIOUS
<1>1. /\ source \in Seq(Chars) /\ read = 0 /\ todo = Prologue /\ code = <<>>
      /\ loops = <<>> /\ insns = O!Empty /\ stack = O!Empty /\ status = "compiling"
  BY SourcesAssumption DEF Init
<1>2. O!Empty \in O!Buffer /\ O!Empty.len = 0
  BY U32Properties DEF O!Empty, O!Buffer, O!Null
<1>3. todo \in Seq(NoBranch) /\ todo \in Seq(Insn)
  <2>1. todo \in Seq(NoBranch) /\ NoBranch \subseteq Insn
    BY <1>1, EmittedTypes DEF NoBranch
  <2> QED BY <2>1
<1>4. /\ <<>> \in Seq(Insn) /\ <<>> \in Seq(LoopInfo) /\ Len(<<>>) = 0
  BY EmptySeq
<1>5. TypeOK
  BY <1>1, <1>2, <1>3, <1>4 DEF TypeOK, Alive, Init, InfoSize
<1>6. LoopsInv
  BY <1>1, <1>4 DEF LoopsInv, LoopsOpen, LoopsOrdered, OpenKnown
<1> QED BY <1>1, <1>3, <1>5, <1>6 DEF BfcInv, WildInv

-----------------------------------------------------------------------------
(* What a step needs to know of the state before it.                       *)
LEMMA Before ==
  ASSUME BfcInv, status \in {"compiling", "ending"}
  PROVE  /\ source \in Seq(Chars) /\ Len(source) \in Nat /\ read \in 0..Len(source)
         /\ code \in Seq(Insn) /\ Len(code) \in Nat
         /\ loops \in Seq(LoopInfo) /\ Len(loops) \in Nat
         /\ insns \in O!Buffer /\ stack \in O!Buffer
         /\ insns.len = 4 * Len(code) /\ stack.len = 8 * Len(loops)
         /\ todo \in Seq(NoBranch)
         /\ LoopsOpen /\ LoopsOrdered /\ OpenKnown
         /\ 8 * Len(loops) <= 4 * Len(code)
<1>1. LoopsOpen /\ LoopsOrdered /\ OpenKnown
  BY DEF BfcInv, LoopsInv
<1>2. TypeOK /\ todo \in Seq(NoBranch)
  BY DEF BfcInv
<1>3. insns.len = 4 * Len(code) /\ stack.len = 8 * Len(loops)
  BY <1>2 DEF TypeOK, Alive, InfoSize
<1>4. source \in Seq(Chars)
  BY <1>2, SourcesAssumption DEF TypeOK
<1> QED BY <1>1, <1>2, <1>3, <1>4, PlaceProperties DEF TypeOK

(* Code that only grows, by instructions that are no open branch, leaves   *)
(* the stack what it was about.                                            *)
LEMMA GrowthKeepsLoops ==
  ASSUME code \in Seq(Insn), code' \in Seq(Insn), Len(code) <= Len(code'),
         \A i \in 1..Len(code) : code'[i] = code[i],
         \A i \in 1..Len(code') : i > Len(code) => code'[i].op # "beq",
         loops' = loops, LoopsOpen, LoopsOrdered, OpenKnown
  PROVE  LoopsOpen' /\ LoopsOrdered' /\ OpenKnown'
<1>1. Len(code) \in Nat /\ Len(code') \in Nat
  OBVIOUS
<1>2. LoopsOpen'
  <2>1. \A i : OpenBranch(i) => OpenBranch(i)'
    BY <1>1 DEF OpenBranch
  <2>2. \A l : Place(l)' = Place(l)
    BY DEF Place
  <2> QED BY <2>1, <2>2 DEF LoopsOpen, OpenBranch
<1>3. OpenKnown'
  <2>1. \A i \in 1..Len(code') : OpenBranch(i)' => i \in 1..Len(code) /\ OpenBranch(i)
    BY <1>1 DEF OpenBranch
  <2> QED BY <2>1 DEF OpenKnown
<1>4. LoopsOrdered'
  BY DEF LoopsOrdered
<1> QED BY <1>2, <1>3, <1>4

LEMMA EmitInsnStep == BfcInv /\ EmitInsn => BfcInv'
<1> SUFFICES ASSUME BfcInv, EmitInsn PROVE BfcInv'
  OBVIOUS
<1>1. status \in {"compiling", "ending"} /\ todo # <<>>
  BY DEF EmitInsn
<1>2. /\ source \in Seq(Chars) /\ read \in 0..Len(source)
      /\ code \in Seq(Insn) /\ Len(code) \in Nat /\ loops \in Seq(LoopInfo)
      /\ insns \in O!Buffer /\ stack \in O!Buffer
      /\ insns.len = 4 * Len(code) /\ stack.len = 8 * Len(loops)
      /\ todo \in Seq(NoBranch) /\ LoopsOpen /\ LoopsOrdered /\ OpenKnown
  BY <1>1, Before
<1>3. Head(todo) \in NoBranch /\ Tail(todo) \in Seq(NoBranch)
  BY <1>1, <1>2, HeadTailProperties
<1>4. /\ code' = Append(code, Head(todo)) /\ todo' = Tail(todo)
      /\ status' = After(O!Written(insns', 4)) /\ insns' \in O!Reserve(insns, 4)
      /\ UNCHANGED <<source, read, stack, loops>>
  BY DEF EmitInsn
<1>5. Head(todo) \in Insn /\ Head(todo).op # "beq"
  BY <1>3 DEF NoBranch
<1>6. /\ code' \in Seq(Insn) /\ Len(code') = Len(code) + 1
      /\ \A i \in 1..Len(code) : code'[i] = code[i]
      /\ code'[Len(code) + 1] = Head(todo)
  BY <1>2, <1>4, <1>5, AppendProperties
<1>7. /\ insns' \in O!Buffer
      /\ O!Written(insns', 4) \in {"ok", "segv", "wild"}
      /\ O!Written(insns', 4) = "ok" => insns'.len = 4 * Len(code')
      /\ O!Written(insns', 4) = "wild" => 4 * Len(code') > O!Half
  <2>1. insns' \in O!Buffer
    BY <1>2, <1>4, ReserveProperties
  <2>2. /\ O!Written(insns', 4) \in {"ok", "segv", "wild"}
        /\ O!Written(insns', 4) = "ok" => insns'.len = insns.len + 4
        /\ insns.len + 4 <= O!Half => O!Written(insns', 4) # "wild"
    BY <1>2, <1>4, WrittenProperties
  <2>3. insns.len + 4 = 4 * Len(code')
    BY <1>2, <1>6
  <2> QED BY <2>1, <2>2, <2>3, <1>2, <1>6, U32Properties
<1>8. /\ status' \in {"compiling", "ending", "segv", "wild"}
      /\ status' \in {"compiling", "ending"} => O!Written(insns', 4) = "ok"
      /\ status' = "wild" => O!Written(insns', 4) = "wild"
  BY <1>1, <1>4, <1>7 DEF After
<1>9. LoopsOpen' /\ LoopsOrdered' /\ OpenKnown'
  <2>1. \A i \in 1..Len(code') : i > Len(code) => code'[i].op # "beq"
    BY <1>2, <1>5, <1>6
  <2> QED BY <2>1, <1>2, <1>4, <1>6, GrowthKeepsLoops
<1>10. TypeOK'
  <2>1. Tail(todo) \in Seq(Insn)
    BY <1>3 DEF NoBranch
  <2>2. source' \in Sources /\ read' \in 0..Len(source')
    BY <1>4 DEF BfcInv, TypeOK
  <2>3. Alive' => insns'.len = 4 * Len(code') /\ stack'.len = InfoSize * Len(loops')
    BY <1>2, <1>4, <1>7, <1>8 DEF Alive, InfoSize
  <2> QED BY <2>1, <2>2, <2>3, <1>2, <1>4, <1>6, <1>7, <1>8 DEF TypeOK
<1> QED BY <1>3, <1>4, <1>7, <1>8, <1>9, <1>10 DEF BfcInv, LoopsInv, WildInv

LEMMA ReadStraightStep == BfcInv /\ ReadStraight => BfcInv'
<1> SUFFICES ASSUME BfcInv, ReadStraight PROVE BfcInv'
  OBVIOUS
<1>1. status = "compiling" /\ ~AtEnd /\ Char \notin {"[", "]"}
  BY DEF ReadStraight, Reading
<1>2. /\ source \in Seq(Chars) /\ Len(source) \in Nat /\ read \in 0..Len(source)
      /\ code \in Seq(Insn) /\ LoopsOpen /\ LoopsOrdered /\ OpenKnown
  BY <1>1, Before
<1>3. read < Len(source) /\ Char # "xFF"
  BY <1>1, <1>2 DEF AtEnd, Char
<1>4. Char \in Chars \ {"[", "]", "xFF"}
  <2>1. read + 1 \in 1..Len(source)
    BY <1>2, <1>3
  <2> QED BY <2>1, <1>1, <1>2, <1>3, ElementOfSeq DEF Char
<1>5. Straight(Char) \in Seq(NoBranch)
  BY <1>4, EmittedTypes
<1>6. /\ read' = read + 1 /\ todo' = Straight(Char)
      /\ UNCHANGED <<source, insns, code, stack, loops, status>>
  BY DEF ReadStraight
<1>7. Straight(Char) \in Seq(Insn)
  BY <1>5 DEF NoBranch
<1>8. read + 1 \in 0..Len(source)
  BY <1>2, <1>3
<1>9. TypeOK'
  BY <1>6, <1>7, <1>8 DEF BfcInv, TypeOK, Alive
<1>10. LoopsOpen' /\ LoopsOrdered' /\ OpenKnown'
  BY <1>2, <1>6 DEF LoopsOpen, LoopsOrdered, OpenKnown, OpenBranch, Place
<1> QED BY <1>1, <1>5, <1>6, <1>9, <1>10 DEF BfcInv, LoopsInv, WildInv

(* Two reservations follow each other; the stack grows by one.             *)
LEMMA OpenLoopBuffers ==
  ASSUME BfcInv, OpenLoop
  PROVE  /\ insns' \in O!Buffer /\ stack' \in O!Buffer
         /\ status' \in {"compiling", "segv", "wild"}
         /\ \E start \in Nat :
              /\ loops' = Append(loops, [check |-> insns.len, beq |-> start])
              /\ status' = "compiling" =>
                   /\ start = insns.len + 4 /\ insns'.len = insns.len + 8
                   /\ stack'.len = stack.len + 8
              /\ status' = "wild" => 4 * Len(code) + 8 > O!Half
<1>1. status = "compiling"
  BY DEF OpenLoop, Reading
<1>2. /\ Len(code) \in Nat /\ Len(loops) \in Nat
      /\ insns \in O!Buffer /\ stack \in O!Buffer
      /\ insns.len = 4 * Len(code) /\ stack.len = 8 * Len(loops)
      /\ 8 * Len(loops) <= 4 * Len(code)
  BY <1>1, Before
<1>3. PICK loaded \in O!Reserve(insns, 4) :
        /\ insns' \in O!Reserve(loaded, 4) /\ stack' \in O!Reserve(stack, 8)
        /\ status' = IF O!Written(loaded, 4) # "ok" THEN O!Written(loaded, 4)
                     ELSE IF O!Written(stack', 8) # "ok" THEN O!Written(stack', 8)
                     ELSE After(O!Written(insns', 4))
        /\ loops' = Append(loops, [check |-> insns.len, beq |-> loaded.len])
  BY DEF OpenLoop, InfoSize
<1>4. loaded \in O!Buffer
  BY <1>2, <1>3, ReserveProperties
<1>5. insns' \in O!Buffer
  BY <1>3, <1>4, ReserveProperties
<1>6. stack' \in O!Buffer
  BY <1>2, <1>3, ReserveProperties
<1>7. /\ O!Written(loaded, 4) \in {"ok", "segv", "wild"}
      /\ O!Written(loaded, 4) = "ok" => loaded.len = insns.len + 4
      /\ insns.len + 4 <= O!Half => O!Written(loaded, 4) # "wild"
  BY <1>2, <1>3, WrittenProperties
<1>8. /\ O!Written(insns', 4) \in {"ok", "segv", "wild"}
      /\ O!Written(insns', 4) = "ok" => insns'.len = loaded.len + 4
      /\ loaded.len + 4 <= O!Half => O!Written(insns', 4) # "wild"
  BY <1>3, <1>4, WrittenProperties
<1>9. /\ O!Written(stack', 8) \in {"ok", "segv", "wild"}
      /\ O!Written(stack', 8) = "ok" => stack'.len = stack.len + 8
      /\ stack.len + 8 <= O!Half => O!Written(stack', 8) # "wild"
  BY <1>2, <1>3, WrittenProperties
<1>10. loaded.len \in Nat /\ O!Half \in Nat
  BY <1>4, U32Properties DEF O!Buffer
<1>11. /\ status' \in {"compiling", "segv", "wild"}
       /\ status' = "compiling" => /\ O!Written(loaded, 4) = "ok"
                                   /\ O!Written(stack', 8) = "ok"
                                   /\ O!Written(insns', 4) = "ok"
       /\ status' = "wild" => \/ O!Written(loaded, 4) = "wild"
                              \/ O!Written(stack', 8) = "wild"
                              \/ /\ O!Written(loaded, 4) = "ok"
                                 /\ O!Written(insns', 4) = "wild"
  BY <1>1, <1>3, <1>7, <1>8, <1>9 DEF After
<1>12. status' = "wild" => 4 * Len(code) + 8 > O!Half
  BY <1>2, <1>7, <1>8, <1>9, <1>10, <1>11
<1>13. status' = "compiling" =>
         /\ loaded.len = insns.len + 4 /\ insns'.len = insns.len + 8
         /\ stack'.len = stack.len + 8
  BY <1>2, <1>7, <1>8, <1>9, <1>10, <1>11
<1> QED BY <1>3, <1>5, <1>6, <1>10, <1>11, <1>12, <1>13

LEMMA OpenLoopStep == BfcInv /\ OpenLoop => BfcInv'
<1> SUFFICES ASSUME BfcInv, OpenLoop PROVE BfcInv'
  OBVIOUS
<1>1. status = "compiling" /\ ~AtEnd
  BY DEF OpenLoop, Reading
<1>2. /\ source \in Seq(Chars) /\ Len(source) \in Nat /\ read \in 0..Len(source)
      /\ code \in Seq(Insn) /\ Len(code) \in Nat
      /\ loops \in Seq(LoopInfo) /\ Len(loops) \in Nat
      /\ insns.len = 4 * Len(code) /\ stack.len = 8 * Len(loops)
      /\ LoopsOpen /\ LoopsOrdered /\ OpenKnown /\ 8 * Len(loops) <= 4 * Len(code)
  BY <1>1, Before
<1> DEFINE branch == asm_empty_beq(rv_t0, rv_zero)
<1>3. /\ code' = code \o <<load_cell, branch>>
      /\ read' = read + 1 /\ source' = source /\ todo' = todo
  BY DEF OpenLoop
<1>4. PICK start \in Nat :
        /\ loops' = Append(loops, [check |-> insns.len, beq |-> start])
        /\ status' = "compiling" =>
             /\ start = insns.len + 4 /\ insns'.len = insns.len + 8
             /\ stack'.len = stack.len + 8
        /\ status' = "wild" => 4 * Len(code) + 8 > O!Half
  BY OpenLoopBuffers
<1>5. /\ insns' \in O!Buffer /\ stack' \in O!Buffer
      /\ status' \in {"compiling", "segv", "wild"}
  BY OpenLoopBuffers
<1>6. /\ branch \in Insn /\ branch.op = "beq" /\ branch.imm = Unset
      /\ load_cell \in Insn /\ load_cell.op # "beq"
  BY BranchType, RegisterTypes, EmittedTypes DEF NoBranch
<1> HIDE DEF branch
<1>7. /\ code' \in Seq(Insn) /\ Len(code') = Len(code) + 2
      /\ \A i \in 1..Len(code) : code'[i] = code[i]
      /\ code'[Len(code) + 1] = load_cell /\ code'[Len(code) + 2] = branch
  BY <1>2, <1>3, <1>6
<1>8. /\ loops' \in Seq(LoopInfo) /\ Len(loops') = Len(loops) + 1
      /\ \A l \in 1..Len(loops) : loops'[l] = loops[l]
      /\ loops'[Len(loops) + 1] = [check |-> insns.len, beq |-> start]
  <2>1. [check |-> insns.len, beq |-> start] \in LoopInfo
    BY <1>2 DEF LoopInfo
  <2> QED BY <2>1, <1>2, <1>4, AppendProperties
<1>9. TypeOK'
  <2>1. read < Len(source)
    BY <1>1, <1>2 DEF AtEnd
  <2>2. source' \in Sources /\ read' \in 0..Len(source')
    BY <2>1, <1>2, <1>3 DEF BfcInv, TypeOK
  <2>3. todo' \in Seq(Insn)
    BY <1>3 DEF BfcInv, TypeOK
  <2>4. Alive' => insns'.len = 4 * Len(code') /\ stack'.len = InfoSize * Len(loops')
    BY <1>2, <1>4, <1>5, <1>7, <1>8 DEF Alive, InfoSize
  <2> QED BY <2>2, <2>3, <2>4, <1>5, <1>7, <1>8 DEF TypeOK
<1>10. ASSUME status' = "compiling"
       PROVE  LoopsOpen' /\ LoopsOrdered' /\ OpenKnown'
  <2> DEFINE L == Len(loops)
             Open(i) == /\ i \in 1..Len(code')
                        /\ code'[i].op = "beq" /\ code'[i].imm = Unset
  <2>1. start = 4 * Len(code) + 4
    BY <1>2, <1>4, <1>10
  <2>2. \A l \in 1..L :
          /\ loops[l].beq \in Nat /\ Place(l) \in 1..Len(code)
          /\ loops[l].beq = 4 * (Place(l) - 1)
    BY <1>2, PlaceProperties
  <2>3. \A l \in 1..L : (loops'[l].beq \div 4) + 1 = Place(l)
    BY <1>8 DEF Place
  <2>4. (loops'[L + 1].beq \div 4) + 1 = Len(code) + 2
    <3>1. loops'[L + 1].beq = 4 * (Len(code) + 1)
      BY <1>2, <1>8, <2>1
    <3>2. \A n \in Nat : (4 * n) \div 4 = n
      OBVIOUS
    <3>3. (4 * (Len(code) + 1)) \div 4 = Len(code) + 1
      BY <3>2, <1>2
    <3> QED BY <3>1, <3>3, <1>2
  <2>5. \A i \in 1..Len(code) : Open(i) <=> OpenBranch(i)
    BY <1>2, <1>7 DEF OpenBranch
  <2>6. Open(Len(code) + 2) /\ ~Open(Len(code) + 1)
    BY <1>2, <1>6, <1>7
  <2>7. LoopsOpen'
    <3> SUFFICES ASSUME NEW l \in 1..(L + 1)
                 PROVE  /\ Open((loops'[l].beq \div 4) + 1)
                        /\ loops'[l].beq % 4 = 0 /\ loops'[l].check = loops'[l].beq - 4
                        /\ 8 * l <= loops'[l].beq + 4
      BY <1>8 DEF LoopsOpen, OpenBranch, Place
    <3>1. CASE l \in 1..L
      <4>1. loops'[l] = loops[l] /\ (loops'[l].beq \div 4) + 1 = Place(l)
        BY <3>1, <1>8, <2>3
      <4>2. /\ OpenBranch(Place(l)) /\ loops[l].beq % 4 = 0
            /\ loops[l].check = loops[l].beq - 4 /\ 8 * l <= loops[l].beq + 4
        BY <3>1, <1>2 DEF LoopsOpen
      <4>3. Open(Place(l))
        BY <3>1, <4>2, <2>2, <2>5
      <4> QED BY <4>1, <4>2, <4>3
    <3>2. CASE l = L + 1
      <4>1. Open((loops'[l].beq \div 4) + 1)
        BY <3>2, <2>4, <2>6
      <4>2. (4 * (Len(code) + 1)) % 4 = 0
        BY <1>2
      <4>3. loops'[l].beq = 4 * (Len(code) + 1) /\ loops'[l].check = 4 * Len(code)
        BY <3>2, <1>2, <1>8, <2>1
      <4> QED BY <4>1, <4>2, <4>3, <3>2, <1>2
    <3> QED BY <3>1, <3>2, <1>2
  <2>8. LoopsOrdered'
    <3> SUFFICES ASSUME NEW l \in 1..(L + 1), NEW m \in 1..(L + 1), l < m
                 PROVE  loops'[l].beq < loops'[m].beq
      BY <1>8 DEF LoopsOrdered
    <3>1. l \in 1..L
      BY <1>2
    <3>2. CASE m \in 1..L
      BY <3>1, <3>2, <1>8, <1>2 DEF LoopsOrdered
    <3>3. CASE m = L + 1
      <4>1. loops'[m].beq = 4 * Len(code) + 4
        BY <3>3, <1>8, <2>1
      <4>2. /\ loops'[l].beq = 4 * (Place(l) - 1) /\ Place(l) \in 1..Len(code)
        BY <3>1, <1>8, <2>2
      <4> QED BY <4>1, <4>2, <1>2
    <3> QED BY <3>2, <3>3, <1>2
  <2>9. OpenKnown'
    <3> SUFFICES ASSUME NEW i \in 1..(Len(code) + 2), Open(i)
                 PROVE  \E l \in 1..(L + 1) : loops'[l].beq = 4 * (i - 1)
      BY <1>7, <1>8 DEF OpenKnown, OpenBranch
    <3>1. CASE i \in 1..Len(code)
      <4>1. PICK l \in 1..L : loops[l].beq = 4 * (i - 1)
        BY <3>1, <2>5, <1>2 DEF OpenKnown
      <4> QED BY <4>1, <1>2, <1>8
    <3>2. CASE i = Len(code) + 2
      BY <3>2, <1>2, <1>8, <2>1
    <3> QED BY <3>1, <3>2, <2>6, <1>2
  <2> QED BY <2>7, <2>8, <2>9
<1>11. LoopsInv'
  BY <1>5, <1>10 DEF LoopsInv
<1>12. WildInv'
  BY <1>2, <1>4, <1>7, U32Properties DEF WildInv
<1> QED BY <1>2, <1>3, <1>9, <1>11, <1>12 DEF BfcInv

(* A distance is one of 16 bits, never the mark of an open branch.         *)
LEMMA DistanceProperties ==
  ASSUME NEW info, info.check \in Int, NEW n \in Int
  PROVE  Distance(info, n) \in Int /\ Distance(info, n) # Unset /\ -Distance(info, n) \in Int
<1> DEFINE k == n - info.check + 2^15
<1>1. k \in Int
  OBVIOUS
<1>2. Distance(info, n) = (k % 2^16) - 2^15
  BY DEF Distance, i16
<1> HIDE DEF k
<1>3. k % 2^16 \in 0..(2^16 - 1)
  BY <1>1
<1> QED BY <1>2, <1>3 DEF Unset

LEMMA CloseLoopStep == BfcInv /\ CloseLoop => BfcInv'
<1> SUFFICES ASSUME BfcInv, CloseLoop PROVE BfcInv'
  OBVIOUS
<1>1. status = "compiling" /\ ~AtEnd /\ loops # <<>>
  BY DEF CloseLoop, Reading
<1>2. /\ source \in Seq(Chars) /\ Len(source) \in Nat /\ read \in 0..Len(source)
      /\ code \in Seq(Insn) /\ Len(code) \in Nat
      /\ loops \in Seq(LoopInfo) /\ Len(loops) \in Nat
      /\ insns \in O!Buffer /\ stack \in O!Buffer
      /\ insns.len = 4 * Len(code) /\ stack.len = 8 * Len(loops)
      /\ LoopsOpen /\ LoopsOrdered /\ OpenKnown
  BY <1>1, Before
<1> DEFINE L == Len(loops)
           dist == Distance(TopLoop, insns'.len)
           jump == asm_jal(rv_zero, -dist)
<1>3. L \in 1..L /\ L - 1 \in Nat
  BY <1>1, <1>2
<1>4. /\ insns' \in O!Reserve(insns, 4) /\ status' = After(O!Written(insns', 4))
      /\ code' = Append([code EXCEPT ![Place(L)].imm = dist], jump)
      /\ stack' = Pop(stack) /\ loops' = SubSeq(loops, 1, L - 1)
      /\ read' = read + 1 /\ source' = source /\ todo' = todo
  BY DEF CloseLoop, Place, TopLoop
<1>5. \A l \in 1..L :
        /\ loops[l].beq \in Nat /\ loops[l].check \in Nat
        /\ Place(l) \in 1..Len(code) /\ loops[l].beq = 4 * (Place(l) - 1)
  BY <1>2, PlaceProperties
<1>6. /\ insns' \in O!Buffer
      /\ O!Written(insns', 4) \in {"ok", "segv", "wild"}
      /\ O!Written(insns', 4) = "ok" => insns'.len = 4 * Len(code) + 4
      /\ O!Written(insns', 4) = "wild" => 4 * Len(code) + 4 > O!Half
  <2>1. insns' \in O!Buffer
    BY <1>2, <1>4, ReserveProperties
  <2>2. /\ O!Written(insns', 4) \in {"ok", "segv", "wild"}
        /\ O!Written(insns', 4) = "ok" => insns'.len = insns.len + 4
        /\ insns.len + 4 <= O!Half => O!Written(insns', 4) # "wild"
    BY <1>2, <1>4, WrittenProperties
  <2> QED BY <2>1, <2>2, <1>2, U32Properties
<1>7. /\ status' \in {"compiling", "segv", "wild"}
      /\ status' = "compiling" => O!Written(insns', 4) = "ok"
      /\ status' = "wild" => O!Written(insns', 4) = "wild"
  BY <1>1, <1>4, <1>6 DEF After
<1>8. dist \in Int /\ dist # Unset /\ jump \in Insn /\ jump.op # "beq"
  <2>1. insns'.len \in Int
    BY <1>6, U32Properties DEF O!Buffer
  <2>2. TopLoop.check \in Int
    BY <1>3, <1>5 DEF TopLoop
  <2>3. dist \in Int /\ dist # Unset /\ -dist \in Int
    BY <2>1, <2>2, DistanceProperties
  <2> HIDE DEF dist
  <2>4. jump \in NoBranch
    BY <2>3, InsnTypes, RegisterTypes
  <2> QED BY <2>3, <2>4 DEF NoBranch
<1> HIDE DEF dist, jump
<1> DEFINE q == Place(L)
           patched == [code EXCEPT ![q].imm = dist]
<1>9. q \in 1..Len(code)
  BY <1>3, <1>5
<1> HIDE DEF q
<1>10. /\ patched \in Seq(Insn) /\ Len(patched) = Len(code)
       /\ patched[q].imm = dist
       /\ \A i \in 1..Len(code) : i # q => patched[i] = code[i]
  <2>1. code[q] \in Insn
    BY <1>2, <1>9
  <2>2. [code[q] EXCEPT !.imm = dist] \in Insn
    BY <2>1, <1>8 DEF Insn
  <2>3. [code[q] EXCEPT !.imm = dist].imm = dist
    BY <2>1 DEF Insn
  <2> DEFINE new == [code[q] EXCEPT !.imm = dist]
  <2>4. patched = [code EXCEPT ![q] = new]
    OBVIOUS
  <2> HIDE DEF new
  <2>5. [code EXCEPT ![q] = new] \in Seq(Insn)
    BY <2>2, <1>2, <1>9 DEF new
  <2> QED BY <2>2, <2>3, <2>4, <2>5, <1>2, <1>9 DEF new
<1>11. code' = Append(patched, jump)
  BY <1>4 DEF q
<1> HIDE DEF patched
<1>12. /\ code' \in Seq(Insn) /\ Len(code') = Len(code) + 1
       /\ code'[q].imm = dist /\ code'[Len(code) + 1] = jump
       /\ \A i \in 1..Len(code) : i # q => code'[i] = code[i]
  <2>1. \A i \in 1..Len(patched) : code'[i] = patched[i]
    BY <1>8, <1>10, <1>11, AppendProperties
  <2> QED BY <2>1, <1>2, <1>8, <1>9, <1>10, <1>11, AppendProperties
<1>13. /\ loops' \in Seq(LoopInfo) /\ Len(loops') = L - 1
       /\ \A l \in 1..(L - 1) : loops'[l] = loops[l]
  <2>1. \A l \in 1..(L - 1) : loops[l] \in LoopInfo
    <3>1. \A l \in 1..(L - 1) : l \in 1..L
      BY <1>2
    <3> QED BY <3>1, <1>2, ElementOfSeq
  <2>2. 1 \in Nat /\ L - 1 \in Nat /\ L - 1 <= L
    BY <1>2, <1>3
  <2> DEFINE n == L - 1
  <2>3. loops' = SubSeq(loops, 1, n)
    BY <1>4
  <2>4. n \in Int /\ 1 \in Int /\ \A l \in 1..n : loops[l] \in LoopInfo
    BY <2>1, <2>2
  <2>5. n \in Nat
    BY <2>2
  <2> HIDE DEF n
  <2>6. /\ loops' \in Seq(LoopInfo)
        /\ Len(loops') = IF 1 <= n THEN n - 1 + 1 ELSE 0
        /\ \A l \in 1..(n - 1 + 1) : loops'[l] = loops[1 + l - 1]
    BY <2>3, <2>4, SubSeqProperties
  <2>7. Len(loops') = n /\ \A l \in 1..n : loops'[l] = loops[l]
    BY <2>5, <2>6
  <2> QED BY <2>6, <2>7 DEF n
<1>14. TypeOK'
  <2>1. read < Len(source)
    BY <1>1, <1>2 DEF AtEnd
  <2>2. source' \in Sources /\ read' \in 0..Len(source')
    BY <2>1, <1>2, <1>4 DEF BfcInv, TypeOK
  <2>3. todo' \in Seq(Insn)
    BY <1>4 DEF BfcInv, TypeOK
  <2>4. /\ stack.len \in 0..(O!U32 - 1) /\ stack.cap \in 0..(O!U32 - 1)
        /\ stack.at \in {O!Null} \union O!Blocks
        /\ stack = [len |-> stack.len, cap |-> stack.cap, at |-> stack.at]
    BY <1>2 DEF O!Buffer
  <2>5. stack' = [len |-> stack.len - 8, cap |-> stack.cap, at |-> stack.at]
    BY <2>4, <1>4 DEF Pop, InfoSize
  <2>6. stack.len - 8 = 8 * (L - 1) /\ stack.len - 8 \in 0..(O!U32 - 1)
    BY <2>4, <1>2, <1>3, U32Properties
  <2>7. stack' \in O!Buffer /\ stack'.len = 8 * (L - 1)
    BY <2>4, <2>5, <2>6 DEF O!Buffer
  <2>8. Alive' => insns'.len = 4 * Len(code') /\ stack'.len = InfoSize * Len(loops')
    BY <2>7, <1>2, <1>6, <1>7, <1>12, <1>13 DEF Alive, InfoSize
  <2> QED BY <2>2, <2>3, <2>7, <2>8, <1>6, <1>7, <1>12, <1>13 DEF TypeOK
<1> DEFINE Open(i) == /\ i \in 1..Len(code')
                      /\ code'[i].op = "beq" /\ code'[i].imm = Unset
<1>15. \A i : Open(i) <=> OpenBranch(i) /\ i # q
  <2>1. ~Open(q) /\ ~Open(Len(code) + 1)
    BY <1>8, <1>12
  <2>2. \A i \in 1..Len(code) : i # q => (Open(i) <=> OpenBranch(i))
    BY <1>2, <1>12 DEF OpenBranch
  <2>3. \A i : Open(i) => i \in 1..Len(code) \/ i = Len(code) + 1
    BY <1>2, <1>12
  <2> QED BY <2>1, <2>2, <2>3 DEF OpenBranch
<1>16. LoopsOpen'
  <2> SUFFICES ASSUME NEW l \in 1..(L - 1)
               PROVE  /\ Open((loops'[l].beq \div 4) + 1)
                      /\ loops'[l].beq % 4 = 0 /\ loops'[l].check = loops'[l].beq - 4
                      /\ 8 * l <= loops'[l].beq + 4
    BY <1>13 DEF LoopsOpen, OpenBranch, Place
  <2>1. l \in 1..L /\ l < L
    BY <1>2
  <2>2. loops'[l] = loops[l] /\ (loops'[l].beq \div 4) + 1 = Place(l)
    BY <1>13 DEF Place
  <2>3. /\ OpenBranch(Place(l)) /\ loops[l].beq % 4 = 0
        /\ loops[l].check = loops[l].beq - 4 /\ 8 * l <= loops[l].beq + 4
    BY <2>1, <1>2 DEF LoopsOpen
  <2>4. Place(l) # q
    <3>1. loops[l].beq < loops[L].beq
      BY <2>1, <1>2, <1>3 DEF LoopsOrdered
    <3>2. loops[l].beq = 4 * (Place(l) - 1) /\ loops[L].beq = 4 * (q - 1)
      BY <2>1, <1>3, <1>5 DEF q
    <3>3. Place(l) \in 1..Len(code)
      BY <2>1, <1>5
    <3> QED BY <3>1, <3>2, <3>3, <1>9, <1>2
  <2> QED BY <2>2, <2>3, <2>4, <1>15
<1>17. LoopsOrdered'
  <2> SUFFICES ASSUME NEW l \in 1..(L - 1), NEW m \in 1..(L - 1), l < m
               PROVE  loops'[l].beq < loops'[m].beq
    BY <1>13 DEF LoopsOrdered
  <2>1. l \in 1..L /\ m \in 1..L
    BY <1>2
  <2> QED BY <2>1, <1>2, <1>13 DEF LoopsOrdered
<1>18. OpenKnown'
  <2> SUFFICES ASSUME NEW i \in 1..Len(code'), Open(i)
               PROVE  \E l \in 1..(L - 1) : loops'[l].beq = 4 * (i - 1)
    BY <1>13 DEF OpenKnown, OpenBranch
  <2>1. OpenBranch(i) /\ i # q /\ i \in 1..Len(code)
    BY <1>15 DEF OpenBranch
  <2>2. PICK l \in 1..L : loops[l].beq = 4 * (i - 1)
    BY <2>1, <1>2 DEF OpenKnown
  <2>3. l # L
    <3>1. loops[L].beq = 4 * (q - 1)
      BY <1>3, <1>5 DEF q
    <3> QED BY <3>1, <2>1, <2>2, <1>9, <1>2
  <2>4. l \in 1..(L - 1)
    BY <2>2, <2>3, <1>2
  <2> QED BY <2>2, <2>4, <1>13
<1>19. WildInv'
  BY <1>2, <1>6, <1>7, <1>12, U32Properties DEF WildInv
<1> QED BY <1>2, <1>4, <1>14, <1>16, <1>17, <1>18, <1>19 DEF BfcInv, LoopsInv

(* The steps that emit nothing.                                            *)
LEMMA OtherSteps ==
  BfcInv /\ (CloseNothing \/ EndOfInput \/ Finish \/ UNCHANGED compiler) => BfcInv'
<1>1. BfcInv /\ CloseNothing => BfcInv'
  <2> SUFFICES ASSUME BfcInv, CloseNothing PROVE BfcInv'
    OBVIOUS
  <2>1. /\ UNCHANGED <<source, read, todo, insns, code, stack, loops>>
        /\ status' \in {"segv", "wild"} /\ loops = <<>> /\ ~AtEnd /\ Char = "]"
    BY DEF CloseNothing
  <2>2. TypeOK'
    BY <2>1 DEF BfcInv, TypeOK, Alive
  <2>3. WildInv'
    BY <2>1 DEF WildInv, AtEnd, Char
  <2> QED BY <2>1, <2>2, <2>3 DEF BfcInv, LoopsInv
<1>2. BfcInv /\ EndOfInput => BfcInv'
  <2> SUFFICES ASSUME BfcInv, EndOfInput PROVE BfcInv'
    OBVIOUS
  <2>1. /\ UNCHANGED <<source, read, insns, code, stack, loops>>
        /\ status = "compiling" /\ status' = "ending" /\ todo' = Epilogue
    BY DEF EndOfInput, Reading
  <2>2. todo' \in Seq(NoBranch) /\ todo' \in Seq(Insn)
    BY <2>1, EmittedTypes DEF NoBranch
  <2>3. TypeOK'
    BY <2>1, <2>2 DEF BfcInv, TypeOK, Alive
  <2>4. LoopsOpen' /\ LoopsOrdered' /\ OpenKnown'
    BY <2>1, Before DEF LoopsOpen, LoopsOrdered, OpenKnown, OpenBranch, Place
  <2> QED BY <2>1, <2>2, <2>3, <2>4 DEF BfcInv, LoopsInv, WildInv
<1>3. BfcInv /\ Finish => BfcInv'
  <2> SUFFICES ASSUME BfcInv, Finish PROVE BfcInv'
    OBVIOUS
  <2>1. /\ UNCHANGED <<source, read, todo, insns, code>>
        /\ status = "ending" /\ status' = "done"
        /\ stack' = O!Empty /\ loops' = <<>>
    BY DEF Finish
  <2>2. O!Empty \in O!Buffer /\ O!Empty.len = 0
    BY U32Properties DEF O!Empty, O!Buffer, O!Null
  <2>3. <<>> \in Seq(LoopInfo) /\ Len(<<>>) = 0
    BY EmptySeq
  <2>4. insns.len = 4 * Len(code)
    BY <2>1, Before
  <2>5. TypeOK'
    BY <2>1, <2>2, <2>3, <2>4 DEF BfcInv, TypeOK, InfoSize
  <2> QED BY <2>1, <2>5 DEF BfcInv, LoopsInv, WildInv
<1>4. BfcInv /\ UNCHANGED compiler => BfcInv'
  BY DEF compiler, BfcInv, TypeOK, Alive, LoopsInv, WildInv, LoopsOpen, LoopsOrdered,
         OpenKnown, OpenBranch, Place, AtEnd, Char
<1> QED BY <1>1, <1>2, <1>3, <1>4

LEMMA BfcStep == BfcInv /\ [Compile]_compiler => BfcInv'
BY EmitInsnStep, ReadStraightStep, OpenLoopStep, CloseLoopStep, OtherSteps DEF Compile

-----------------------------------------------------------------------------
(* The recursive functions over the program satisfy their equations, for a *)
(* program of any length.                                                  *)
LEMMA LevelProperties ==
  ASSUME source \in Seq(Chars)
  PROVE  /\ \A n \in 0..Len(source) : Level[n] \in Int
         /\ Level[0] = 0
         /\ \A n \in 1..Len(source) : Level[n] = Level[n - 1] + Weight(source[n])
<1> DEFINE N == Len(source)
           add == [n \in Nat |-> Weight(source[n])]
           first == 0
           Sum(f, n) == IF n = 0 THEN 0 ELSE f[n - 1] + Weight(source[n])
<1>1. \A n : Weight(source[n]) \in Int
  BY DEF Weight
<1>2. add \in [Nat -> Int] /\ \A n \in Nat : add[n] = Weight(source[n])
  BY <1>1
<1>3. N \in Nat /\ first \in Int
  OBVIOUS
<1> HIDE DEF add, first, N
<1>4. PICK f \in [0..N -> Int] :
        \A n \in 0..N : f[n] = IF n = 0 THEN first ELSE f[n - 1] + add[n]
  BY <1>2, <1>3, PartialSums
<1>5. ASSUME NEW n \in 0..N PROVE f[n] = Sum(f, n)
  <2>1. n \in Nat
    BY <1>3
  <2> QED BY <2>1, <1>2, <1>4 DEF first
<1>6. f = [n \in 0..N |-> f[n]]
  BY <1>4
<1>7. [n \in 0..N |-> f[n]] = [n \in 0..N |-> Sum(f, n)]
  BY <1>5, Zenon
<1>8. Level = [n \in 0..N |-> Sum(Level, n)]
  BY <1>6, <1>7, Zenon DEF Level, N
<1>9. Level[0] = 0 /\ \A n \in 1..N : Level[n] = Level[n - 1] + Weight(source[n])
  BY <1>3, <1>8
<1>10. \A n \in 0..N : Level[n] \in Int
  <2> DEFINE S == {n \in 0..N : Level[n] \in Int}
  <2>1. 0 \in S
    BY <1>3, <1>9
  <2>2. \A n \in 0..(N - 1) : n \in S => n + 1 \in S
    BY <1>1, <1>3, <1>9
  <2> HIDE DEF S
  <2>3. \A n \in 0..N : n \in S
    BY <1>3, <2>1, <2>2, BoundedInduction
  <2> QED BY <2>3 DEF S
<1> QED BY <1>9, <1>10 DEF N

LEMMA CodeEndProperties ==
  ASSUME source \in Seq(Chars)
  PROVE  /\ \A n \in 0..Len(source) : CodeEnd[n] \in Nat \ {0, 1}
         /\ CodeEnd[0] = 2
         /\ \A n \in 1..Len(source) : CodeEnd[n] = CodeEnd[n - 1] + InsnCount(source[n])
         /\ \A n \in 0..Len(source) : \A m \in 0..n : CodeEnd[m] <= CodeEnd[n]
<1> DEFINE N == Len(source)
           add == [n \in Nat |-> InsnCount(source[n])]
           first == 2
           Sum(f, n) == IF n = 0 THEN 2 ELSE f[n - 1] + InsnCount(source[n])
<1>1. \A n : InsnCount(source[n]) \in Nat
  BY DEF InsnCount
<1>2. add \in [Nat -> Int] /\ \A n \in Nat : add[n] = InsnCount(source[n])
  BY <1>1
<1>3. N \in Nat /\ first \in Int
  OBVIOUS
<1> HIDE DEF add, first, N
<1>4. PICK f \in [0..N -> Int] :
        \A n \in 0..N : f[n] = IF n = 0 THEN first ELSE f[n - 1] + add[n]
  BY <1>2, <1>3, PartialSums
<1>5. ASSUME NEW n \in 0..N PROVE f[n] = Sum(f, n)
  <2>1. n \in Nat
    BY <1>3
  <2> QED BY <2>1, <1>2, <1>4 DEF first
<1>6. f = [n \in 0..N |-> f[n]]
  BY <1>4
<1>7. [n \in 0..N |-> f[n]] = [n \in 0..N |-> Sum(f, n)]
  BY <1>5, Zenon
<1>8. CodeEnd = [n \in 0..N |-> Sum(CodeEnd, n)]
  BY <1>6, <1>7, Zenon DEF CodeEnd, N
<1>9. CodeEnd[0] = 2 /\ \A n \in 1..N : CodeEnd[n] = CodeEnd[n - 1] + InsnCount(source[n])
  BY <1>3, <1>8
<1> DEFINE S == {n \in 0..N : /\ CodeEnd[n] \in Nat \ {0, 1}
                              /\ \A m \in 0..n : /\ CodeEnd[m] \in Int
                                                 /\ CodeEnd[m] <= CodeEnd[n]}
<1>10. 0 \in S
  BY <1>3, <1>9
<1>11. ASSUME NEW n \in 0..(N - 1), n \in S PROVE n + 1 \in S
  <2>1. n + 1 \in 1..N /\ (n + 1) - 1 = n
    BY <1>3
  <2>2. CodeEnd[n + 1] = CodeEnd[n] + InsnCount(source[n + 1])
    BY <2>1, <1>9
  <2>3. CodeEnd[n + 1] \in Nat \ {0, 1} /\ CodeEnd[n] <= CodeEnd[n + 1]
    BY <2>2, <1>1, <1>11
  <2>4. ASSUME NEW m \in 0..(n + 1)
        PROVE  CodeEnd[m] \in Int /\ CodeEnd[m] <= CodeEnd[n + 1]
    <3>1. CASE m = n + 1
      BY <3>1, <2>3
    <3>2. CASE m \in 0..n
      <4>1. CodeEnd[m] \in Int /\ CodeEnd[m] <= CodeEnd[n]
        BY <3>2, <1>11
      <4> QED BY <4>1, <2>2, <1>1, <1>11
    <3> QED BY <3>1, <3>2, <1>3
  <2> QED BY <2>1, <2>3, <2>4
<1> HIDE DEF S
<1>12. \A n \in 0..N : n \in S
  BY <1>3, <1>10, <1>11, BoundedInduction
<1> QED BY <1>9, <1>12 DEF N, S

(* What depends on the program alone.                                      *)
LEMMA SameProgram ==
  source' = source =>
    /\ Level' = Level /\ CodeEnd' = CodeEnd
    /\ \A i, j : Matches(i, j)' = Matches(i, j) /\ Span(i, j)' = Span(i, j)
<1> SUFFICES ASSUME source' = source
             PROVE  /\ Level' = Level /\ CodeEnd' = CodeEnd
                    /\ \A i, j : /\ Matches(i, j)' = Matches(i, j)
                                 /\ Span(i, j)' = Span(i, j)
  OBVIOUS
<1>1. Level' = Level
  BY Zenon DEF Level
<1>2. CodeEnd' = CodeEnd
  BY Zenon DEF CodeEnd
<1>3. \A i, j : Matches(i, j)' = Matches(i, j)
  BY <1>1, Zenon DEF Matches, Depth
<1>4. \A i, j : Span(i, j)' = Span(i, j)
  BY <1>2, Zenon DEF Span
<1> QED BY <1>1, <1>2, <1>3, <1>4, Zenon

(* Brackets that belong together, in terms of the levels.                  *)
LEMMA MatchesProperties ==
  ASSUME source \in Seq(Chars), NEW j \in 1..Len(source), NEW i \in 1..Len(source)
  PROVE  Matches(i, j) <=> /\ i < j /\ source[i] = "[" /\ source[j] = "]"
                           /\ Level[j] = Level[i - 1]
                           /\ \A n \in i..(j - 1) : Level[n] > Level[i - 1]
<1>1. /\ i - 1 \in 0..Len(source) /\ j \in 0..Len(source)
      /\ \A n \in i..(j - 1) : n \in 0..Len(source)
  OBVIOUS
<1>2. /\ Level[i - 1] \in Int /\ Level[j] \in Int
      /\ \A n \in i..(j - 1) : Level[n] \in Int
  BY <1>1, LevelProperties
<1> DEFINE base == Level[i - 1]
<1>3. (Level[j] - base = 0) <=> (Level[j] = base)
  BY <1>2
<1>4. \A n \in i..(j - 1) : (Level[n] - base > 0) <=> (Level[n] > base)
  BY <1>2
<1> HIDE DEF base
<1>5. Matches(i, j) <=> /\ i < j /\ source[i] = "[" /\ source[j] = "]"
                        /\ Level[j] - base = 0
                        /\ \A n \in i..(j - 1) : Level[n] - base > 0
  BY Zenon DEF Matches, Depth, base
<1>6. Matches(i, j) <=> /\ i < j /\ source[i] = "[" /\ source[j] = "]"
                        /\ Level[j] = base
                        /\ \A n \in i..(j - 1) : Level[n] > base
  BY <1>3, <1>4, <1>5, Zenon
<1> QED BY <1>6, Zenon DEF base

(* A bracket belongs to at most one other.                                 *)
LEMMA MatchIsUnique ==
  ASSUME source \in Seq(Chars), NEW i \in 1..Len(source), NEW j \in 1..Len(source),
         Matches(i, j), NEW k \in 1..Len(source)
  PROVE  /\ Matches(i, k) => k = j
         /\ Matches(k, j) => k = i
<1>1. /\ i < j /\ source[i] = "[" /\ Level[j] = Level[i - 1]
      /\ \A n \in i..(j - 1) : Level[n] > Level[i - 1]
  BY MatchesProperties
<1>2. Level[j] \in Int
  BY LevelProperties
<1>3. ASSUME Matches(i, k) PROVE k = j
  <2>1. /\ i < k /\ Level[k] = Level[i - 1]
        /\ \A n \in i..(k - 1) : Level[n] > Level[i - 1]
    BY <1>3, MatchesProperties
  <2>2. CASE k < j
    <3>1. k \in i..(j - 1)
      BY <2>1, <2>2
    <3> QED BY <3>1, <2>1, <1>1, <1>2
  <2>3. CASE j < k
    <3>1. j \in i..(k - 1)
      BY <1>1, <2>3
    <3> QED BY <3>1, <2>1, <1>1, <1>2
  <2> QED BY <2>2, <2>3
<1>4. ASSUME Matches(k, j) PROVE k = i
  <2>1. /\ k < j /\ Level[j] = Level[k - 1]
        /\ \A n \in k..(j - 1) : Level[n] > Level[k - 1]
    BY <1>4, MatchesProperties
  <2>2. CASE k < i
    <3>1. i - 1 \in k..(j - 1)
      BY <1>1, <2>2
    <3>2. Level[i - 1] > Level[k - 1]
      BY <3>1, <2>1
    <3> QED BY <3>2, <2>1, <1>1, <1>2
  <2>3. CASE i < k
    <3>1. k - 1 \in i..(j - 1)
      BY <2>1, <2>3
    <3>2. Level[k - 1] > Level[i - 1]
      BY <3>1, <1>1
    <3> QED BY <3>2, <2>1, <1>1, <1>2
  <2> QED BY <2>2, <2>3
<1> QED BY <1>3, <1>4

-----------------------------------------------------------------------------
(* A loop is open when its '[' has been read and the text since then has   *)
(* not come back to the level before it.                                   *)
OpenSince(i) == /\ i \in 1..read /\ source[i] = "["
                /\ \A n \in i..read : Level[n] > Level[i - 1]

(* The stack is the open loops of the program that has been read: as many  *)
(* as the level is high, each at the place that its level says.            *)
SourceLoops ==
  status # "done" =>
    /\ Len(loops) = Level[read]
    /\ \A i \in 1..read : OpenSince(i) =>
         /\ Level[i - 1] \in 0..(Len(loops) - 1)
         /\ loops[Level[i - 1] + 1].check = 4 * CodeEnd[i - 1]
    /\ \A l \in 0..(Len(loops) - 1) :
         \E i \in 1..read : OpenSince(i) /\ Level[i - 1] = l

(* The code and what is still to be emitted of the current character.      *)
Text == code \o todo

Branch(target) == [asm_empty_beq(rv_t0, rv_zero) EXCEPT !.imm = target]

Targets(i, target) ==
  /\ \A j \in i..read : Matches(i, j) => target = Span(i, j)
  /\ (\A j \in i..read : ~Matches(i, j)) => target = Unset

(* The command at i has its instructions from b on.                        *)
OpenText(i, b) ==
  /\ Text[b + 1] = load_cell
  /\ \E target : Text[b + 2] = Branch(target) /\ Targets(i, target)
CloseText(i, b) ==
  \E k \in 1..i : Matches(k, i) /\ Text[b + 1] = asm_jal(rv_zero, -Span(k, i))
StraightText(i, b) ==
  \A k \in 1..InsnCount(source[i]) : Text[b + k] = Straight(source[i])[k]

TextOf(i) ==
  /\ source[i] # "xFF"
  /\ source[i] = "[" => OpenText(i, CodeEnd[i - 1])
  /\ source[i] = "]" => CloseText(i, CodeEnd[i - 1])
  /\ source[i] \notin {"[", "]"} => StraightText(i, CodeEnd[i - 1])

(* As long as the process is alive, the text is the translation of what    *)
(* has been read.                                                          *)
TextInv ==
  Alive =>
    /\ Len(Text) = CodeEnd[read] + (IF status = "compiling" THEN 0 ELSE 3)
    /\ \A i \in 1..read : TextOf(i)
    /\ status # "compiling" => AtEnd
    /\ status = "done" => todo = <<>>

SourceInv == BfcInv /\ SourceLoops /\ TextInv

LEMMA StraightLength ==
  \A c \in Chars \ {"[", "]", "xFF"} : Len(Straight(c)) = InsnCount(c)
<1>1. \A n : Len(Call(n)) = 5
  BY DEF Call
<1> SUFFICES ASSUME NEW c \in Chars \ {"[", "]", "xFF"}
             PROVE  Len(Straight(c)) = InsnCount(c)
  OBVIOUS
<1>2. CASE c \in {"+", "-"}
  BY <1>2 DEF Straight, InsnCount
<1>3. CASE c \in {".", ","}
  BY <1>3, <1>1 DEF Straight, InsnCount
<1>4. CASE c \in {">", "<"}
  BY <1>4 DEF Straight, InsnCount
<1>5. CASE c = "comment"
  BY <1>5, EmptySeq DEF Straight, InsnCount
<1> QED BY <1>2, <1>3, <1>4, <1>5 DEF Chars

(* A command keeps its text when its instructions stay and its loop, if it *)
(* begins one, does not end now.                                           *)
LEMMA TextKept ==
  ASSUME source \in Seq(Chars), read \in 0..Len(source), source' = source,
         read' \in {read, read + 1}, read' \in 0..Len(source),
         NEW i \in 1..read, TextOf(i),
         \A k \in (CodeEnd[i - 1] + 1)..CodeEnd[i] : Text'[k] = Text[k],
         read' = read + 1 => ~Matches(i, read + 1)
  PROVE  TextOf(i)'
<1> DEFINE b == CodeEnd[i - 1]
<1>1. /\ CodeEnd' = CodeEnd
      /\ \A k, j : Matches(k, j)' = Matches(k, j) /\ Span(k, j)' = Span(k, j)
  BY SameProgram
<1>2. b \in Nat /\ CodeEnd[i] = b + InsnCount(source[i])
  BY CodeEndProperties
<1>3. b' = b
  BY <1>1
<1>4. \A k : k \in 1..InsnCount(source[i]) => Text'[b + k] = Text[b + k]
  <2>1. InsnCount(source[i]) \in Nat
    BY DEF InsnCount
  <2>2. \A k \in 1..InsnCount(source[i]) : b + k \in (b + 1)..CodeEnd[i]
    BY <1>2, <2>1
  <2> QED BY <2>2
<1> HIDE DEF b
<1>5. ASSUME source[i] = "[" PROVE OpenText(i, b)'
  <2>1. InsnCount(source[i]) = 2
    BY <1>5 DEF InsnCount
  <2>2. Text'[b + 1] = Text[b + 1] /\ Text'[b + 2] = Text[b + 2]
    BY <1>4, <2>1
  <2>3. OpenText(i, b)
    BY <1>5 DEF TextOf, b
  <2>4. PICK target : Text[b + 2] = Branch(target) /\ Targets(i, target)
    BY <2>3 DEF OpenText
  <2>5. Targets(i, target)'
    <3>1. \A j \in i..read' : Matches(i, j) => j \in i..read
      OBVIOUS
    <3>2. \A j \in i..read : j \in i..read'
      OBVIOUS
    <3>3. \A j \in i..read' : Matches(i, j) => target = Span(i, j)
      BY <3>1, <2>4 DEF Targets
    <3>4. (\A j \in i..read' : ~Matches(i, j)) => target = Unset
      BY <3>2, <2>4 DEF Targets
    <3> QED BY <3>3, <3>4, <1>1 DEF Targets
  <2>6. Text'[b + 1] = load_cell
    BY <2>2, <2>3 DEF OpenText
  <2> QED BY <2>2, <2>4, <2>5, <2>6, <1>3 DEF OpenText, Branch
<1>6. ASSUME source[i] = "]" PROVE CloseText(i, b)'
  <2>1. InsnCount(source[i]) = 1
    BY <1>6 DEF InsnCount
  <2>2. Text'[b + 1] = Text[b + 1]
    BY <1>4, <2>1
  <2>3. CloseText(i, b)
    BY <1>6 DEF TextOf, b
  <2>4. PICK k \in 1..i : Matches(k, i) /\ Text[b + 1] = asm_jal(rv_zero, -Span(k, i))
    BY <2>3 DEF CloseText
  <2>5. Matches(k, i)' /\ Text'[b + 1] = asm_jal(rv_zero, -Span(k, i))'
    BY <2>2, <2>4, <1>1
  <2> QED BY <2>5, <1>3 DEF CloseText
<1>7. ASSUME source[i] \notin {"[", "]"} PROVE StraightText(i, b)'
  <2>1. StraightText(i, b)
    BY <1>7 DEF TextOf, b
  <2> QED BY <2>1, <1>3, <1>4 DEF StraightText
<1> QED BY <1>3, <1>5, <1>6, <1>7 DEF TextOf, b

(* Reading a character that is no bracket leaves the loops as they are.    *)
LEMMA ReadStraightLoops ==
  ASSUME BfcInv, SourceLoops, ReadStraight PROVE SourceLoops'
<1>1. /\ status = "compiling" /\ Char \notin {"[", "]"} /\ ~AtEnd /\ read' = read + 1
      /\ source' = source /\ loops' = loops
  BY DEF ReadStraight, Reading
<1>2. source \in Seq(Chars) /\ Len(source) \in Nat /\ read \in 0..Len(source)
  BY <1>1, Before
<1>3. read + 1 \in 1..Len(source) /\ (read + 1) - 1 = read
  BY <1>1, <1>2 DEF AtEnd
<1>4. Level[read + 1] = Level[read]
  <2>1. Weight(source[read + 1]) = 0
    BY <1>1 DEF Weight, Char
  <2>2. Level[read] \in Int
    BY <1>2, LevelProperties
  <2> QED BY <2>1, <2>2, <1>2, <1>3, LevelProperties
<1>5. Level' = Level /\ CodeEnd' = CodeEnd
  BY <1>1, SameProgram
<1>6. \A i \in 1..read : OpenSince(i) => OpenSince(i)'
  <2> SUFFICES ASSUME NEW i \in 1..read, OpenSince(i) PROVE OpenSince(i)'
    OBVIOUS
  <2>1. source[i] = "[" /\ Level[read] > Level[i - 1]
    BY <1>2 DEF OpenSince
  <2>2. \A n \in i..(read + 1) : Level[n] > Level[i - 1]
    <3>1. \A n \in i..(read + 1) : n \in i..read \/ n = read + 1
      BY <1>2
    <3> QED BY <3>1, <2>1, <1>4 DEF OpenSince
  <2> QED BY <2>1, <2>2, <1>1, <1>2, <1>5 DEF OpenSince
<1>7. \A i \in 1..read' : OpenSince(i)' => i \in 1..read /\ OpenSince(i)
  <2> SUFFICES ASSUME NEW i \in 1..(read + 1), OpenSince(i)'
               PROVE  i \in 1..read /\ OpenSince(i)
    BY <1>1
  <2>1. source[i] = "[" /\ \A n \in i..(read + 1) : Level[n] > Level[i - 1]
    BY <1>1, <1>5 DEF OpenSince
  <2>2. i # read + 1
    BY <2>1, <1>1 DEF Char
  <2>3. i \in 1..read /\ \A n \in i..read : n \in i..(read + 1)
    BY <2>2, <1>2
  <2> QED BY <2>1, <2>3 DEF OpenSince
<1>8. \A i \in 1..read : i \in 1..(read + 1)
  BY <1>2
<1>9. /\ Len(loops) = Level[read + 1]
      /\ \A i \in 1..(read + 1) : OpenSince(i)' =>
           /\ Level[i - 1] \in 0..(Len(loops) - 1)
           /\ loops[Level[i - 1] + 1].check = 4 * CodeEnd[i - 1]
      /\ \A l \in 0..(Len(loops) - 1) :
           \E i \in 1..(read + 1) : OpenSince(i)' /\ Level[i - 1] = l
  BY <1>1, <1>4, <1>6, <1>7, <1>8 DEF SourceLoops
<1> QED BY <1>1, <1>5, <1>9 DEF SourceLoops

(* A '[' opens a loop at the level there is, and pushes its place.         *)
LEMMA OpenLoopLoops ==
  ASSUME BfcInv, SourceLoops, OpenLoop, Len(code) = CodeEnd[read] PROVE SourceLoops'
<1>1. /\ status = "compiling" /\ Char = "[" /\ ~AtEnd /\ read' = read + 1
      /\ source' = source
  BY DEF OpenLoop, Reading
<1>2. /\ source \in Seq(Chars) /\ Len(source) \in Nat /\ read \in 0..Len(source)
      /\ loops \in Seq(LoopInfo) /\ Len(loops) \in Nat
      /\ insns.len = 4 * Len(code)
  BY <1>1, Before
<1>3. read + 1 \in 1..Len(source) /\ (read + 1) - 1 = read
  BY <1>1, <1>2 DEF AtEnd
<1>4. PICK start \in Nat : loops' = Append(loops, [check |-> insns.len, beq |-> start])
  BY OpenLoopBuffers
<1> DEFINE L == Len(loops)
<1>5. /\ Len(loops') = L + 1 /\ \A l \in 1..L : loops'[l] = loops[l]
      /\ loops'[L + 1].check = 4 * CodeEnd[read]
  BY <1>2, <1>4
<1>6. L = Level[read] /\ Level[read + 1] = L + 1
  <2>1. Weight(source[read + 1]) = 1
    BY <1>1 DEF Weight, Char
  <2>2. L = Level[read]
    BY <1>1 DEF SourceLoops
  <2> QED BY <2>1, <2>2, <1>2, <1>3, LevelProperties
<1>7. Level' = Level /\ CodeEnd' = CodeEnd
  BY <1>1, SameProgram
<1>8. \A i \in 1..read : OpenSince(i) =>
        /\ OpenSince(i)'
        /\ Level[i - 1] \in 0..(L - 1)
        /\ loops[Level[i - 1] + 1].check = 4 * CodeEnd[i - 1]
  <2> SUFFICES ASSUME NEW i \in 1..read, OpenSince(i)
               PROVE  /\ OpenSince(i)'
                      /\ Level[i - 1] \in 0..(L - 1)
                      /\ loops[Level[i - 1] + 1].check = 4 * CodeEnd[i - 1]
    OBVIOUS
  <2>1. source[i] = "[" /\ Level[read] > Level[i - 1]
    BY <1>2 DEF OpenSince
  <2>2. /\ Level[i - 1] \in 0..(L - 1)
        /\ loops[Level[i - 1] + 1].check = 4 * CodeEnd[i - 1]
    BY <1>1 DEF SourceLoops
  <2>3. \A n \in i..(read + 1) : Level[n] > Level[i - 1]
    <3>1. \A n \in i..(read + 1) : n \in i..read \/ n = read + 1
      BY <1>2
    <3> QED BY <3>1, <2>1, <2>2, <1>2, <1>6 DEF OpenSince
  <2> QED BY <2>1, <2>2, <2>3, <1>1, <1>2, <1>7 DEF OpenSince
<1>9. \A i \in 1..(read + 1) : i = read + 1 => OpenSince(i)'
  <2>1. \A n \in (read + 1)..(read + 1) : Level[n] > Level[(read + 1) - 1]
    BY <1>2, <1>3, <1>6
  <2> QED BY <2>1, <1>1, <1>2, <1>7 DEF OpenSince, Char
<1>10. \A i \in 1..read : OpenSince(i)' => OpenSince(i)
  <2>1. \A i \in 1..read : \A n \in i..read : n \in i..(read + 1)
    BY <1>2
  <2> QED BY <2>1, <1>1, <1>7 DEF OpenSince
<1>11. Len(loops') = Level[read + 1]
  BY <1>5, <1>6
<1>12. ASSUME NEW i \in 1..(read + 1), OpenSince(i)'
       PROVE  /\ Level[i - 1] \in 0..((L + 1) - 1)
              /\ loops'[Level[i - 1] + 1].check = 4 * CodeEnd[i - 1]
  <2>1. CASE i = read + 1
    BY <2>1, <1>2, <1>3, <1>5, <1>6
  <2>2. CASE i # read + 1
    <3>1. i \in 1..read
      BY <2>2, <1>2
    <3>2. /\ Level[i - 1] \in 0..(L - 1)
          /\ loops[Level[i - 1] + 1].check = 4 * CodeEnd[i - 1]
      BY <3>1, <1>8, <1>10, <1>12
    <3>3. Level[i - 1] + 1 \in 1..L /\ Level[i - 1] \in 0..((L + 1) - 1)
      BY <3>2, <1>2
    <3> QED BY <3>2, <3>3, <1>5
  <2> QED BY <2>1, <2>2
<1>13. ASSUME NEW l \in 0..((L + 1) - 1)
       PROVE  \E i \in 1..(read + 1) : OpenSince(i)' /\ Level[i - 1] = l
  <2>1. CASE l = L
    <3>1. read + 1 \in 1..(read + 1)
      BY <1>2
    <3> QED BY <3>1, <2>1, <1>3, <1>6, <1>9
  <2>2. CASE l # L
    <3>1. l \in 0..(L - 1)
      BY <2>2, <1>2
    <3>2. PICK i \in 1..read : OpenSince(i) /\ Level[i - 1] = l
      BY <3>1, <1>1 DEF SourceLoops
    <3>3. i \in 1..(read + 1)
      BY <1>2
    <3> QED BY <3>2, <3>3, <1>8
  <2> QED BY <2>1, <2>2
<1> QED BY <1>1, <1>5, <1>7, <1>11, <1>12, <1>13 DEF SourceLoops

(* The loop a ']' ends is the one on top of the stack.                     *)
LEMMA InnermostLoop ==
  ASSUME BfcInv, SourceLoops, status = "compiling", ~AtEnd, Char = "]", loops # <<>>
  PROVE  \E i \in 1..read :
           /\ OpenSince(i) /\ Matches(i, read + 1)
           /\ Level[i - 1] = Len(loops) - 1
           /\ TopLoop.check = 4 * CodeEnd[i - 1]
<1>1. /\ source \in Seq(Chars) /\ Len(source) \in Nat /\ read \in 0..Len(source)
      /\ loops \in Seq(LoopInfo) /\ Len(loops) \in Nat
  BY Before
<1> DEFINE L == Len(loops)
<1>2. L - 1 \in 0..(L - 1) /\ (L - 1) + 1 = L
  BY <1>1
<1>3. read + 1 \in 1..Len(source) /\ (read + 1) - 1 = read
  BY <1>1 DEF AtEnd
<1>4. PICK i \in 1..read : OpenSince(i) /\ Level[i - 1] = L - 1
  BY <1>2 DEF SourceLoops
<1>5. loops[L].check = 4 * CodeEnd[i - 1]
  BY <1>2, <1>4 DEF SourceLoops
<1>6. Level[read + 1] = L - 1
  <2>1. Weight(source[read + 1]) = -1
    BY DEF Weight, Char
  <2>2. L = Level[read]
    BY DEF SourceLoops
  <2> QED BY <2>1, <2>2, <1>1, <1>3, LevelProperties
<1>7. Matches(i, read + 1)
  <2>1. i \in 1..Len(source) /\ i < read + 1
    BY <1>1
  <2>2. \A n \in i..((read + 1) - 1) : Level[n] > Level[i - 1]
    BY <1>3, <1>4 DEF OpenSince
  <2> QED BY <2>1, <2>2, <1>1, <1>3, <1>4, <1>6, MatchesProperties DEF OpenSince, Char
<1> QED BY <1>4, <1>5, <1>7 DEF TopLoop

LEMMA CloseLoopLoops ==
  ASSUME BfcInv, SourceLoops, CloseLoop PROVE SourceLoops'
<1> DEFINE L == Len(loops)
<1>1. /\ status = "compiling" /\ Char = "]" /\ ~AtEnd /\ loops # <<>>
      /\ read' = read + 1 /\ source' = source /\ loops' = SubSeq(loops, 1, L - 1)
  BY DEF CloseLoop, Reading
<1>2. /\ source \in Seq(Chars) /\ Len(source) \in Nat /\ read \in 0..Len(source)
      /\ loops \in Seq(LoopInfo) /\ L \in Nat
  BY <1>1, Before
<1>3. read + 1 \in 1..Len(source) /\ (read + 1) - 1 = read
  BY <1>1, <1>2 DEF AtEnd
<1>4. L - 1 \in Nat
  BY <1>1, <1>2
<1>5. Len(loops') = L - 1 /\ \A l \in 1..(L - 1) : loops'[l] = loops[l]
  <2> DEFINE n == L - 1
  <2>1. loops' = SubSeq(loops, 1, n) /\ n \in Nat /\ n <= Len(loops)
    BY <1>1, <1>2, <1>4
  <2> HIDE DEF n
  <2>2. Len(loops') = n /\ \A l \in 1..n : loops'[l] = loops[l]
    BY <2>1, <1>2
  <2> QED BY <2>2 DEF n
<1>6. Level[read] = L /\ Level[read + 1] = L - 1
  <2>1. Weight(source[read + 1]) = -1
    BY <1>1 DEF Weight, Char
  <2>2. L = Level[read]
    BY <1>1 DEF SourceLoops
  <2> QED BY <2>1, <2>2, <1>2, <1>3, LevelProperties
<1>7. Level' = Level /\ CodeEnd' = CodeEnd
  BY <1>1, SameProgram
<1>8. ASSUME NEW i \in 1..(read + 1), OpenSince(i)'
      PROVE  i \in 1..read /\ OpenSince(i) /\ Level[i - 1] < L - 1
  <2>1. source[i] = "[" /\ \A n \in i..(read + 1) : Level[n] > Level[i - 1]
    BY <1>1, <1>7, <1>8 DEF OpenSince
  <2>2. i # read + 1
    BY <2>1, <1>1 DEF Char
  <2>3. i \in 1..read /\ read + 1 \in i..(read + 1)
    BY <2>2, <1>2
  <2>4. \A n \in i..read : n \in i..(read + 1)
    BY <1>2
  <2> QED BY <2>1, <2>3, <2>4, <1>6 DEF OpenSince
<1>9. ASSUME NEW i \in 1..read, OpenSince(i), Level[i - 1] < L - 1
      PROVE  OpenSince(i)'
  <2>1. \A n \in i..(read + 1) : n \in i..read \/ n = read + 1
    BY <1>2
  <2>2. \A n \in i..(read + 1) : Level[n] > Level[i - 1]
    BY <2>1, <1>6, <1>9 DEF OpenSince
  <2> QED BY <2>2, <1>1, <1>2, <1>7, <1>9 DEF OpenSince
<1>10. ASSUME NEW i \in 1..(read + 1), OpenSince(i)'
       PROVE  /\ Level[i - 1] \in 0..((L - 1) - 1)
              /\ loops'[Level[i - 1] + 1].check = 4 * CodeEnd[i - 1]
  <2>1. i \in 1..read /\ OpenSince(i) /\ Level[i - 1] < L - 1
    BY <1>8, <1>10
  <2>2. /\ Level[i - 1] \in 0..(L - 1)
        /\ loops[Level[i - 1] + 1].check = 4 * CodeEnd[i - 1]
    BY <2>1, <1>1 DEF SourceLoops
  <2>3. Level[i - 1] \in 0..((L - 1) - 1) /\ Level[i - 1] + 1 \in 1..(L - 1)
    BY <2>1, <2>2, <1>2
  <2> QED BY <2>2, <2>3, <1>5
<1>11. ASSUME NEW l \in 0..((L - 1) - 1)
       PROVE  \E i \in 1..(read + 1) : OpenSince(i)' /\ Level[i - 1] = l
  <2>1. l \in 0..(L - 1) /\ l < L - 1
    BY <1>2
  <2>2. PICK i \in 1..read : OpenSince(i) /\ Level[i - 1] = l
    BY <2>1, <1>1 DEF SourceLoops
  <2>3. i \in 1..(read + 1)
    BY <1>2
  <2> QED BY <2>1, <2>2, <2>3, <1>9
<1> QED BY <1>1, <1>5, <1>6, <1>7, <1>10, <1>11 DEF SourceLoops

LEMMA LoopsStep == SourceInv /\ [Compile]_compiler => SourceLoops'
<1> SUFFICES ASSUME SourceInv, [Compile]_compiler PROVE SourceLoops'
  OBVIOUS
<1>1. BfcInv /\ SourceLoops /\ TextInv
  BY DEF SourceInv
<1>2. ASSUME UNCHANGED <<source, read, loops>>, status # "done"
      PROVE  SourceLoops'
  <2>1. Level' = Level /\ CodeEnd' = CodeEnd
    BY <1>2, SameProgram
  <2>2. \A i : OpenSince(i)' = OpenSince(i)
    BY <1>2, <2>1, Zenon DEF OpenSince
  <2> QED BY <2>1, <2>2, <1>1, <1>2 DEF SourceLoops
<1>3. CASE EmitInsn
  BY <1>2, <1>3 DEF EmitInsn
<1>4. CASE ReadStraight
  BY <1>1, <1>4, ReadStraightLoops
<1>5. CASE OpenLoop
  <2>1. status = "compiling" /\ todo = <<>>
    BY <1>5 DEF OpenLoop, Reading
  <2>2. Text = code
    BY <2>1, <1>1, Before DEF Text
  <2>3. Len(code) = CodeEnd[read]
    <3>1. code \in Seq(Insn) /\ source \in Seq(Chars) /\ read \in 0..Len(source)
      BY <2>1, <1>1, Before
    <3>2. Len(Text) = CodeEnd[read] + 0
      BY <2>1, <1>1 DEF TextInv, Alive
    <3>3. CodeEnd[read] \in Nat
      BY <3>1, CodeEndProperties
    <3> QED BY <2>2, <3>2, <3>3
  <2> QED BY <2>3, <1>1, <1>5, OpenLoopLoops
<1>6. CASE CloseLoop
  BY <1>1, <1>6, CloseLoopLoops
<1>7. CASE CloseNothing
  BY <1>2, <1>7 DEF CloseNothing, Reading
<1>8. CASE EndOfInput
  BY <1>2, <1>8 DEF EndOfInput, Reading
<1>9. CASE Finish
  BY <1>9 DEF Finish, SourceLoops
<1>10. CASE UNCHANGED compiler
  <2>1. UNCHANGED <<source, read, loops, status>>
    BY <1>10 DEF compiler
  <2> QED BY <2>1, <1>2 DEF SourceLoops
<1> QED BY <1>3, <1>4, <1>5, <1>6, <1>7, <1>8, <1>9, <1>10 DEF Compile

(* When the next character is read, all of the text has been emitted.      *)
LEMMA WhenReading ==
  ASSUME SourceInv, Reading
  PROVE  /\ Text = code /\ Len(code) = CodeEnd[read]
         /\ \A i \in 1..read : TextOf(i)
<1>1. BfcInv /\ TextInv /\ status = "compiling" /\ todo = <<>>
  BY DEF SourceInv, Reading
<1>2. code \in Seq(Insn) /\ source \in Seq(Chars) /\ read \in 0..Len(source)
  BY <1>1, Before
<1>3. Text = code
  BY <1>1, <1>2 DEF Text
<1>4. Len(Text) = CodeEnd[read] + 0 /\ \A i \in 1..read : TextOf(i)
  BY <1>1 DEF TextInv, Alive
<1>5. CodeEnd[read] \in Nat
  BY <1>2, CodeEndProperties
<1> QED BY <1>3, <1>4, <1>5

(* A character that ends no loop leaves the text before it.                *)
LEMMA EarlierText ==
  ASSUME SourceInv, Reading, ~AtEnd, read' = read + 1, source' = source,
         NEW i \in 1..read, ~Matches(i, read + 1),
         \A k \in 1..Len(code) : Text'[k] = code[k]
  PROVE  TextOf(i)'
<1>1. source \in Seq(Chars) /\ Len(source) \in Nat /\ read \in 0..Len(source)
  BY Before DEF SourceInv, Reading
<1>2. read + 1 \in 0..Len(source)
  BY <1>1 DEF AtEnd
<1>3. /\ CodeEnd[i - 1] \in Nat /\ CodeEnd[i] \in Nat
      /\ CodeEnd[i] <= CodeEnd[read] /\ CodeEnd[read] \in Nat
  <2>1. i - 1 \in 0..Len(source) /\ i \in 0..Len(source) /\ i \in 0..read
    BY <1>1
  <2> QED BY <2>1, <1>1, CodeEndProperties
<1>4. \A k \in (CodeEnd[i - 1] + 1)..CodeEnd[i] : Text'[k] = Text[k]
  <2>1. \A k \in (CodeEnd[i - 1] + 1)..CodeEnd[i] : k \in 1..Len(code)
    BY <1>3, WhenReading
  <2> QED BY <2>1, WhenReading
<1>5. TextOf(i)
  BY WhenReading
<1> QED BY <1>1, <1>2, <1>4, <1>5, TextKept

LEMMA ReadStraightText == SourceInv /\ ReadStraight => TextInv'
<1> SUFFICES ASSUME SourceInv, ReadStraight PROVE TextInv'
  OBVIOUS
<1>1. /\ Reading /\ ~AtEnd /\ Char \notin {"[", "]"} /\ status = "compiling"
      /\ read' = read + 1 /\ todo' = Straight(Char)
      /\ source' = source /\ code' = code /\ status' = status
  BY DEF ReadStraight, Reading
<1>2. /\ source \in Seq(Chars) /\ Len(source) \in Nat /\ read \in 0..Len(source)
      /\ code \in Seq(Insn) /\ Len(code) \in Nat
  BY <1>1, Before DEF SourceInv
<1>3. read + 1 \in 1..Len(source) /\ (read + 1) - 1 = read
  BY <1>1, <1>2 DEF AtEnd
<1>4. Char \in Chars \ {"[", "]", "xFF"}
  <2>1. Char # "xFF"
    BY <1>1, <1>2 DEF AtEnd, Char
  <2> QED BY <2>1, <1>1, <1>2, <1>3, ElementOfSeq DEF Char
<1> DEFINE more == Straight(Char)
<1>5. more \in Seq(Insn) /\ Len(more) = InsnCount(Char)
  <2>1. more \in Seq(NoBranch)
    BY <1>4, EmittedTypes
  <2> QED BY <2>1, <1>4, StraightLength DEF NoBranch
<1>6. Text' = code \o more
  BY <1>1 DEF Text
<1> HIDE DEF more
<1>7. /\ Len(Text') = Len(code) + InsnCount(Char)
      /\ \A k \in 1..Len(code) : Text'[k] = code[k]
      /\ \A k \in 1..InsnCount(Char) : Text'[Len(code) + k] = more[k]
  BY <1>2, <1>5, <1>6
<1>8. CodeEnd' = CodeEnd /\ Len(code) = CodeEnd[read]
      /\ CodeEnd[read + 1] = CodeEnd[read] + InsnCount(Char)
      /\ CodeEnd[read + 1] \in Nat
  <2>1. read + 1 \in 0..Len(source)
    BY <1>3
  <2> QED BY <2>1, <1>1, <1>2, <1>3, SameProgram, WhenReading, CodeEndProperties DEF Char
<1>9. ASSUME NEW i \in 1..(read + 1) PROVE TextOf(i)'
  <2>1. CASE i = read + 1
    <3>1. StraightText(i, CodeEnd[i - 1])'
      <4>1. CodeEnd'[i - 1] = Len(code) /\ source'[i] = Char
        BY <2>1, <1>1, <1>3, <1>8 DEF Char
      <4> QED BY <4>1, <1>7 DEF StraightText, more
    <3>2. source'[i] = Char
      BY <2>1, <1>1 DEF Char
    <3> QED BY <3>1, <3>2, <1>4 DEF TextOf
  <2>2. CASE i # read + 1
    <3>1. i \in 1..read
      BY <2>2, <1>2
    <3>2. ~Matches(i, read + 1)
      BY <1>1 DEF Matches, Char
    <3> QED BY <3>1, <3>2, <1>1, <1>7, EarlierText
  <2> QED BY <2>1, <2>2
<1>10. Len(Text') = CodeEnd'[read'] + 0
  BY <1>1, <1>7, <1>8
<1> QED BY <1>1, <1>9, <1>10 DEF TextInv, Alive

LEMMA OpenLoopText == SourceInv /\ OpenLoop => TextInv'
<1> SUFFICES ASSUME SourceInv, OpenLoop, Alive' PROVE TextInv'
  BY DEF TextInv
<1> DEFINE new == <<load_cell, Branch(Unset)>>
<1>1. /\ Reading /\ ~AtEnd /\ Char = "[" /\ status = "compiling"
      /\ read' = read + 1 /\ source' = source /\ todo' = <<>>
      /\ code' = code \o <<load_cell, asm_empty_beq(rv_t0, rv_zero)>>
  BY DEF OpenLoop, Reading
<1>2. /\ source \in Seq(Chars) /\ Len(source) \in Nat /\ read \in 0..Len(source)
      /\ code \in Seq(Insn) /\ Len(code) \in Nat
  BY <1>1, Before DEF SourceInv
<1>3. read + 1 \in 1..Len(source) /\ (read + 1) - 1 = read
  BY <1>1, <1>2 DEF AtEnd
<1>4. status' = "compiling"
  BY OpenLoopBuffers DEF SourceInv, Alive
<1>5. Branch(Unset) = asm_empty_beq(rv_t0, rv_zero)
  BY DEF Branch, asm_empty_beq
<1>6. load_cell \in Insn /\ Branch(Unset) \in Insn
  BY <1>5, BranchType, RegisterTypes, EmittedTypes DEF NoBranch
<1>7. code' = code \o new
  BY <1>1, <1>5
<1>8. Text' = code \o new
  <2>1. new \in Seq(Insn)
    BY <1>6
  <2>2. code \o new \in Seq(Insn)
    BY <2>1, <1>2
  <2> HIDE DEF new
  <2>3. (code \o new) \o <<>> = code \o new
    BY <2>2
  <2> QED BY <2>3, <1>1, <1>7 DEF Text
<1>9. /\ Len(Text') = Len(code) + 2
      /\ \A k \in 1..Len(code) : Text'[k] = code[k]
      /\ Text'[Len(code) + 1] = load_cell /\ Text'[Len(code) + 2] = Branch(Unset)
  <2>1. new \in Seq(Insn) /\ Len(new) = 2 /\ new[1] = load_cell /\ new[2] = Branch(Unset)
    BY <1>6
  <2> HIDE DEF new
  <2>2. /\ Len(Text') = Len(code) + Len(new)
        /\ \A k \in 1..Len(code) : Text'[k] = code[k]
        /\ \A k \in 1..Len(new) : Text'[Len(code) + k] = new[k]
    <3>1. new \in Seq(Insn) /\ code \in Seq(Insn)
      BY <2>1, <1>2
    <3> QED BY <3>1, <1>8
  <2>3. 1 \in 1..Len(new) /\ 2 \in 1..Len(new)
    BY <2>1
  <2>4. Text'[Len(code) + 1] = load_cell /\ Text'[Len(code) + 2] = Branch(Unset)
    BY <2>1, <2>2, <2>3, Zenon
  <2> QED BY <2>1, <2>2, <2>4
<1>10. CodeEnd' = CodeEnd /\ Len(code) = CodeEnd[read]
       /\ CodeEnd[read + 1] = CodeEnd[read] + 2 /\ CodeEnd[read + 1] \in Nat
  <2>1. read + 1 \in 0..Len(source) /\ InsnCount(source[read + 1]) = 2
    BY <1>1, <1>3 DEF InsnCount, Char
  <2> QED BY <2>1, <1>1, <1>2, <1>3, SameProgram, WhenReading, CodeEndProperties
<1>11. ASSUME NEW i \in 1..(read + 1) PROVE TextOf(i)'
  <2>1. CASE i = read + 1
    <3>1. Targets(i, Unset)'
      <4>1. \A j \in i..read' : ~Matches(i, j)'
        <5>1. \A j \in i..read' : j = i
          BY <2>1, <1>1, <1>2
        <5> QED BY <5>1, <1>2 DEF Matches
      <4> QED BY <4>1 DEF Targets
    <3>2. CodeEnd'[i - 1] = Len(code) /\ source'[i] = "["
      BY <2>1, <1>1, <1>3, <1>10 DEF Char
    <3>3. OpenText(i, CodeEnd[i - 1])'
      BY <3>1, <3>2, <1>9 DEF OpenText, Branch
    <3> QED BY <3>2, <3>3 DEF TextOf
  <2>2. CASE i # read + 1
    <3>1. i \in 1..read
      BY <2>2, <1>2
    <3>2. ~Matches(i, read + 1)
      BY <1>1 DEF Matches, Char
    <3> QED BY <3>1, <3>2, <1>1, <1>9, EarlierText
  <2> QED BY <2>1, <2>2
<1>12. Len(Text') = CodeEnd'[read'] + 0
  BY <1>1, <1>9, <1>10
<1> QED BY <1>1, <1>4, <1>11, <1>12 DEF TextInv

(* A ']' writes the target into the branch of its '[' and the jump at the  *)
(* end, and nothing else.                                                  *)
LEMMA Patching ==
  ASSUME SourceInv, CloseLoop, Alive'
  PROVE  \E i \in 1..read :
           /\ Matches(i, read + 1)
           /\ Len(code') = Len(code) + 1
           /\ CodeEnd[i - 1] + 2 \in 1..Len(code)
           /\ code'[CodeEnd[i - 1] + 2] = Branch(Span(i, read + 1))
           /\ code'[Len(code) + 1] = asm_jal(rv_zero, -Span(i, read + 1))
           /\ \A k \in 1..Len(code) : k # CodeEnd[i - 1] + 2 => code'[k] = code[k]
<1> DEFINE L == Len(loops)
<1>1. /\ Reading /\ ~AtEnd /\ Char = "]" /\ loops # <<>> /\ status = "compiling"
      /\ read' = read + 1 /\ source' = source
  BY DEF CloseLoop, Reading
<1>2. /\ source \in Seq(Chars) /\ Len(source) \in Nat /\ read \in 0..Len(source)
      /\ code \in Seq(Insn) /\ Len(code) \in Nat
      /\ loops \in Seq(LoopInfo) /\ L \in Nat /\ LoopsOpen
  BY <1>1, Before DEF SourceInv
<1>3. read + 1 \in 1..Len(source) /\ (read + 1) - 1 = read
  BY <1>1, <1>2 DEF AtEnd
<1>4. PICK i \in 1..read : /\ OpenSince(i) /\ Matches(i, read + 1)
                           /\ TopLoop.check = 4 * CodeEnd[i - 1]
  BY <1>1, InnermostLoop DEF SourceInv
<1> DEFINE b == CodeEnd[i - 1]
           dist == Distance(TopLoop, insns'.len)
           jump == asm_jal(rv_zero, -dist)
<1>5. b \in Nat
  <2>1. i - 1 \in 0..Len(source)
    BY <1>2
  <2> QED BY <2>1, <1>2, CodeEndProperties
<1>6. (TopLoop.beq \div 4) + 1 = b + 2 /\ b + 2 \in 1..Len(code)
  <2>1. L \in 1..L
    BY <1>1, <1>2
  <2>2. /\ loops[L].beq \in Nat /\ Place(L) \in 1..Len(code)
        /\ loops[L].beq = 4 * (Place(L) - 1) /\ loops[L].check = loops[L].beq - 4
    BY <2>1, <1>2, PlaceProperties DEF LoopsOpen, SourceInv
  <2>3. loops[L].check = 4 * b
    BY <1>4 DEF TopLoop
  <2>4. Place(L) = b + 2
    BY <2>2, <2>3, <1>5
  <2> QED BY <2>2, <2>4 DEF Place, TopLoop
<1>7. code' = Append([code EXCEPT ![b + 2].imm = dist], jump)
  BY <1>6 DEF CloseLoop
<1>8. TextOf(i) /\ Text = code /\ Len(code) = CodeEnd[read]
  BY <1>1, WhenReading
<1>9. PICK target : code[b + 2] = Branch(target)
  <2>1. OpenText(i, b)
    BY <1>4, <1>8 DEF TextOf, OpenSince
  <2> QED BY <2>1, <1>8 DEF OpenText
<1> DEFINE new == [code[b + 2] EXCEPT !.imm = dist]
<1>10. new = Branch(dist)
  BY <1>9 DEF Branch, asm_empty_beq
<1> DEFINE q == b + 2
           patched == [code EXCEPT ![q] = new]
<1>11. code' = Append(patched, jump)
  BY <1>7
<1>12. Len(code') = Len(code) + 1 /\ insns'.len = 4 * (Len(code) + 1)
  <2>1. BfcInv'
    BY BfcStep DEF SourceInv, Compile
  <2>2. insns'.len = 4 * Len(code')
    BY <2>1 DEF BfcInv, TypeOK
  <2>3. Len(patched) = Len(code) /\ patched \in Seq(Insn \union {new})
    BY <1>2, <1>6
  <2> HIDE DEF patched, jump
  <2>4. Len(Append(patched, jump)) = Len(patched) + 1
    BY <2>3
  <2> QED BY <2>2, <2>3, <2>4, <1>11
<1>13. dist = Span(i, read + 1)
  <2>1. CodeEnd[read + 1] = Len(code) + 1
    <3>1. InsnCount(source[read + 1]) = 1
      BY <1>1 DEF InsnCount, Char
    <3> QED BY <3>1, <1>2, <1>3, <1>8, CodeEndProperties
  <2>2. dist = i16(4 * (Len(code) + 1) - 4 * b)
    BY <1>4, <1>12 DEF Distance
  <2>3. 4 * (Len(code) + 1) - 4 * b = 4 * (CodeEnd[read + 1] - b)
    <3>1. \A m, n \in Nat : 4 * (m + 1) - 4 * n = 4 * ((m + 1) - n)
      OBVIOUS
    <3> HIDE DEF b
    <3>2. 4 * (Len(code) + 1) - 4 * b = 4 * ((Len(code) + 1) - b)
      BY <3>1, <1>2, <1>5
    <3> QED BY <3>2, <2>1, Zenon
  <2> QED BY <2>2, <2>3 DEF Span
<1> HIDE DEF dist, new, jump
<1>14. patched \in Seq(Insn \union {new, jump}) /\ Len(patched) = Len(code)
       /\ jump \in Insn \union {new, jump}
       /\ patched[q] = new /\ \A k \in 1..Len(code) : k # q => patched[k] = code[k]
  BY <1>2, <1>6
<1> HIDE DEF patched, q
<1>15. /\ \A k \in 1..Len(patched) : code'[k] = patched[k]
       /\ code'[Len(patched) + 1] = jump
  BY <1>11, <1>14, AppendProperties
<1>16. /\ code'[q] = new /\ code'[Len(code) + 1] = jump
       /\ \A k \in 1..Len(code) : k # q => code'[k] = code[k]
  BY <1>6, <1>14, <1>15 DEF q
<1> QED BY <1>4, <1>6, <1>10, <1>12, <1>13, <1>16 DEF q, jump

LEMMA CloseLoopText == SourceInv /\ CloseLoop => TextInv'
<1> SUFFICES ASSUME SourceInv, CloseLoop, Alive' PROVE TextInv'
  BY DEF TextInv
<1>1. /\ Reading /\ ~AtEnd /\ Char = "]" /\ status = "compiling"
      /\ read' = read + 1 /\ source' = source /\ todo' = <<>>
      /\ insns' \in O!Reserve(insns, 4) /\ status' = After(O!Written(insns', 4))
  BY DEF CloseLoop, Reading
<1>2. /\ source \in Seq(Chars) /\ Len(source) \in Nat /\ read \in 0..Len(source)
      /\ code \in Seq(Insn) /\ Len(code) \in Nat /\ insns \in O!Buffer
  BY <1>1, Before DEF SourceInv
<1>3. read + 1 \in 1..Len(source) /\ (read + 1) - 1 = read
  BY <1>1, <1>2 DEF AtEnd
<1>4. status' = "compiling"
  <2>1. O!Written(insns', 4) \in {"ok", "segv", "wild"}
    BY <1>1, <1>2, WrittenProperties
  <2> QED BY <2>1, <1>1 DEF Alive, After
<1>5. PICK open \in 1..read :
        /\ Matches(open, read + 1)
        /\ Len(code') = Len(code) + 1
        /\ CodeEnd[open - 1] + 2 \in 1..Len(code)
        /\ code'[CodeEnd[open - 1] + 2] = Branch(Span(open, read + 1))
        /\ code'[Len(code) + 1] = asm_jal(rv_zero, -Span(open, read + 1))
        /\ \A k \in 1..Len(code) : k # CodeEnd[open - 1] + 2 => code'[k] = code[k]
  BY Patching
<1> DEFINE q == CodeEnd[open - 1] + 2
<1>6. Text' = code'
  <2>1. code' \in Seq(Insn)
    BY BfcStep DEF SourceInv, Compile, BfcInv, TypeOK
  <2> QED BY <2>1, <1>1 DEF Text
<1>7. /\ Level' = Level /\ CodeEnd' = CodeEnd
      /\ \A i, j : Matches(i, j)' = Matches(i, j) /\ Span(i, j)' = Span(i, j)
  BY <1>1, SameProgram
<1>8. /\ Text = code /\ Len(code) = CodeEnd[read] /\ \A i \in 1..read : TextOf(i)
      /\ CodeEnd[read + 1] = CodeEnd[read] + 1 /\ CodeEnd[read + 1] \in Nat
  <2>1. read + 1 \in 0..Len(source) /\ InsnCount(source[read + 1]) = 1
    BY <1>1, <1>3 DEF InsnCount, Char
  <2> QED BY <2>1, <1>1, <1>2, <1>3, WhenReading, CodeEndProperties
<1>9. open \in 1..Len(source) /\ open \in 0..Len(source) /\ open - 1 \in 0..Len(source)
      /\ source[open] = "[" /\ CodeEnd[open - 1] \in Nat
      /\ CodeEnd[open] = CodeEnd[open - 1] + 2
  <2>1. open \in 1..Len(source) /\ open \in 0..Len(source) /\ open - 1 \in 0..Len(source)
    BY <1>2
  <2>2. source[open] = "[" /\ InsnCount(source[open]) = 2
    BY <1>5 DEF Matches, InsnCount
  <2> QED BY <2>1, <2>2, <1>2, CodeEndProperties
<1>10. ASSUME NEW i \in 1..(read + 1) PROVE TextOf(i)'
  <2>1. CASE i = read + 1
    <3>1. Matches(open, i)' /\ Span(open, i)' = Span(open, i) /\ open \in 1..i
      BY <2>1, <1>2, <1>5, <1>7
    <3>2. CodeEnd'[i - 1] = Len(code) /\ source'[i] = "]"
      BY <2>1, <1>1, <1>3, <1>7, <1>8 DEF Char
    <3>3. Text'[Len(code) + 1] = asm_jal(rv_zero, -Span(open, i))
      BY <2>1, <1>5, <1>6
    <3>4. Text'[Len(code) + 1] = asm_jal(rv_zero, -(Span(open, i)'))
      BY <3>1, <3>3, Zenon
    <3>5. CloseText(i, CodeEnd[i - 1])'
      BY <3>1, <3>2, <3>4, Zenon DEF CloseText
    <3> QED BY <3>2, <3>5 DEF TextOf
  <2>2. CASE i = open
    <3>1. OpenText(i, CodeEnd[i - 1])
      BY <2>2, <1>8, <1>9 DEF TextOf
    <3>2. Text'[CodeEnd[i - 1] + 1] = load_cell
      <4>1. CodeEnd[i - 1] + 1 \in 1..Len(code) /\ CodeEnd[i - 1] + 1 # q
        BY <2>2, <1>5, <1>9
      <4> QED BY <4>1, <3>1, <1>5, <1>6, <1>8 DEF OpenText
    <3>3. Text'[CodeEnd[i - 1] + 2] = Branch(Span(i, read + 1))
      BY <2>2, <1>5, <1>6
    <3>4. ASSUME NEW target, target = Span(i, read + 1) PROVE Targets(i, target)'
      <4>1. ASSUME NEW j \in i..(read + 1), Matches(i, j) PROVE j = read + 1
        <5>1. j \in 1..Len(source)
          BY <1>2, <1>3, <2>2
        <5> QED BY <5>1, <4>1, <2>2, <1>2, <1>3, <1>5, <1>9, MatchIsUnique
      <4>2. read + 1 \in i..(read + 1) /\ Matches(i, read + 1)
        BY <2>2, <1>2, <1>5
      <4> QED BY <4>1, <4>2, <3>4, <1>1, <1>7 DEF Targets
    <3>5. OpenText(i, CodeEnd[i - 1])'
      BY <3>2, <3>3, <3>4, <1>7 DEF OpenText, Branch
    <3> QED BY <3>5, <2>2, <1>1, <1>9 DEF TextOf
  <2>3. CASE i # read + 1 /\ i # open
    <3>1. i \in 1..read /\ i \in 1..Len(source)
      BY <2>3, <1>2
    <3>2. ~Matches(i, read + 1)
      BY <3>1, <2>3, <1>2, <1>3, <1>5, <1>9, MatchIsUnique
    <3>3. /\ CodeEnd[i - 1] \in Nat /\ CodeEnd[i] \in Nat
          /\ CodeEnd[i] <= CodeEnd[read] /\ CodeEnd[read] \in Nat
      <4>1. i - 1 \in 0..Len(source) /\ i \in 0..Len(source) /\ i \in 0..read
        BY <3>1, <1>2
      <4> QED BY <4>1, <1>2, CodeEndProperties
    <3>4. CodeEnd[i] < q \/ q <= CodeEnd[i - 1]
      <4>1. CASE i < open
        <5>1. i \in 0..(open - 1)
          BY <4>1, <3>1, <1>2
        <5>2. CodeEnd[i] <= CodeEnd[open - 1]
          BY <5>1, <1>2, <1>9, CodeEndProperties
        <5> QED BY <5>2, <3>3, <1>9
      <4>2. CASE open < i
        <5>1. open \in 0..(i - 1) /\ i - 1 \in 0..Len(source)
          BY <4>2, <3>1, <1>2
        <5>2. CodeEnd[open] <= CodeEnd[i - 1]
          BY <5>1, <1>2, CodeEndProperties
        <5> QED BY <5>2, <3>3, <1>9
      <4> QED BY <4>1, <4>2, <2>3, <1>2
    <3>5. \A k \in (CodeEnd[i - 1] + 1)..CodeEnd[i] : k \in 1..Len(code) /\ k # q
      <4>1. \A m, n, p, len \in Nat : (n < p \/ p <= m) /\ n <= len =>
              \A k \in (m + 1)..n : k \in 1..len /\ k # p
        OBVIOUS
      <4>2. q \in Nat
        BY <1>9
      <4> HIDE DEF q
      <4> QED BY <4>1, <4>2, <3>3, <3>4, <1>8
    <3>6. \A k \in (CodeEnd[i - 1] + 1)..CodeEnd[i] : Text'[k] = Text[k]
      BY <3>5, <1>5, <1>6, <1>8
    <3>7. TextOf(i) /\ read' \in 0..Len(source)
      BY <3>1, <1>1, <1>3, <1>8
    <3> QED BY <3>1, <3>2, <3>6, <3>7, <1>1, <1>2, TextKept
  <2> QED BY <2>1, <2>2, <2>3
<1>11. Len(Text') = CodeEnd'[read'] + 0
  BY <1>1, <1>5, <1>6, <1>7, <1>8
<1> QED BY <1>1, <1>4, <1>10, <1>11 DEF TextInv

LEMMA OtherTexts ==
  ASSUME SourceInv, EmitInsn \/ CloseNothing \/ EndOfInput \/ Finish \/ UNCHANGED compiler
  PROVE  TextInv'
<1>1. BfcInv /\ SourceLoops /\ TextInv
  BY DEF SourceInv
<1>2. ASSUME UNCHANGED <<source, read>>, \A k \in 1..Len(Text) : Text'[k] = Text[k],
             status \in {"compiling", "ending"}, Len(Text) \in Nat
      PROVE  \A i \in 1..read : TextOf(i)'
  <2> SUFFICES ASSUME NEW i \in 1..read PROVE TextOf(i)'
    OBVIOUS
  <2>1. source \in Seq(Chars) /\ Len(source) \in Nat /\ read \in 0..Len(source)
    BY <1>1, <1>2, Before
  <2>2. TextOf(i) /\ Len(Text) >= CodeEnd[read]
    <3>1. CodeEnd[read] \in Nat
      BY <2>1, CodeEndProperties
    <3>2. \/ Len(Text) = CodeEnd[read] + 0
          \/ Len(Text) = CodeEnd[read] + 3
      BY <1>1, <1>2 DEF TextInv, Alive
    <3> QED BY <3>1, <3>2, <1>1, <1>2 DEF TextInv, Alive
  <2>3. /\ CodeEnd[i - 1] \in Nat /\ CodeEnd[i] \in Nat
        /\ CodeEnd[i] <= CodeEnd[read] /\ CodeEnd[read] \in Nat
    <3>1. i - 1 \in 0..Len(source) /\ i \in 0..Len(source) /\ i \in 0..read
      BY <2>1
    <3> QED BY <3>1, <2>1, CodeEndProperties
  <2>4. \A k \in (CodeEnd[i - 1] + 1)..CodeEnd[i] : k \in 1..Len(Text)
    <3>1. \A m, n, p, len \in Nat : n <= p /\ p <= len =>
            \A k \in (m + 1)..n : k \in 1..len
      OBVIOUS
    <3> QED BY <3>1, <2>2, <2>3, <1>2
  <2> QED BY <2>1, <2>2, <2>4, <1>2, TextKept
<1>3. CASE EmitInsn
  <2> SUFFICES ASSUME Alive' PROVE TextInv'
    BY DEF TextInv
  <2>1. /\ status \in {"compiling", "ending"} /\ todo # <<>>
        /\ insns' \in O!Reserve(insns, 4) /\ status' = After(O!Written(insns', 4))
        /\ code' = Append(code, Head(todo)) /\ todo' = Tail(todo)
        /\ UNCHANGED <<source, read>>
    BY <1>3 DEF EmitInsn
  <2>2. /\ source \in Seq(Chars) /\ read \in 0..Len(source)
        /\ code \in Seq(Insn) /\ todo \in Seq(NoBranch) /\ insns \in O!Buffer
    BY <2>1, <1>1, Before
  <2>3. status' = status
    <3>1. O!Written(insns', 4) \in {"ok", "segv", "wild"}
      BY <2>1, <2>2, WrittenProperties
    <3> QED BY <3>1, <2>1 DEF Alive, After
  <2>4. Text' = Text /\ Len(Text) \in Nat
    <3>1. todo \in Seq(Insn)
      BY <1>1 DEF BfcInv, TypeOK
    <3> QED BY <3>1, <2>1, <2>2 DEF Text
  <2>5. \A i \in 1..read' : TextOf(i)'
    BY <2>1, <2>4, <1>2
  <2>6. CodeEnd' = CodeEnd
    BY <2>1, SameProgram
  <2>7. AtEnd' = AtEnd
    BY <2>1 DEF AtEnd
  <2> QED BY <2>1, <2>3, <2>4, <2>5, <2>6, <2>7, <1>1 DEF TextInv, Alive
<1>4. CASE CloseNothing
  BY <1>4 DEF CloseNothing, TextInv, Alive
<1>5. CASE EndOfInput
  <2>1. /\ Reading /\ AtEnd /\ status = "compiling" /\ status' = "ending"
        /\ todo' = Epilogue /\ UNCHANGED <<source, read, code>>
    BY <1>5 DEF EndOfInput, Reading
  <2>2. source \in Seq(Chars) /\ read \in 0..Len(source) /\ code \in Seq(Insn)
    BY <2>1, <1>1, Before
  <2>3. Text = code /\ Len(code) = CodeEnd[read] /\ Text' = code \o Epilogue
    BY <2>1, WhenReading DEF Text
  <2>4. Epilogue \in Seq(Insn) /\ Len(Epilogue) = 3
    <3>1. Epilogue \in Seq(NoBranch)
      BY EmittedTypes
    <3> QED BY <3>1 DEF NoBranch, Epilogue
  <2>5. Len(Text') = CodeEnd[read] + 3 /\ \A k \in 1..Len(Text) : Text'[k] = Text[k]
    <3>1. /\ Len(code \o Epilogue) = Len(code) + Len(Epilogue)
          /\ \A k \in 1..Len(code) : (code \o Epilogue)[k] = code[k]
      <4>1. code \in Seq(Insn) /\ Epilogue \in Seq(Insn)
        BY <2>2, <2>4
      <4> QED BY <4>1
    <3> QED BY <3>1, <2>3, <2>4, Zenon
  <2>6. \A i \in 1..read' : TextOf(i)'
    BY <2>1, <2>2, <2>3, <2>5, <1>2
  <2>7. CodeEnd' = CodeEnd /\ AtEnd'
    BY <2>1, SameProgram DEF AtEnd
  <2> QED BY <2>1, <2>5, <2>6, <2>7 DEF TextInv
<1>6. CASE Finish
  <2>1. /\ status = "ending" /\ todo = <<>> /\ status' = "done"
        /\ UNCHANGED <<source, read, todo, code>>
    BY <1>6 DEF Finish
  <2>2. Text' = Text /\ Len(Text) \in Nat
    <3>1. code \in Seq(Insn)
      BY <2>1, <1>1, Before
    <3> QED BY <3>1, <2>1 DEF Text
  <2>3. \A i \in 1..read' : TextOf(i)'
    BY <2>1, <2>2, <1>2
  <2>4. CodeEnd' = CodeEnd /\ AtEnd' = AtEnd
    BY <2>1, SameProgram DEF AtEnd
  <2> QED BY <2>1, <2>2, <2>3, <2>4, <1>1 DEF TextInv, Alive
<1>7. CASE UNCHANGED compiler
  <2>1. UNCHANGED <<source, read, todo, code, status>>
    BY <1>7 DEF compiler
  <2>2. /\ Level' = Level /\ CodeEnd' = CodeEnd
        /\ \A k, j : Matches(k, j)' = Matches(k, j) /\ Span(k, j)' = Span(k, j)
    BY <2>1, SameProgram
  <2>3. Text' = Text
    BY <2>1 DEF Text
  <2>4. \A i : TextOf(i)' = TextOf(i)
    <3>1. \A i, t : Targets(i, t)' = Targets(i, t)
      BY <2>1, <2>2, Zenon DEF Targets
    <3>2. \A i, b : OpenText(i, b)' = OpenText(i, b)
      BY <2>3, <3>1, Zenon DEF OpenText, Branch
    <3>3. \A i, b : CloseText(i, b)' = CloseText(i, b)
      BY <2>2, <2>3, Zenon DEF CloseText
    <3>4. \A i, b : StraightText(i, b)' = StraightText(i, b)
      BY <2>1, <2>3, Zenon DEF StraightText
    <3> QED BY <2>1, <2>2, <3>2, <3>3, <3>4, Zenon DEF TextOf
  <2> QED BY <2>1, <2>2, <2>3, <2>4, <1>1 DEF TextInv, Alive, AtEnd
<1> QED BY <1>3, <1>4, <1>5, <1>6, <1>7

LEMMA SourceStep == SourceInv /\ [Compile]_compiler => SourceInv'
<1> SUFFICES ASSUME SourceInv, [Compile]_compiler PROVE SourceInv'
  OBVIOUS
<1>1. BfcInv'
  BY BfcStep DEF SourceInv
<1>2. SourceLoops'
  BY LoopsStep
<1>3. TextInv'
  BY ReadStraightText, OpenLoopText, CloseLoopText, OtherTexts DEF Compile
<1> QED BY <1>1, <1>2, <1>3 DEF SourceInv

LEMMA SourceInit == Init => SourceInv
<1> SUFFICES ASSUME Init PROVE SourceInv
  OBVIOUS
<1>1. BfcInv
  BY BfcInit
<1>2. /\ source \in Seq(Chars) /\ read = 0 /\ todo = Prologue /\ code = <<>>
      /\ loops = <<>> /\ status = "compiling"
  BY SourcesAssumption DEF Init
<1>3. Level[0] = 0 /\ CodeEnd[0] = 2
  BY <1>2, LevelProperties, CodeEndProperties
<1>4. SourceLoops
  BY <1>2, <1>3 DEF SourceLoops
<1>5. Len(Text) = 2
  <2>1. Prologue \in Seq(NoBranch) /\ Len(Prologue) = 2
    BY EmittedTypes DEF Prologue
  <2> QED BY <2>1, <1>2 DEF Text
<1>6. TextInv
  BY <1>2, <1>3, <1>5 DEF TextInv
<1> QED BY <1>1, <1>4, <1>6 DEF SourceInv

-----------------------------------------------------------------------------
(* A part of a sequence is known by its length and its elements.           *)
LEMMA SubSeqEqual ==
  ASSUME NEW S, NEW s \in Seq(S), NEW t \in Seq(S), NEW b \in Nat,
         b + Len(t) <= Len(s), \A k \in 1..Len(t) : s[b + k] = t[k]
  PROVE  SubSeq(s, b + 1, b + Len(t)) = t
<1> DEFINE m == b + 1
           n == b + Len(t)
           u == SubSeq(s, m, n)
<1>1. m \in Int /\ n \in Int /\ n - m + 1 = Len(t) /\ Len(t) \in Nat
  OBVIOUS
<1>2. \A k \in m..n : s[k] \in S
  <2>1. \A k \in m..n : k \in 1..Len(s)
    OBVIOUS
  <2> QED BY <2>1, ElementOfSeq
<1> HIDE DEF m, n
<1>3. /\ u \in Seq(S) /\ Len(u) = IF m <= n THEN n - m + 1 ELSE 0
      /\ \A k \in 1..(n - m + 1) : u[k] = s[m + k - 1]
  BY <1>1, <1>2, SubSeqProperties
<1>4. Len(u) = Len(t)
  BY <1>1, <1>3
<1>5. \A k \in 1..Len(t) : u[k] = t[k]
  <2>1. \A k \in 1..Len(t) : m + k - 1 = b + k
    BY DEF m
  <2> QED BY <2>1, <1>1, <1>3
<1> HIDE DEF u
<1>6. u = t
  BY <1>3, <1>4, <1>5, SeqEqual
<1> QED BY <1>6 DEF u, m, n

(* What is emitted for a command is its translation.                       *)
LEMMA TextIsTranslation ==
  ASSUME SourceInv, status = "done", NEW i \in 1..read
  PROVE  SubSeq(code, CodeEnd[i - 1] + 1, CodeEnd[i]) = Translation(i)
<1> DEFINE b == CodeEnd[i - 1]
<1>1. /\ source \in Seq(Chars) /\ read \in 0..Len(source) /\ code \in Seq(Insn)
      /\ Text = code /\ Len(code) = CodeEnd[read] + 3 /\ TextOf(i)
  <2>1. /\ source \in Seq(Chars) /\ read \in 0..Len(source) /\ code \in Seq(Insn)
    BY SourcesAssumption DEF SourceInv, BfcInv, TypeOK
  <2>2. todo = <<>> /\ Len(Text) = CodeEnd[read] + 3 /\ TextOf(i)
    BY DEF SourceInv, TextInv, Alive
  <2>3. Text = code
    BY <2>1, <2>2 DEF Text
  <2> QED BY <2>1, <2>2, <2>3
<1>2. /\ b \in Nat /\ CodeEnd[i] = b + InsnCount(source[i])
      /\ CodeEnd[i] <= Len(code) /\ Len(code) \in Nat
  <2>1. i - 1 \in 0..Len(source) /\ i \in 0..Len(source) /\ i \in 0..read /\ i \in 1..Len(source)
    BY <1>1
  <2>2. /\ b \in Nat /\ CodeEnd[i] = b + InsnCount(source[i]) /\ CodeEnd[i] \in Nat
        /\ CodeEnd[i] <= CodeEnd[read] /\ CodeEnd[read] \in Nat
    BY <2>1, <1>1, CodeEndProperties
  <2> QED BY <2>2, <1>1
<1> HIDE DEF b
<1>3. ASSUME NEW t \in Seq(Insn), Len(t) = InsnCount(source[i]), t = Translation(i),
             \A k \in 1..Len(t) : code[b + k] = t[k]
      PROVE  SubSeq(code, b + 1, CodeEnd[i]) = Translation(i)
  BY <1>1, <1>2, <1>3, SubSeqEqual
<1>4. CASE source[i] = "["
  <2>1. OpenText(i, b)
    BY <1>1, <1>4 DEF TextOf, b
  <2>2. PICK target : code[b + 2] = Branch(target) /\ Targets(i, target)
    BY <2>1, <1>1 DEF OpenText
  <2> DEFINE t == <<load_cell, Branch(target)>>
  <2>3. InsnCount(source[i]) = 2
    BY <1>4 DEF InsnCount
  <2>4. code[b + 1] = load_cell
    BY <2>1, <1>1 DEF OpenText
  <2>5. code[b + 1] \in Insn /\ code[b + 2] \in Insn
    <3>1. b + 1 \in 1..Len(code) /\ b + 2 \in 1..Len(code)
      BY <1>2, <2>3
    <3> QED BY <3>1, <1>1, ElementOfSeq
  <2>6. t \in Seq(Insn) /\ Len(t) = 2 /\ t[1] = load_cell /\ t[2] = Branch(target)
    BY <2>2, <2>4, <2>5
  <2>7. target = IF \E j \in i..read : Matches(i, j)
                 THEN Span(i, CHOOSE j \in i..read : Matches(i, j)) ELSE Unset
    <3> DEFINE m == CHOOSE j \in i..read : Matches(i, j)
    <3>1. CASE \E j \in i..read : Matches(i, j)
      <4>1. m \in i..read /\ Matches(i, m)
        BY <3>1, Zenon
      <4> HIDE DEF m
      <4>2. target = Span(i, m)
        BY <4>1, <2>2 DEF Targets
      <4> QED BY <3>1, <4>2, Zenon DEF m
    <3>2. CASE ~\E j \in i..read : Matches(i, j)
      <4>1. target = Unset
        BY <3>2, <2>2 DEF Targets
      <4> QED BY <3>2, <4>1, Zenon
    <3> QED BY <3>1, <3>2
  <2>8. t = Translation(i)
    BY <1>4, <2>7, Zenon DEF Translation, Branch
  <2> HIDE DEF t
  <2>9. \A k \in 1..Len(t) : code[b + k] = t[k]
    <3>1. \A k \in 1..Len(t) : k = 1 \/ k = 2
      BY <2>6
    <3> QED BY <3>1, <2>2, <2>4, <2>6
  <2> QED BY <1>3, <2>3, <2>6, <2>8, <2>9 DEF b
<1>5. CASE source[i] = "]"
  <2>1. PICK k \in 1..i : Matches(k, i) /\ code[b + 1] = asm_jal(rv_zero, -Span(k, i))
    BY <1>1, <1>5 DEF TextOf, CloseText, b
  <2> DEFINE m == CHOOSE j \in 1..i : Matches(j, i)
             t == <<asm_jal(rv_zero, -Span(k, i))>>
  <2>2. m = k
    <3>1. m \in 1..i /\ Matches(m, i)
      BY <2>1, Zenon
    <3> HIDE DEF m
    <3>2. m \in 1..Len(source) /\ k \in 1..Len(source) /\ i \in 1..Len(source)
      BY <3>1, <1>1
    <3> QED BY <3>1, <3>2, <2>1, <1>1, MatchIsUnique
  <2>3. InsnCount(source[i]) = 1
    BY <1>5 DEF InsnCount
  <2>4. code[b + 1] \in Insn
    <3>1. b + 1 \in 1..Len(code)
      BY <1>2, <2>3
    <3> QED BY <3>1, <1>1, ElementOfSeq
  <2>5. t \in Seq(Insn) /\ Len(t) = 1 /\ t[1] = code[b + 1]
    BY <2>1, <2>4
  <2>6. t = Translation(i)
    <3>1. source[i] # "["
      BY <1>5
    <3> HIDE DEF t
    <3>2. Translation(i) = <<asm_jal(rv_zero, -Span(m, i))>>
      BY <1>5, <3>1, Zenon DEF Translation
    <3> QED BY <3>2, <2>2 DEF t
  <2> HIDE DEF t
  <2>7. \A j \in 1..Len(t) : code[b + j] = t[j]
    <3>1. \A j \in 1..Len(t) : j = 1
      BY <2>5
    <3> QED BY <3>1, <2>5
  <2> QED BY <1>3, <2>3, <2>5, <2>6, <2>7 DEF b
<1>6. CASE source[i] \notin {"[", "]"}
  <2> DEFINE t == Straight(source[i])
  <2>1. source[i] \in Chars \ {"[", "]", "xFF"}
    <3>1. i \in 1..Len(source)
      BY <1>1
    <3>2. source[i] \in Chars
      BY <3>1, <1>1, ElementOfSeq
    <3> QED BY <3>2, <1>1, <1>6 DEF TextOf
  <2>2. t \in Seq(Insn) /\ Len(t) = InsnCount(source[i])
    <3>1. t \in Seq(NoBranch)
      BY <2>1, EmittedTypes
    <3> QED BY <3>1, <2>1, StraightLength DEF NoBranch
  <2>3. t = Translation(i)
    BY <1>6 DEF Translation
  <2>4. \A k \in 1..Len(t) : code[b + k] = t[k]
    BY <2>2, <1>1, <1>6 DEF TextOf, StraightText, b
  <2> HIDE DEF t
  <2> QED BY <1>3, <2>2, <2>3, <2>4 DEF b
<1> QED BY <1>4, <1>5, <1>6

-----------------------------------------------------------------------------
(* Within the toolchain as by itself, the compiler takes its own steps.    *)
LEMMA ToolchainCompiles == Spec => CompilerSpec
<1>1. ToolInit => Init
  BY DEF ToolInit
<1>2. [ToolNext]_toolchain => [Compile]_compiler
  BY DEF ToolNext, Compiling, HandOver, Executing, toolchain
<1> QED BY <1>1, <1>2, PTL DEF Spec, CompilerSpec

LEMMA CompilerInvariant == CompilerSpec => []BfcInv
<1> QED BY BfcInit, BfcStep, PTL DEF CompilerSpec

LEMMA SourceInvariant == CompilerSpec => []SourceInv
<1> QED BY SourceInit, SourceStep, PTL DEF CompilerSpec

(* The buffers keep their types, and while the process is alive the        *)
(* lengths of code and stack are what has been written into them: no       *)
(* length wraps unnoticed, whatever realloc() does.                        *)
THEOREM BfcTypeOK == Spec => []TypeOK
<1>1. BfcInv => TypeOK
  BY DEF BfcInv
<1> QED BY <1>1, ToolchainCompiles, CompilerInvariant, PTL

(* What is on the stack of bfc are the branches without a target, all of   *)
(* them and in order, for every program and every failure of realloc():    *)
(* a ']' patches the innermost open loop and nothing else.                 *)
THEOREM BfcOpenLoopsOnStack == Spec => []OpenLoopsOnStack
<1>1. BfcInv => OpenLoopsOnStack
  <2> SUFFICES ASSUME BfcInv, status \in {"compiling", "ending"}
               PROVE  /\ \A l \in 1..Len(loops) :
                           /\ OpenBranch((loops[l].beq \div 4) + 1)
                           /\ loops[l].beq % 4 = 0 /\ loops[l].check = loops[l].beq - 4
                           /\ l > 1 => loops[l - 1].beq < loops[l].beq
                      /\ \A i \in 1..Len(code) :
                           OpenBranch(i) => \E l \in 1..Len(loops) : loops[l].beq = 4 * (i - 1)
    BY DEF OpenLoopsOnStack
  <2>1. LoopsOpen /\ LoopsOrdered /\ OpenKnown /\ Len(loops) \in Nat
    BY Before
  <2>2. \A l \in 1..Len(loops) : l > 1 => loops[l - 1].beq < loops[l].beq
    <3> SUFFICES ASSUME NEW l \in 1..Len(loops), l > 1
                 PROVE  loops[l - 1].beq < loops[l].beq
      OBVIOUS
    <3>1. l - 1 \in 1..Len(loops) /\ l - 1 < l
      BY <2>1
    <3> QED BY <3>1, <2>1 DEF LoopsOrdered
  <2>3. \A l \in 1..Len(loops) :
          /\ OpenBranch((loops[l].beq \div 4) + 1)
          /\ loops[l].beq % 4 = 0 /\ loops[l].check = loops[l].beq - 4
    BY <2>1 DEF LoopsOpen, Place
  <2>4. \A i \in 1..Len(code) :
          OpenBranch(i) => \E l \in 1..Len(loops) : loops[l].beq = 4 * (i - 1)
    BY <2>1 DEF OpenKnown
  <2> QED BY <2>2, <2>3, <2>4
<1> QED BY <1>1, ToolchainCompiles, CompilerInvariant, PTL

(* The code of a program that has been compiled is its translation,        *)
(* command by command, for every program and every nesting of its loops:   *)
(* each branch and each jump spans the loop of its brackets.               *)
THEOREM BfcCodeFollowsSource == Spec => []CodeFollowsSource
<1>1. SourceInv => CodeFollowsSource
  <2> SUFFICES ASSUME SourceInv, status = "done" PROVE CodeFollowsSource
    BY DEF CodeFollowsSource
  <2>1. /\ read \in 0..Len(source) /\ source \in Seq(Chars) /\ code \in Seq(Insn)
    BY SourcesAssumption DEF SourceInv, BfcInv, TypeOK
  <2>2. AtEnd /\ todo = <<>> /\ Len(Text) = CodeEnd[read] + 3
    BY DEF SourceInv, TextInv, Alive
  <2>3. Text = code
    BY <2>1, <2>2 DEF Text
  <2>4. read = Len(source) \/ source[read + 1] = "xFF"
    BY <2>1, <2>2 DEF AtEnd
  <2> QED BY <2>2, <2>3, <2>4, TextIsTranslation DEF CodeFollowsSource
<1> QED BY <1>1, ToolchainCompiles, SourceInvariant, PTL

(* The compiler leaves its buffers only with more code than half of what a *)
(* u32 can count, or at a ']' that no '[' before it belongs to; the stack, *)
(* which grows with the code, is never the first to do so.                 *)
THEOREM BfcWildOnlyIf == Spec => []WildOnlyIf
<1>1. SourceInv => WildOnlyIf
  <2> SUFFICES ASSUME SourceInv, status = "wild", ~(4 * Len(code) > O!Half)
               PROVE  \E j \in 1..Len(source) : /\ j = read + 1 /\ source[j] = "]"
                                                /\ \A i \in 1..j : ~Matches(i, j)
    BY DEF WildOnlyIf
  <2>1. loops = <<>> /\ ~AtEnd /\ Char = "]"
    BY DEF SourceInv, BfcInv, WildInv
  <2>2. source \in Seq(Chars) /\ Len(source) \in Nat /\ read \in 0..Len(source)
    BY SourcesAssumption DEF SourceInv, BfcInv, TypeOK
  <2>3. read + 1 \in 1..Len(source) /\ (read + 1) - 1 = read
    BY <2>1, <2>2 DEF AtEnd
  <2>4. ASSUME NEW i \in 1..(read + 1), Matches(i, read + 1) PROVE FALSE
    <3>1. i < read + 1 /\ source[i] = "["
      BY <2>4 DEF Matches
    <3>2. i \in 1..read /\ i \in 1..Len(source)
      BY <3>1, <2>2
    <3>3. \A n \in i..read : Level[n] > Level[i - 1]
      BY <3>2, <2>2, <2>3, <2>4, MatchesProperties
    <3>4. Level[i - 1] \in 0..(Len(loops) - 1)
      BY <3>1, <3>2, <3>3 DEF SourceInv, SourceLoops, OpenSince
    <3> QED BY <3>4, <2>1
  <2> QED BY <2>1, <2>3, <2>4 DEF Char
<1> QED BY <1>1, ToolchainCompiles, SourceInvariant, PTL

-----------------------------------------------------------------------------
(* Every kind of instruction that is emitted decodes as it is meant.       *)
LEMMA DecodesI ==
  ASSUME NEW insn \in Insn, insn.op \in {"addi", "lbu"}, Short(insn.imm)
  PROVE  Decodes(insn)
<1>0. PICK d \in 0..31, a \in 0..31, imm \in Int :
        d = insn.rd /\ a = insn.rs1 /\ imm = insn.imm
  BY DEF Insn
<1>1. PICK op \in 0..127, f3 \in 0..7 : op = (IF insn.op = "addi" THEN op_imm ELSE op_load)
                                        /\ f3 = (IF insn.op = "addi" THEN 0 ELSE 4)
  BY DEF op_imm, op_load
<1>2. PICK raw : raw = Encode(insn)
  OBVIOUS
<1>3. raw = Framed(op, f3, a, Put(d, 5, 7) \union Put(imm, 12, 20))
  BY <1>0, <1>1, <1>2 DEF Encode, Fields, Framed
<1>4. Short(imm)
  BY <1>0
<1>5. IFormat(raw, op, f3, a, d, imm)
  BY ONLY <1>3, <1>4, FormatI, op \in 0..127, f3 \in 0..7, a \in 0..31, d \in 0..31, imm \in Int
<1> QED BY <1>0, <1>1, <1>2, <1>5 DEF IFormat, Decodes

LEMMA DecodesLui ==
  ASSUME NEW insn \in Insn, insn.op = "lui", insn.imm = 0
  PROVE  Decodes(insn)
<1>1. PICK d \in 0..31, op \in 0..127 : d = insn.rd /\ op = op_lui
  BY DEF Insn, op_lui
<1>2. PICK raw : raw = Encode(insn)
  OBVIOUS
<1>3. raw = FromNat(op) \union Put(d, 5, 7)
  BY <1>1, <1>2, PutZero DEF Encode
<1>4. Opcode(raw) = op /\ Rd(raw) = d /\ read_upper_immediate(raw) = {}
  BY <1>3, FormatU
<1> QED BY <1>1, <1>2, <1>4, FromNatZero DEF Decodes, Shl

LEMMA NoImmediate == FromNat(0 % 2^12) \union SignFill(0 < 0, 12) = {}
<1>1. 0 % 2^12 = 0
  <2>1. 2^12 = 4096
    OBVIOUS
  <2> QED BY <2>1
<1>2. SignFill(0 < 0, 12) = {}
  BY DEF SignFill
<1> QED BY <1>1, <1>2, FromNatZero

LEMMA DecodesSb ==
  ASSUME NEW insn \in Insn, insn.op = "sb", insn.imm = 0
  PROVE  Decodes(insn)
<1>1. PICK a \in 0..31, b \in 0..31, op \in 0..127, f3 \in 0..7 :
        a = insn.rs1 /\ b = insn.rs2 /\ op = op_store /\ f3 = 0
  BY DEF Insn, op_store
<1>2. PICK raw : raw = Encode(insn)
  OBVIOUS
<1>3. raw = Framed(op, f3, a, Put(b, 5, 20) \union {})
  <2>1. 0 \div 32 = 0
    OBVIOUS
  <2>2. Put(insn.imm, 5, 25) = {} /\ Put(insn.imm \div 32, 5, 7) = {}
    BY <2>1, PutZero
  <2>3. Encode(insn) = Fields(op, f3, insn) \union Put(b, 5, 20) \union {} \union {}
    BY <1>1, <2>2 DEF Encode
  <2> QED BY <1>1, <1>2, <2>3 DEF Fields, Framed
<1>4. SFormat(raw, op, f3, a, b, {})
  <2>1. {} \in Words /\ \A i \in Bits : i \in {} => Around(i)
    BY DEF Words
  <2> QED BY <1>3, <2>1, FormatS
<1>5. read_s_immediate(raw) = {}
  <2>1. \A i \in Bits : (7 <= i /\ i <= 11) \/ 25 <= i => i \notin raw
    BY <1>4 DEF SFormat, Around
  <2>2. raw \cap (7..11) = {} /\ raw \cap (25..30) = {} /\ 31 \notin raw
    BY <2>1 DEF Bits
  <2>3. Field(raw, 11, 7) = {} /\ Field(raw, 30, 25) = {}
    BY <2>2 DEF Field, Shr
  <2> QED BY <2>2, <2>3 DEF read_s_immediate, Shl, SignFill
<1> QED BY <1>1, <1>2, <1>4, <1>5, NoImmediate DEF SFormat, Decodes

LEMMA DecodesOr ==
  ASSUME NEW insn \in Insn, insn.op = "or"
  PROVE  Decodes(insn)
<1>1. PICK d \in 0..31, a \in 0..31, b \in 0..31, op \in 0..127, f3 \in 0..7 :
        d = insn.rd /\ a = insn.rs1 /\ b = insn.rs2 /\ op = op_op /\ f3 = 6
  <2>1. insn.rd \in 0..31 /\ insn.rs1 \in 0..31 /\ insn.rs2 \in 0..31
    BY DEF Insn
  <2>2. op_op \in 0..127 /\ 6 \in 0..7
    BY DEF op_op
  <2> QED BY ONLY <2>1, <2>2
<1>2. PICK raw : raw = Encode(insn)
  OBVIOUS
<1>3. PICK p : p = Put(d, 5, 7)
  OBVIOUS
<1>4. raw = Framed(op, f3, a, Put(b, 5, 20) \union p)
  BY <1>1, <1>2, <1>3 DEF Encode, Fields, Framed
<1>5. /\ p \in Words /\ Shows(p, d, 5, 7)
      /\ \A i \in Bits : i \in p => 7 <= i /\ i < 7 + 5
  <2>1. 5 \in 1..30 /\ 7 \in 0..31 /\ d \in Int
    OBVIOUS
  <2> QED BY <1>3, <2>1, PutBits
<1>6. \A i \in Bits : i \in Int
  BY DEF Bits
<1>7. SFormat(raw, op, f3, a, b, p)
  <2>1. \A i \in Bits : i \in p => Around(i)
    BY <1>5, <1>6 DEF Around
  <2> QED BY <1>4, <1>5, <2>1, FormatS
<1>8. Rd(raw) = d
  <2>1. \A i \in Bits : 7 <= i /\ i < 7 + 5 => (i \in raw <=> i \in p)
    BY <1>6, <1>7 DEF SFormat, Around
  <2>2. Shows(raw, d, 5, 7)
    BY <1>5, <2>1 DEF Shows
  <2> QED BY <1>7, <2>2, RegisterField DEF SFormat, Rd
<1>9. Funct7(raw) = 0
  <2>1. \A i \in Bits : 25 <= i => i \notin raw
    BY <1>5, <1>6, <1>7 DEF SFormat, Around
  <2>2. raw \cap (25..31) = {}
    BY <2>1 DEF Bits
  <2>3. Field(raw, 31, 25) = {}
    BY <2>2 DEF Field, Shr
  <2> QED BY <2>3, ValueEmpty DEF Funct7
<1> QED BY <1>1, <1>2, <1>7, <1>8, <1>9 DEF SFormat, Decodes

LEMMA DecodesOthers ==
  ASSUME NEW insn \in Insn, insn.op \in {"ecall", "jal"}
  PROVE  Decodes(insn)
BY DEF Decodes, Encode

LEMMA DecodesBeq ==
  ASSUME NEW insn \in Insn, insn.op = "beq", Aligned4(insn.imm)
  PROVE  Decodes(insn)
<1>1. PICK a \in 0..31, b \in 0..31, op \in 0..127, f3 \in 0..7, imm \in Int :
        a = insn.rs1 /\ b = insn.rs2 /\ op = op_branch /\ f3 = 0 /\ imm = insn.imm
  <2>1. insn.rs1 \in 0..31 /\ insn.rs2 \in 0..31 /\ insn.imm \in Int
    BY DEF Insn
  <2>2. op_branch \in 0..127 /\ 0 \in 0..7
    BY DEF op_branch
  <2> QED BY ONLY <2>1, <2>2
<1>2. PICK raw : raw = Encode(insn)
  OBVIOUS
<1>3. raw = Framed(op, f3, a, Put(b, 5, 20) \union BranchFields(imm))
  BY <1>1, <1>2 DEF Encode, Fields, Framed, BranchFields
<1>4. SFormat(raw, op, f3, a, b, BranchFields(imm))
  <2>1. PICK rest : rest = BranchFields(imm)
    OBVIOUS
  <2>2. rest \in Words /\ \A i \in Bits : i \in rest => Around(i)
    BY <2>1, BranchBits
  <2> QED BY <1>3, <2>1, <2>2, FormatS
<1>5. imm \in 0..4095 => read_b_immediate(raw) = FromNat(imm)
  <2> SUFFICES ASSUME imm \in 0..4095 PROVE read_b_immediate(raw) = FromNat(imm)
    OBVIOUS
  <2>1. \A n \in Nat : n % 4 = 0 => n % 2 = 0
    OBVIOUS
  <2>2. imm \in Nat /\ imm < 4096
    OBVIOUS
  <2>3. imm % 4 = 0
    <3>1. Aligned4(imm)
      BY <1>1
    <3> QED BY <3>1 DEF Aligned4
  <2> QED BY <1>4, <2>1, <2>2, <2>3, ReadsBranch DEF SFormat
<1> QED BY <1>1, <1>2, <1>4, <1>5 DEF SFormat, Decodes

(* What bfc emits.                                                         *)
Decoded == {insn \in Insn : Decodes(insn)}

LEMMA EmittedDecode ==
  /\ load_cell \in Decoded /\ store_cell \in Decoded
  /\ asm_empty_beq(rv_t0, rv_zero) \in Decoded
  /\ Prologue \in Seq(Decoded) /\ Epilogue \in Seq(Decoded)
  /\ \A c \in Chars \ {"[", "]", "xFF"} : Straight(c) \in Seq(Decoded)
<1>1. ASSUME NEW d \in 0..31, NEW a \in 0..31, NEW n \in Int, Short(n)
      PROVE  asm_addi(d, a, n) \in Decoded
  <2> DEFINE insn == asm_addi(d, a, n)
  <2>1. insn \in Insn /\ insn.op \in {"addi", "lbu"} /\ insn.imm = n
    BY DEF asm_addi, Insn
  <2> HIDE DEF insn
  <2>2. Decodes(insn)
    BY <1>1, <2>1, DecodesI
  <2> QED BY <2>1, <2>2 DEF Decoded, insn
<1>2. /\ \A n \in {0, 1, -1, 63, 64, 93} : n \in Int /\ Short(n)
      /\ rv_zero \in Int
  BY DEF Short, rv_zero
<1>3. load_cell \in Decoded
  <2> DEFINE insn == load_cell
  <2>1. insn \in Insn /\ insn.op \in {"addi", "lbu"} /\ insn.imm = 0
    BY RegisterTypes DEF load_cell, asm_lbu, Insn
  <2> HIDE DEF insn
  <2>2. Decodes(insn)
    BY <1>2, <2>1, DecodesI
  <2> QED BY <2>1, <2>2 DEF Decoded, insn
<1>4. store_cell \in Decoded
  <2> DEFINE insn == store_cell
  <2>1. insn \in Insn /\ insn.op = "sb" /\ insn.imm = 0
    BY RegisterTypes DEF store_cell, asm_sb, Insn
  <2> HIDE DEF insn
  <2>2. Decodes(insn)
    BY <2>1, DecodesSb
  <2> QED BY <2>1, <2>2 DEF Decoded, insn
<1>5. asm_empty_beq(rv_t0, rv_zero) \in Decoded
  <2> DEFINE insn == asm_empty_beq(rv_t0, rv_zero)
  <2>1. insn \in Insn /\ insn.op = "beq" /\ insn.imm = Unset
    BY RegisterTypes, BranchType
  <2>2. Aligned4(Unset)
    BY DEF Unset, Aligned4
  <2> HIDE DEF insn
  <2>3. Decodes(insn)
    BY <2>1, <2>2, DecodesBeq
  <2> QED BY <2>1, <2>3 DEF Decoded, insn
<1>6. asm_lui(rv_s1, rv_zero) \in Decoded
  <2> DEFINE insn == asm_lui(rv_s1, rv_zero)
  <2>1. insn \in Insn /\ insn.op = "lui" /\ insn.imm = 0
    BY DEF asm_lui, Insn, rv_s1, rv_zero
  <2> HIDE DEF insn
  <2>2. Decodes(insn)
    BY <2>1, DecodesLui
  <2> QED BY <2>1, <2>2 DEF Decoded, insn
<1>7. asm_or(rv_a0, rv_zero, rv_s1) \in Decoded
  <2> DEFINE insn == asm_or(rv_a0, rv_zero, rv_s1)
  <2>1. insn \in Insn /\ insn.op = "or"
    BY DEF asm_or, Insn, rv_s1, rv_zero, rv_a0
  <2> HIDE DEF insn
  <2>2. Decodes(insn)
    BY <2>1, DecodesOr
  <2> QED BY <2>1, <2>2 DEF Decoded, insn
<1>8. asm_ecall \in Decoded
  <2> DEFINE insn == asm_ecall
  <2>1. insn \in Insn /\ insn.op \in {"ecall", "jal"}
    BY DEF asm_ecall, Insn
  <2> HIDE DEF insn
  <2>2. Decodes(insn)
    BY <2>1, DecodesOthers
  <2> QED BY <2>1, <2>2 DEF Decoded, insn
<1>9. \A d, a \in 0..31 : \A n \in {0, 1, -1, 63, 64, 93} : asm_addi(d, a, n) \in Decoded
  BY <1>1, <1>2
<1>10. /\ \A n \in {0, 1, -1, 63, 64, 93} : asm_addi(rv_a7, rv_zero, n) \in Decoded
       /\ \A n \in {0, 1, -1, 63, 64, 93} : asm_addi(rv_a0, rv_zero, n) \in Decoded
       /\ \A n \in {0, 1, -1, 63, 64, 93} : asm_addi(rv_a2, rv_zero, n) \in Decoded
       /\ \A n \in {0, 1, -1, 63, 64, 93} : asm_addi(rv_s1, rv_zero, n) \in Decoded
       /\ \A n \in {0, 1, -1, 63, 64, 93} : asm_addi(rv_s1, rv_s1, n) \in Decoded
       /\ \A n \in {0, 1, -1, 63, 64, 93} : asm_addi(rv_t0, rv_t0, n) \in Decoded
  BY <1>9, RegisterTypes
<1>11. Prologue \in Seq(Decoded)
  BY <1>6, <1>10 DEF Prologue
<1>12. Epilogue \in Seq(Decoded)
  BY <1>8, <1>10 DEF Epilogue
<1>13. Call(63) \in Seq(Decoded) /\ Call(64) \in Seq(Decoded)
  BY <1>7, <1>8, <1>10 DEF Call
<1>14. ASSUME NEW c \in Chars \ {"[", "]", "xFF"}
       PROVE  Straight(c) \in Seq(Decoded)
  <2>1. CASE c = "+"
    BY <2>1, <1>3, <1>4, <1>10 DEF Straight
  <2>2. CASE c = "-"
    BY <2>2, <1>3, <1>4, <1>10 DEF Straight
  <2>3. CASE c = "." \/ c = ","
    <3>1. c = "." => Straight(c) = Call(64)
      BY DEF Straight
    <3>2. c = "," => Straight(c) = Call(63)
      BY DEF Straight
    <3> QED BY <1>13, <2>3, <3>1, <3>2
  <2>4. CASE c = ">"
    BY <2>4, <1>10 DEF Straight
  <2>5. CASE c = "<"
    BY <2>5, <1>10 DEF Straight
  <2>6. CASE c = "comment"
    BY <2>6, EmptySeq DEF Straight
  <2> QED BY <2>1, <2>2, <2>3, <2>4, <2>5, <2>6 DEF Chars
<1> QED BY <1>3, <1>4, <1>5, <1>11, <1>12, <1>14

-----------------------------------------------------------------------------
DecodedInv == BfcInv /\ (Alive => code \in Seq(Decoded) /\ todo \in Seq(Decoded))

(* A distance that a ']' patches in is one between instructions.           *)
LEMMA DistanceAligned ==
  ASSUME BfcInv, CloseLoop, Alive'
  PROVE  Aligned4(Distance(TopLoop, insns'.len))
<1>1. status = "compiling" /\ loops # <<>>
  BY DEF CloseLoop, Reading
<1>2. Len(code) \in Nat /\ loops \in Seq(LoopInfo) /\ Len(loops) \in Nat /\ LoopsOpen
  BY <1>1, Before
<1>3. Len(loops) \in 1..Len(loops)
  BY <1>1, <1>2, EmptySeq
<1>4. TopLoop.check \in Int /\ TopLoop.check % 4 = 0
  <2>1. TopLoop.beq % 4 = 0 /\ TopLoop.check = TopLoop.beq - 4
    BY <1>2, <1>3 DEF LoopsOpen, TopLoop
  <2>2. TopLoop.beq \in Nat
    BY <1>2, <1>3, PlaceProperties DEF TopLoop
  <2>3. \A n \in Nat : n % 4 = 0 => (n - 4) % 4 = 0
    OBVIOUS
  <2> QED BY <2>1, <2>2, <2>3
<1>5. insns'.len \in Int /\ insns'.len % 4 = 0
  <2>1. insns'.len = 4 * Len(code') /\ Len(code') \in Nat
    <3>1. TypeOK'
      BY CloseLoopStep DEF BfcInv
    <3> QED BY <3>1 DEF TypeOK
  <2>2. \A n \in Nat : 4 * n \in Int /\ (4 * n) % 4 = 0
    OBVIOUS
  <2> QED BY <2>1, <2>2
<1>6. \A m, n \in Int : m % 4 = 0 /\ n % 4 = 0
                          => (((m - n + 2^15) % 2^16) - 2^15) % 4 = 0
  OBVIOUS
<1> QED BY <1>4, <1>5, <1>6 DEF Distance, i16, Aligned4

LEMMA CloseLoopDecodes ==
  ASSUME DecodedInv, CloseLoop, Alive'
  PROVE  code' \in Seq(Decoded)
<1> DEFINE dist == Distance(TopLoop, insns'.len)
           q == (TopLoop.beq \div 4) + 1
           L == Len(loops)
<1>1. status = "compiling" /\ loops # <<>> /\ BfcInv
  BY DEF CloseLoop, Reading, DecodedInv
<1>2. /\ Len(code) \in Nat /\ loops \in Seq(LoopInfo) /\ Len(loops) \in Nat /\ LoopsOpen
      /\ insns \in O!Buffer
  BY <1>1, Before
<1>3. L \in 1..L
  BY <1>1, <1>2, EmptySeq
<1>4. code \in Seq(Decoded)
  BY <1>1 DEF DecodedInv, Alive
<1>5. q \in 1..Len(code) /\ code[q].op = "beq"
  BY <1>2, <1>3 DEF LoopsOpen, OpenBranch, Place, TopLoop
<1>6. dist \in Int /\ -dist \in Int
  <2>1. TopLoop.check \in Int
    BY <1>1, <1>2, <1>3, PlaceProperties DEF TopLoop
  <2>2. insns'.len \in Int
    <3>1. TypeOK'
      BY <1>1, CloseLoopStep DEF BfcInv
    <3> QED BY <3>1 DEF TypeOK
  <2> QED BY <2>1, <2>2, DistanceProperties
<1>7. Aligned4(dist)
  BY <1>1, DistanceAligned
<1>8. code' = Append([code EXCEPT ![q].imm = dist], asm_jal(rv_zero, -dist))
  BY DEF CloseLoop
<1> HIDE DEF dist, q
<1>9. PICK jump : jump = asm_jal(rv_zero, -dist)
  OBVIOUS
<1>10. jump \in Decoded
  <2>1. jump \in Insn /\ jump.op \in {"ecall", "jal"}
    BY <1>6, <1>9, RegisterTypes DEF asm_jal, Insn
  <2> QED BY <2>1, DecodesOthers DEF Decoded
<1>11. PICK branch : branch = [code[q] EXCEPT !.imm = dist]
  OBVIOUS
<1>12. branch \in Decoded
  <2>1. code[q] \in Insn
    BY <1>4, <1>5 DEF Decoded
  <2>2. branch \in Insn /\ branch.op = "beq" /\ branch.imm = dist
    BY <1>5, <1>6, <1>11, <2>1 DEF Insn
  <2>3. Decodes(branch)
    BY <1>7, <2>2, DecodesBeq
  <2> QED BY <2>2, <2>3 DEF Decoded
<1>13. [code EXCEPT ![q].imm = dist] = [code EXCEPT ![q] = branch]
  BY <1>11
<1>14. [code EXCEPT ![q] = branch] \in Seq(Decoded)
  BY <1>4, <1>5, <1>12
<1> QED BY <1>8, <1>9, <1>10, <1>13, <1>14

LEMMA DecodedStep == DecodedInv /\ [Compile]_compiler => DecodedInv'
<1> SUFFICES ASSUME DecodedInv, [Compile]_compiler PROVE DecodedInv'
  OBVIOUS
<1>1. BfcInv'
  BY BfcStep DEF DecodedInv
<1> SUFFICES ASSUME Alive' PROVE code' \in Seq(Decoded) /\ todo' \in Seq(Decoded)
  BY <1>1 DEF DecodedInv
<1>2. CASE EmitInsn
  <2>1. /\ code' = Append(code, Head(todo)) /\ todo' = Tail(todo) /\ todo # <<>>
        /\ code \in Seq(Decoded) /\ todo \in Seq(Decoded)
    BY <1>2 DEF EmitInsn, DecodedInv, Alive
  <2>2. Head(todo) \in Decoded /\ Tail(todo) \in Seq(Decoded)
    BY <2>1
  <2> QED BY <2>1, <2>2
<1>3. CASE ReadStraight
  <2>1. /\ code' = code /\ todo' = Straight(Char) /\ code \in Seq(Decoded)
        /\ status = "compiling" /\ ~AtEnd /\ Char \notin {"[", "]"}
    BY <1>3 DEF ReadStraight, Reading, DecodedInv, Alive
  <2>2. /\ source \in Seq(Chars) /\ Len(source) \in Nat /\ read \in 0..Len(source)
    BY <2>1, Before DEF DecodedInv
  <2>3. Char \in Chars \ {"[", "]", "xFF"}
    BY <2>1, <2>2 DEF AtEnd, Char
  <2> QED BY <2>1, <2>3, EmittedDecode
<1>4. CASE OpenLoop
  <2>1. /\ code' = code \o <<load_cell, asm_empty_beq(rv_t0, rv_zero)>> /\ todo' = todo
        /\ code \in Seq(Decoded) /\ todo \in Seq(Decoded)
    BY <1>4 DEF OpenLoop, Reading, DecodedInv, Alive
  <2>2. <<load_cell, asm_empty_beq(rv_t0, rv_zero)>> \in Seq(Decoded)
    BY EmittedDecode
  <2> QED BY <2>1, <2>2
<1>5. CASE CloseLoop
  <2>1. todo' = todo /\ todo \in Seq(Decoded)
    BY <1>5 DEF CloseLoop, Reading, DecodedInv, Alive
  <2> QED BY <1>5, <2>1, CloseLoopDecodes
<1>6. CASE CloseNothing
  BY <1>6 DEF CloseNothing, Alive
<1>7. CASE EndOfInput
  BY <1>7, EmittedDecode DEF EndOfInput, Reading, DecodedInv, Alive
<1>8. CASE Finish
  BY <1>8 DEF Finish, DecodedInv, Alive
<1>9. CASE UNCHANGED compiler
  BY <1>9 DEF compiler, DecodedInv, Alive
<1> QED BY <1>2, <1>3, <1>4, <1>5, <1>6, <1>7, <1>8, <1>9 DEF Compile

LEMMA DecodedInit == Init => DecodedInv
<1> SUFFICES ASSUME Init PROVE DecodedInv
  OBVIOUS
<1>1. code = <<>> /\ todo = Prologue
  BY DEF Init
<1>2. code \in Seq(Decoded)
  BY <1>1, EmptySeq
<1> QED BY <1>1, <1>2, BfcInit, EmittedDecode DEF DecodedInv

(* What the emulator decodes of each word that bfc has written is the      *)
(* instruction bfc meant, registers and immediates included, whatever the  *)
(* program and wherever its branches have been patched to: the encoders of *)
(* bfc.c and the decoders of rv/ agree.                                    *)
THEOREM BfcDecodesAsMeant == Spec => []DecodesAsMeant
<1>1. DecodedInv => DecodesAsMeant
  BY DEF DecodedInv, DecodesAsMeant, Alive, Decoded
<1>2. CompilerSpec => []DecodedInv
  BY DecodedInit, DecodedStep, PTL DEF CompilerSpec
<1> QED BY <1>1, <1>2, ToolchainCompiles, PTL
=============================================================================
