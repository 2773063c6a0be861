-------------------------- MODULE InterpretProofs --------------------------
(***************************************************************************)
(* Proofs about Interpret, for every image, every program and both kinds   *)
(* of build.  That a read-only word stays intact needs no strengthening:   *)
(* the one action that writes memory is Store, and prot never changes.     *)
(*                                                                         *)
(* That the interpreter implements Rv32i goes action by action: the        *)
(* instruction that the machine fetches has the fields and the immediates  *)
(* of the word the interpreter fetched (FetchedWord, SameFields,           *)
(* RvImmediates); what an operation does to bits the instruction set does  *)
(* to numbers (PlusAdds, BitwiseIs, ShiftRightIs, MemoryAfter, ..., from   *)
(* RvInsnProofs); hence a register, the pc or a byte gets the number that  *)
(* Effect says (SetIs, GoIs, StoreIs), or the machine may refuse.          *)
(***************************************************************************)
EXTENDS InterpretIsa, RvInsnProofs, TLAPS

LEMMA TypeInit == Init => TypeOK
BY StartsAssumption DEF Init, TypeOK, Words, ZeroW

(* A register reads as a word, and writing a word keeps them words.        *)
LEMMA ReadWord == TypeOK => \A i : Read(i) \in Words
BY DEF TypeOK, Read, ZeroW, Words

LEMMA WriteWord ==
  ASSUME TypeOK, NEW i, NEW value \in Words, Write(i, value)
  PROVE  registers' \in [Registers -> Words]
BY DEF TypeOK, Write

LEMMA NextPcWord == TypeOK => NextPc \in Words
<1>1. {2} \in Words
  BY DEF Words, Bits
<1> QED BY <1>1, WordOperations DEF NextPc, TypeOK

(* The ways an iteration may end other than by completing an instruction.  *)
LEMMA Stops ==
  ASSUME TypeOK, NEW how \in {"aborted", "trapped", "segv", "wild"}, Stop(how)
  PROVE  TypeOK' /\ mem' = mem
BY DEF Stop, TypeOK

LEMMA NotImplementedStep == TypeOK /\ NotImplemented => TypeOK' /\ mem' = mem
<1> SUFFICES ASSUME TypeOK, NotImplemented PROVE TypeOK' /\ mem' = mem
  OBVIOUS
<1>1. CASE NDEBUG
  BY <1>1, NextPcWord DEF NotImplemented, TypeOK
<1>2. CASE ~NDEBUG
  BY <1>2, Stops DEF NotImplemented
<1> QED BY <1>1, <1>2

(* An instruction that writes a register, with the word it writes.         *)
LEMMA RegisterStep ==
  ASSUME TypeOK, NEW i, NEW value \in Words, NEW target \in Words,
         Write(i, value), Continue(target), UNCHANGED mem
  PROVE  TypeOK' /\ mem' = mem
BY WriteWord DEF Continue, TypeOK

(* An instruction that writes none.                                        *)
LEMMA JumpStep ==
  ASSUME TypeOK, NEW target \in Words, Continue(target),
         UNCHANGED <<registers, mem>>
  PROVE  TypeOK' /\ mem' = mem
BY DEF Continue, TypeOK

LEMMA ImmResultWord == TypeOK => ImmResult \in Words
<1> SUFFICES ASSUME TypeOK PROVE ImmResult \in Words
  OBVIOUS
<1> DEFINE x == Read(Rs1(raw))
           imm == read_i_immediate(raw)
<1>1. x \in Words /\ imm \in Words
  BY ReadWord, Immediates
<1>2. /\ Add(x, imm) \in Words /\ Xor(x, imm) \in Words
      /\ x \union imm \in Words /\ x \cap imm \in Words
  BY <1>1, WordOperations
<1>3. Shl(x, read_shift_immediate(raw)) \in Words
  BY Shifted
<1>4. Bool(SLess(x, imm)) \in Words /\ Bool(ULess(x, imm)) \in Words
  BY Shifted
<1>5. ShiftRight(x) \in Words
  <2>1. \A a, b \in Words : a \union b \in Words
    BY DEF Words
  <2> QED BY <2>1, Shifted DEF ShiftRight
<1> HIDE DEF x, imm
<1>6. ImmResult \in {Add(x, imm), Shl(x, read_shift_immediate(raw)),
                     Bool(SLess(x, imm)), Bool(ULess(x, imm)), Xor(x, imm),
                     ShiftRight(x), x \union imm, x \cap imm}
  BY DEF ImmResult, x, imm
<1> QED BY <1>2, <1>3, <1>4, <1>5, <1>6

-----------------------------------------------------------------------------
(* Every instruction but a store: TypeOK is kept, memory is not touched.   *)
LEMMA ComputeSteps ==
  TypeOK /\ (Jalr \/ Jal \/ Lui \/ Auipc \/ OpImm) => TypeOK' /\ mem' = mem
<1> SUFFICES ASSUME TypeOK, Jalr \/ Jal \/ Lui \/ Auipc \/ OpImm
             PROVE  TypeOK' /\ mem' = mem
  OBVIOUS
<1>1. pc \in Words /\ NextPc \in Words
  BY NextPcWord DEF TypeOK
<1>2. CASE Jalr
  <2>1. Add(read_i_immediate(raw), Read(Rs1(raw))) \ {0} \in Words
    <3>1. Add(read_i_immediate(raw), Read(Rs1(raw))) \in Words
      BY Immediates, ReadWord, WordOperations
    <3> QED BY <3>1 DEF Words
  <2> QED BY <1>1, <1>2, <2>1, RegisterStep DEF Jalr
<1>3. CASE Jal
  <2>1. Add(pc, read_j_immediate(raw)) \in Words
    BY <1>1, Immediates, WordOperations
  <2> QED BY <1>1, <1>3, <2>1, RegisterStep DEF Jal
<1>4. CASE Lui
  BY <1>1, <1>4, Immediates, RegisterStep DEF Lui
<1>5. CASE Auipc
  <2>1. Add(pc, read_upper_immediate(raw)) \in Words
    BY <1>1, Immediates, WordOperations
  <2> QED BY <1>1, <1>5, <2>1, RegisterStep DEF Auipc
<1>6. CASE OpImm
  BY <1>1, <1>6, ImmResultWord, RegisterStep DEF OpImm
<1> QED BY <1>2, <1>3, <1>4, <1>5, <1>6

LEMMA RefusedStep ==
  ASSUME TypeOK, NEW addr, Refused(addr)
  PROVE  TypeOK' /\ mem' = mem
BY Stops DEF Refused

LEMMA LoadStep == TypeOK /\ Load => TypeOK' /\ mem' = mem
<1> SUFFICES ASSUME TypeOK, Load PROVE TypeOK' /\ mem' = mem
  OBVIOUS
<1> DEFINE addr == Add(Read(Rs1(raw)), sext32_imm12(Imm_11_0(raw)))
           byte == Field(mem[WordOf(addr)], 8 * ByteOf(addr) + 7, 8 * ByteOf(addr))
<1>1. byte \in Words /\ NextPc \in Words
  BY Shifted, NextPcWord
<1> HIDE DEF addr, byte
<1>2. \/ Write(Rd(raw), byte) /\ Continue(NextPc) /\ UNCHANGED mem
      \/ Refused(addr)
      \/ NotImplemented
      \/ Continue(NextPc) /\ UNCHANGED <<registers, mem>>
  BY DEF Load, addr, byte
<1> QED BY <1>1, <1>2, RegisterStep, RefusedStep, NotImplementedStep, JumpStep

LEMMA BranchStep == TypeOK /\ Branch => TypeOK' /\ mem' = mem
<1> SUFFICES ASSUME TypeOK, Branch PROVE TypeOK' /\ mem' = mem
  OBVIOUS
<1>1. NextPc \in Words /\ Add(pc, read_b_immediate(raw)) \in Words
  BY NextPcWord, Immediates, WordOperations DEF TypeOK
<1>2. \/ NotImplemented
      \/ Continue(Add(pc, read_b_immediate(raw))) /\ UNCHANGED <<registers, mem>>
      \/ Continue(NextPc) /\ UNCHANGED <<registers, mem>>
  BY DEF Branch
<1> QED BY <1>1, <1>2, NotImplementedStep, JumpStep

LEMMA OpOpStep == TypeOK /\ OpOp => TypeOK' /\ mem' = mem
<1> SUFFICES ASSUME TypeOK, OpOp PROVE TypeOK' /\ mem' = mem
  OBVIOUS
<1> DEFINE s1 == Read(Rs1(raw))
           s2 == Read(Rs2(raw))
           sum == Add(s1, IF Funct7(raw) = 32 THEN Neg(s2) ELSE s2)
<1>1. s1 \in Words /\ s2 \in Words /\ NextPc \in Words
  BY ReadWord, NextPcWord
<1>2. s1 \union s2 \in Words /\ sum \in Words
  BY <1>1, WordOperations
<1> HIDE DEF s1, s2, sum
<1>3. \/ Write(Rd(raw), s1 \union s2) /\ Continue(NextPc) /\ UNCHANGED mem
      \/ Write(Rd(raw), sum) /\ Continue(NextPc) /\ UNCHANGED mem
      \/ NotImplemented
  BY DEF OpOp, s1, s2, sum
<1> QED BY <1>1, <1>2, <1>3, RegisterStep, NotImplementedStep

(* What a store may do to memory: one word of a writable page.             *)
LEMMA StoreStep ==
  TypeOK /\ Store =>
    TypeOK' /\ \A w \in Image : mem'[w] # mem[w] => "W" \in prot[w \div PageWords]
<1> SUFFICES ASSUME TypeOK, Store
             PROVE  /\ TypeOK'
                    /\ \A w \in Image : mem'[w] # mem[w] =>
                                        "W" \in prot[w \div PageWords]
  OBVIOUS
<1> DEFINE imm == sext32_imm12(Field(raw, 11, 7) \union Shl(Field(raw, 31, 25), 5))
           addr == Add(imm, Read(Rs1(raw)))
           word == Read(Rs2(raw))
           at == 8 * ByteOf(addr)
           Stored == IF Funct3(raw) = 2 THEN word
                     ELSE (mem[WordOf(addr)] \ (at..(at + 7)))
                          \union Shl(Field(word, 7, 0), at)
<1>1. \/ /\ MayWrite(addr) /\ Continue(NextPc) /\ UNCHANGED registers
         /\ mem' = [mem EXCEPT ![WordOf(addr)] = Stored]
      \/ Stop("trapped")
      \/ Refused(addr)
      \/ NotImplemented
      \/ Continue(NextPc) /\ UNCHANGED <<registers, mem>>
  BY DEF Store
<1>2. CASE /\ MayWrite(addr) /\ Continue(NextPc) /\ UNCHANGED registers
           /\ mem' = [mem EXCEPT ![WordOf(addr)] = Stored]
  <2>1. \A w \in Image : w = WordOf(addr) => Stored \in Words
    <3> SUFFICES ASSUME WordOf(addr) \in Image PROVE Stored \in Words
      OBVIOUS
    <3>1. word \in Words /\ mem[WordOf(addr)] \in Words
      BY ReadWord DEF TypeOK
    <3>2. Shl(Field(word, 7, 0), at) \in Words
      BY Shifted
    <3> HIDE DEF word, addr, at
    <3> QED BY <3>1, <3>2 DEF Words
  <2> HIDE DEF addr, Stored
  <2>2. mem' \in [Image -> Words]
    BY <1>2, <2>1 DEF TypeOK
  <2>3. TypeOK'
    BY <1>2, <2>2, NextPcWord DEF TypeOK, Continue
  <2>4. \A w \in Image : mem'[w] # mem[w] => w = WordOf(addr)
    BY <1>2 DEF TypeOK
  <2> QED BY <1>2, <2>3, <2>4 DEF MayWrite, PageOf
<1> HIDE DEF addr, Stored
<1>3. CASE \/ Stop("trapped") \/ Refused(addr) \/ NotImplemented
           \/ Continue(NextPc) /\ UNCHANGED <<registers, mem>>
  BY <1>3, Stops, RefusedStep, NotImplementedStep, JumpStep, NextPcWord
<1> QED BY <1>1, <1>2, <1>3

(* The steps that execute nothing the interpreter knows.                   *)
LEMMA OtherSteps ==
  TypeOK /\ (Misaligned \/ FetchFault \/ DasmStops \/ IllegalZero \/ System
            \/ Unimplemented \/ Skip) => TypeOK' /\ mem' = mem
<1> SUFFICES ASSUME TypeOK,
                    Misaligned \/ FetchFault \/ DasmStops \/ IllegalZero
                    \/ System \/ Unimplemented \/ Skip
             PROVE  TypeOK' /\ mem' = mem
  OBVIOUS
<1>1. CASE Misaligned
  BY <1>1, Stops DEF Misaligned
<1>2. CASE FetchFault
  BY <1>2, RefusedStep DEF FetchFault
<1>3. CASE DasmStops
  <2>1. DasmOutcomes(raw, NDEBUG) \subseteq {"aborted", "segv", "returns"}
    BY DEF DasmOutcomes
  <2> QED BY <1>3, <2>1, Stops DEF DasmStops
<1>4. CASE IllegalZero
  BY <1>4, Stops DEF IllegalZero
<1>5. CASE System \/ Unimplemented
  BY <1>5, NotImplementedStep DEF System, Unimplemented
<1>6. CASE Skip
  BY <1>6, JumpStep, NextPcWord DEF Skip
<1> QED BY <1>1, <1>2, <1>3, <1>4, <1>5, <1>6

-----------------------------------------------------------------------------
(* What one step may do: TypeOK is inductive, and only words of writable   *)
(* pages change.                                                           *)
LEMMA StepProperties ==
  TypeOK /\ [Next]_vars =>
    /\ TypeOK'
    /\ \A w \in Image : mem'[w] # mem[w] => "W" \in prot[w \div PageWords]
<1> SUFFICES ASSUME TypeOK, [Next]_vars
             PROVE  /\ TypeOK'
                    /\ \A w \in Image : mem'[w] # mem[w] =>
                                        "W" \in prot[w \div PageWords]
  OBVIOUS
<1>1. CASE Store
  BY <1>1, StoreStep
<1>2. CASE Next /\ ~Store
  <2>1. TypeOK' /\ mem' = mem
    BY <1>2, ComputeSteps, LoadStep, BranchStep, OpOpStep, OtherSteps DEF Next
  <2> QED BY <2>1
<1>3. CASE UNCHANGED vars
  BY <1>3 DEF vars, TypeOK
<1> QED BY <1>1, <1>2, <1>3

(* The interpreter's state keeps its types: no instruction makes a word    *)
(* wider than 32 bits or the image longer.                                 *)
THEOREM InterpretTypeOK == Spec => []TypeOK
BY TypeInit, StepProperties, PTL DEF Spec

(* Nothing in the interpreter changes the protection of a page.            *)
LEMMA ProtectionStays == [Next]_vars => prot' = prot
<1> SUFFICES ASSUME [Next]_vars PROVE prot' = prot
  OBVIOUS
<1>1. \A how : Stop(how) => prot' = prot
  BY DEF Stop
<1>2. \A target : Continue(target) => prot' = prot
  BY DEF Continue
<1>3. \A addr : Refused(addr) => prot' = prot
  BY <1>1 DEF Refused
<1>4. NotImplemented => prot' = prot
  BY <1>1 DEF NotImplemented
<1>5. CASE Misaligned \/ FetchFault \/ DasmStops \/ IllegalZero
  BY <1>1, <1>3, <1>5 DEF Misaligned, FetchFault, DasmStops, IllegalZero
<1>6. CASE Jalr \/ Jal \/ Lui \/ Auipc \/ OpImm
  BY <1>2, <1>6 DEF Jalr, Jal, Lui, Auipc, OpImm
<1>7. CASE Load \/ Store
  BY <1>1, <1>2, <1>3, <1>4, <1>7 DEF Load, Store
<1>8. CASE Branch \/ OpOp
  BY <1>2, <1>4, <1>8 DEF Branch, OpOp
<1>9. CASE System \/ Unimplemented \/ Skip
  BY <1>2, <1>4, <1>9 DEF System, Unimplemented, Skip
<1>10. CASE UNCHANGED vars
  BY <1>10 DEF vars
<1> QED BY <1>5, <1>6, <1>7, <1>8, <1>9, <1>10 DEF Next

LEMMA ReadOnlyStep ==
  TypeOK /\ ReadOnlyAsLoaded /\ [Next]_vars => ReadOnlyAsLoaded'
<1> SUFFICES ASSUME TypeOK, ReadOnlyAsLoaded, [Next]_vars
             PROVE  ReadOnlyAsLoaded'
  OBVIOUS
<1>1. PICK s \in Starts :
        /\ prot = s.prot
        /\ \A w \in Image : "W" \notin prot[w \div PageWords] => mem[w] = s.mem[w]
  BY DEF ReadOnlyAsLoaded
<1>2. prot' = prot
  BY ProtectionStays
<1>3. \A w \in Image : mem'[w] # mem[w] => "W" \in prot[w \div PageWords]
  BY StepProperties
<1>4. \A w \in Image : "W" \notin prot[w \div PageWords] => mem'[w] = s.mem[w]
  BY <1>1, <1>3
<1> QED BY <1>1, <1>2, <1>4 DEF ReadOnlyAsLoaded

(* No program changes a word of a page the loader did not make writable.   *)
THEOREM InterpretReadOnlyAsLoaded == Spec => []ReadOnlyAsLoaded
<1>1. Init => ReadOnlyAsLoaded
  BY DEF Init, ReadOnlyAsLoaded
<1> QED BY <1>1, ReadOnlyStep, InterpretTypeOK, PTL DEF Spec

-----------------------------------------------------------------------------
(* The arithmetic of the instruction set.                                  *)
LEMMA PlusIs ==
  ASSUME NEW a \in Int, NEW b \in Int, NEW r \in Int,
         -2147483648 <= r, r < 2147483648,
         \/ r = a + b \/ r = a + b + 4294967296 \/ r = a + b - 4294967296
  PROVE  Rv!Plus(a, b) = r
<1> DEFINE al == a % 65536
           ah == a \div 65536
           bl == b % 65536
           bh == b \div 65536
           lo == al + bl
           c == lo \div 65536
           hi == ah + bh + c
           low == lo % 65536
           h == (hi + 32768) % 65536
           k == (hi + 32768) \div 65536
<1>1. /\ a = 65536 * ah + al /\ ah \in Int /\ al \in Int /\ 0 <= al /\ al < 65536
      /\ b = 65536 * bh + bl /\ bh \in Int /\ bl \in Int /\ 0 <= bl /\ bl < 65536
  BY SMT
<1>2. /\ lo = 65536 * c + low /\ c \in Int /\ low \in Int /\ 0 <= low /\ low < 65536
  BY <1>1, SMT
<1>3. /\ hi + 32768 = 65536 * k + h /\ k \in Int /\ h \in Int /\ 0 <= h /\ h < 65536
  <2> HIDE DEF ah, bh, c
  <2> QED BY <1>1, <1>2, SMT
<1>4. Rv!Plus(a, b) = (h - 32768) * 65536 + low
  BY SMT DEF Rv!Plus
<1>5. lo = al + bl /\ hi = ah + bh + c
  OBVIOUS
<1> HIDE DEF al, ah, bl, bh, lo, c, hi, low, h, k
<1>6. a + b = 65536 * hi + low
  BY <1>1, <1>2, <1>5, SMT
<1>7. a + b = 4294967296 * k + ((h - 32768) * 65536 + low)
  <2>1. hi = 65536 * k + h - 32768
    BY <1>1, <1>2, <1>3, <1>5, SMT
  <2> QED BY <1>2, <1>3, <1>6, <2>1, SMT
<1>8. (h - 32768) * 65536 + low = r
  BY <1>2, <1>3, <1>7, SMT
<1> QED BY <1>4, <1>8, SMT

LEMMA PlusAdds ==
  ASSUME NEW v \in Words, NEW w \in Words
  PROVE  Rv!Plus(Signed(v), Signed(w)) = Signed(Add(v, w))
<1>1. /\ Signed(v) \in Int /\ Signed(w) \in Int /\ Signed(Add(v, w)) \in Int
      /\ -2147483648 <= Signed(Add(v, w)) /\ Signed(Add(v, w)) < 2147483648
  BY SignedValue, SMT
<1> QED BY <1>1, AddSigned, PlusIs, SMT

LEMMA DivMonotone ==
  ASSUME NEW p \in Nat \ {0}, NEW w \in Nat, NEW n \in Nat, w <= n
  PROVE  w \div p <= n \div p /\ w \div p \in Nat
<1> DEFINE x == w \div p
           y == n \div p
<1>1. /\ w = p * x + (w % p) /\ x \in Int /\ w % p \in 0..(p - 1)
      /\ n = p * y + (n % p) /\ y \in Int /\ n % p \in 0..(p - 1)
  OBVIOUS
<1> HIDE DEF x, y
<1>2. x \in Nat
  <2> SUFFICES ASSUME x <= -1 PROVE FALSE
    BY <1>1
  <2>1. p * x <= -p
    BY <1>1
  <2> QED BY <1>1, <2>1
<1>3. x <= y
  <2> SUFFICES ASSUME y <= x - 1 PROVE FALSE
    BY <1>1
  <2>1. p * y <= p * (x - 1)
    BY <1>1
  <2>2. p * (x - 1) = p * x - p
    BY <1>1
  <2> QED BY <1>1, <2>1, <2>2
<1> QED BY <1>2, <1>3 DEF x, y

-----------------------------------------------------------------------------
(* An access is inside the image and allowed exactly when the address is   *)
(* in the set of the mapping, and it reaches the word that division finds. *)
LEMMA InsideMeans ==
  ASSUME NEW addr \in Words
  PROVE  /\ Inside(addr) <=> 0 <= Signed(addr) /\ Signed(addr) < MemBytes
         /\ MemBytes \in Nat /\ MemBytes <= 262144 /\ MemBytes = 4 * ImageWords
         /\ ImageWords \in Nat \ {0}
<1>1. ImageWords \in Nat /\ 1 <= ImageWords /\ ImageWords <= 65536
  <2>1. 2^16 = 65536
    BY SMT
  <2> QED BY <2>1, ImageAssumption, SMT
<1>2. MemBytes \in Nat /\ MemBytes <= 262144 /\ 0 < MemBytes /\ MemBytes = 4 * ImageWords
  BY <1>1, SMT DEF MemBytes
<1>3. FromNat(MemBytes) \in Words /\ Signed(FromNat(MemBytes)) = MemBytes
  BY <1>2, FromNatSigned, SMT
<1>4. Inside(addr) <=> ULess(addr, FromNat(MemBytes))
  BY <1>2 DEF Inside, MemBytes
<1>5. Signed(addr) \in Int
  BY SignedValue, SMT
<1>6. Inside(addr) <=> 0 <= Signed(addr) /\ Signed(addr) < MemBytes
  BY <1>2, <1>3, <1>4, <1>5, ULessSigned, SMT
<1> QED BY <1>1, <1>2, <1>6, SMT

LEMMA Accesses ==
  ASSUME TypeOK, NEW addr \in Words, Inside(addr)
  PROVE  /\ Signed(addr) \in 0..(MemBytes - 1)
         /\ WordOf(addr) = Signed(addr) \div 4
         /\ WordOf(addr) \in Image
         /\ ByteOf(addr) = Signed(addr) % 4
<1> DEFINE a == Signed(addr)
           n == ImageWords
<1>1. /\ 0 <= a /\ a < MemBytes /\ MemBytes \in Nat /\ MemBytes <= 262144 /\ MemBytes = 4 * n
      /\ n \in Nat \ {0}
  BY InsideMeans
<1>2. a \in Int
  BY SignedValue, SMT
<1>3. WordOf(addr) = a \div 4
  BY <1>1, <1>2, WordIndex, SMT DEF WordOf
<1>4. ByteOf(addr) = a % 4
  BY LastBits DEF ByteOf
<1> HIDE DEF a, n
<1>5. a \div 4 \in 0..(n - 1)
  BY <1>1, <1>2, SMT
<1>6. a \in 0..(MemBytes - 1)
  BY <1>1, <1>2, SMT
<1> QED BY <1>3, <1>4, <1>5, <1>6 DEF a, n, Image

LEMMA Permissions ==
  ASSUME TypeOK, NEW addr \in Words
  PROVE  /\ MayRead(addr) <=> Signed(addr) \in With("R")
         /\ MayWrite(addr) <=> Signed(addr) \in With("W")
         /\ MayWrite(addr) => MayRead(addr)
<1>1. CASE Inside(addr)
  <2>1. Signed(addr) \in 0..(MemBytes - 1) /\ PageOf(addr) = (Signed(addr) \div 4) \div PageWords
    BY <1>1, Accesses DEF PageOf
  <2>2. /\ MayRead(addr) <=> Signed(addr) \in With("R")
        /\ MayWrite(addr) <=> Signed(addr) \in With("W")
    BY <1>1, <2>1 DEF MayRead, MayWrite, With
  <2>3. PageOf(addr) \in Pages
    <3> DEFINE n == ImageWords
               p == PageWords
               w == WordOf(addr)
    <3>1. n \in Nat \ {0} /\ p \in Nat \ {0}
      <4>1. 2^16 = 65536
        BY SMT
      <4> QED BY <4>1, ImageAssumption, SMT
    <3>2. w \in 0..(n - 1)
      BY <1>1, Accesses DEF Image
    <3>3. PageOf(addr) = w \div p
      BY DEF PageOf
    <3> HIDE DEF n, p, w
    <3>4. w \div p <= (n - 1) \div p /\ w \div p \in Nat
      BY <3>1, <3>2, DivMonotone
    <3> QED BY <3>1, <3>3, <3>4, SMT DEF Pages, n, p
  <2>4. prot[PageOf(addr)] \in Protections
    BY <2>3 DEF TypeOK
  <2>5. "W" \in prot[PageOf(addr)] => "R" \in prot[PageOf(addr)]
    BY <2>4 DEF Protections
  <2> QED BY <2>2, <2>5 DEF MayRead, MayWrite
<1>2. CASE ~Inside(addr)
  <2>1. Signed(addr) \notin 0..(MemBytes - 1)
    BY <1>2, InsideMeans, SMT
  <2> QED BY <1>2, <2>1 DEF MayRead, MayWrite, With
<1> QED BY <1>1, <1>2

-----------------------------------------------------------------------------
(* The fetched instruction is the one the instruction set fetches.         *)
LEMMA AlignedMeans ==
  ASSUME NEW addr \in Words
  PROVE  Aligned(addr) <=> Rv!Aligned(Signed(addr), 4)
BY LastBits DEF Aligned, Rv!Aligned

LEMMA PcWord == TypeOK => pc \in Words
BY DEF TypeOK

LEMMA FetchedWord ==
  ASSUME TypeOK, Fetched
  PROVE  /\ raw \in Words
         /\ Rv!Fetchable
         /\ Rv!Lo = Value(raw, 16)
         /\ Rv!Hi = Value(Shr(raw, 16), 16)
<1> DEFINE a == Signed(pc)
<1>1. pc \in Words /\ Aligned(pc) /\ MayRead(pc) /\ Inside(pc)
  BY DEF Fetched, TypeOK, MayRead
<1>2. a \in 0..(MemBytes - 1) /\ WordOf(pc) = a \div 4 /\ WordOf(pc) \in Image
  BY <1>1, Accesses
<1>3. raw \in Words /\ raw = mem[a \div 4]
  BY <1>2 DEF TypeOK, raw
<1>4. a % 4 = 0 /\ Rv!Aligned(a, 4)
  BY <1>1, AlignedMeans DEF Rv!Aligned
<1>5. a \in With("R")
  BY <1>1, Permissions
<1>6. MemBytes = 4 * ImageWords /\ ImageWords \in Nat
  BY <1>1, InsideMeans
<1>7. /\ (a + 1) \div 4 = a \div 4 /\ (a + 1) % 4 = 1
      /\ (a + 2) \div 4 = a \div 4 /\ (a + 2) % 4 = 2
      /\ (a + 3) \div 4 = a \div 4 /\ (a + 3) % 4 = 3
  <2>1. a \in Nat
    BY <1>2
  <2> HIDE DEF a
  <2> QED BY <1>4, <2>1, SMT
<1> DEFINE all == 0..(MemBytes - 1)
<1>8. a + 1 \in all /\ a + 2 \in all /\ a + 3 \in all
  <2>1. a \in Nat /\ a < MemBytes
    BY <1>2, <1>6
  <2> HIDE DEF a
  <2> QED BY <1>4, <1>6, <2>1, SMT
<1>9. Rv!Fetchable
  <2>1. \A b \in all : b \div 4 = a \div 4 => b \in With("R")
    BY <1>5 DEF With
  <2>2. a + 1 \in With("R") /\ a + 2 \in With("R") /\ a + 3 \in With("R")
    BY <1>7, <1>8, <2>1
  <2> QED BY <1>4, <1>5, <2>2 DEF Rv!Fetchable
<1>10. /\ ByteIn(mem, a) = Value(Shr(raw, 0), 8)
       /\ ByteIn(mem, a + 1) = Value(Shr(raw, 8), 8)
       /\ ByteIn(mem, a + 2) = Value(Shr(raw, 16), 8)
       /\ ByteIn(mem, a + 3) = Value(Shr(raw, 24), 8)
  <2> HIDE DEF a
  <2>1. 8 * 0 = 0 /\ 8 * 1 = 8 /\ 8 * 2 = 16 /\ 8 * 3 = 24
    OBVIOUS
  <2> QED BY <1>3, <1>4, <1>7, <2>1 DEF ByteIn
<1>11. /\ Rv!Lo = ByteIn(mem, a) + 256 * ByteIn(mem, a + 1)
       /\ Rv!Hi = ByteIn(mem, a + 2) + 256 * ByteIn(mem, a + 3)
  BY <1>2, <1>8 DEF Rv!Lo, Rv!Hi
<1> QED BY <1>3, <1>9, <1>10, <1>11, Halves

(* The digits of its two halves, as division finds them.                   *)
LEMMA FetchedDigits ==
  ASSUME TypeOK, Fetched
  PROVE  /\ Part(raw, 6, 0) \in 0..127 /\ Part(raw, 7, 7) \in 0..1
         /\ Part(raw, 11, 8) \in 0..15 /\ Part(raw, 14, 12) \in 0..7
         /\ Part(raw, 15, 15) \in 0..1 /\ Part(raw, 19, 16) \in 0..15
         /\ Part(raw, 20, 20) \in 0..1 /\ Part(raw, 24, 21) \in 0..15
         /\ Part(raw, 30, 25) \in 0..63 /\ Digit(raw, 31) \in {0, 1}
         /\ Rv!Lo % 128 = Part(raw, 6, 0)
         /\ (Rv!Lo \div 128) % 32 = Part(raw, 7, 7) + 2 * Part(raw, 11, 8)
         /\ (Rv!Lo \div 4096) % 8 = Part(raw, 14, 12)
         /\ Rv!Lo \div 4096 = Part(raw, 14, 12) + 8 * Part(raw, 15, 15)
         /\ Rv!Lo \div 32768 = Part(raw, 15, 15)
         /\ Rv!Hi % 16 = Part(raw, 19, 16)
         /\ (Rv!Hi \div 16) % 32 = Part(raw, 20, 20) + 2 * Part(raw, 24, 21)
         /\ (Rv!Hi \div 16) % 2048 = Part(raw, 20, 20) + 2 * Part(raw, 24, 21) + 32 * Part(raw, 30, 25)
         /\ (Rv!Hi \div 16) % 2 = Part(raw, 20, 20)
         /\ (Rv!Hi \div 32) % 1024 = Part(raw, 24, 21) + 16 * Part(raw, 30, 25)
         /\ Rv!Hi \div 512 = Part(raw, 30, 25) + 64 * Digit(raw, 31)
         /\ (Rv!Hi \div 512) % 64 = Part(raw, 30, 25)
         /\ Rv!Hi >= 32768 <=> Digit(raw, 31) = 1
         /\ Rv!Hi \in Int
<1> DEFINE a == Part(raw, 6, 0)
           b == Part(raw, 7, 7)
           c == Part(raw, 11, 8)
           d == Part(raw, 14, 12)
           e == Part(raw, 15, 15)
           f == Part(raw, 19, 16)
           g == Part(raw, 20, 20)
           h == Part(raw, 24, 21)
           i == Part(raw, 30, 25)
           j == Digit(raw, 31)
           lo == Rv!Lo
           hi == Rv!Hi
<1>1. raw \in Words /\ lo = Value(raw, 16) /\ hi = Value(Shr(raw, 16), 16)
  BY FetchedWord
<1>2. /\ a \in 0..127 /\ b \in 0..1 /\ c \in 0..15 /\ d \in 0..7 /\ e \in 0..1 /\ f \in 0..15
      /\ g \in 0..1 /\ h \in 0..15 /\ i \in 0..63
      /\ lo = a + 128 * b + 256 * c + 4096 * d + 32768 * e
      /\ hi = f + 16 * g + 32 * h + 512 * i + 32768 * j
  BY <1>1, Digits
<1>3. j \in {0, 1}
  BY DEF Digit
<1> HIDE DEF a, b, c, d, e, f, g, h, i, j, lo, hi
<1>4. lo % 128 = a /\ lo \div 128 = b + 2 * c + 32 * d + 256 * e
  BY <1>2, SMT
<1>5. (b + 2 * c + 32 * d + 256 * e) % 32 = b + 2 * c
  BY <1>2, SMT
<1>6. lo \div 4096 = d + 8 * e
  BY <1>2, SMT
<1>7. (d + 8 * e) % 8 = d
  BY <1>2, SMT
<1>8. lo \div 32768 = e
  BY <1>2, SMT
<1>9. hi % 16 = f /\ hi \div 16 = g + 2 * h + 32 * i + 2048 * j
  BY <1>2, <1>3, SMT
<1>10. /\ (g + 2 * h + 32 * i + 2048 * j) % 32 = g + 2 * h
       /\ (g + 2 * h + 32 * i + 2048 * j) % 2048 = g + 2 * h + 32 * i
       /\ (g + 2 * h + 32 * i + 2048 * j) % 2 = g
  BY <1>2, <1>3, SMT
<1>11. hi \div 32 = h + 16 * i + 1024 * j
  BY <1>2, <1>3, SMT
<1>12. (h + 16 * i + 1024 * j) % 1024 = h + 16 * i
  BY <1>2, <1>3, SMT
<1>13. hi \div 512 = i + 64 * j
  BY <1>2, <1>3, SMT
<1>14. (i + 64 * j) % 64 = i
  BY <1>2, <1>3, SMT
<1>15. (hi >= 32768 <=> j = 1) /\ hi \in Int
  BY <1>2, <1>3, SMT
<1>16. /\ lo % 128 = a /\ (lo \div 128) % 32 = b + 2 * c /\ (lo \div 4096) % 8 = d
       /\ lo \div 4096 = d + 8 * e /\ lo \div 32768 = e
  BY <1>4, <1>5, <1>6, <1>7, <1>8
<1>17. /\ hi % 16 = f /\ (hi \div 16) % 32 = g + 2 * h
       /\ (hi \div 16) % 2048 = g + 2 * h + 32 * i
       /\ (hi \div 16) % 2 = g /\ (hi \div 32) % 1024 = h + 16 * i
       /\ hi \div 512 = i + 64 * j /\ (hi \div 512) % 64 = i
  BY <1>9, <1>10, <1>11, <1>12, <1>13, <1>14
<1> QED BY <1>2, <1>3, <1>15, <1>16, <1>17, SMT DEF lo, hi, a, b, c, d, e, f, g, h, i, j

(* Decoding: fields and immediates are those of the instruction set.       *)
LEMMA SameFields ==
  ASSUME TypeOK, Fetched
  PROVE  /\ Rv!op = Opcode(raw) /\ Rv!rd = Rd(raw) /\ Rv!funct3 = Funct3(raw)
         /\ Rv!rs1 = Rs1(raw) /\ Rv!rs2 = Rs2(raw) /\ Rv!funct7 = Funct7(raw)
         /\ Opcode(raw) \in 0..127 /\ Rd(raw) \in 0..31 /\ Funct3(raw) \in 0..7
         /\ Rs1(raw) \in 0..31 /\ Rs2(raw) \in 0..31 /\ Funct7(raw) \in 0..127
         /\ Funct7(raw) < 64 <=> 31 \notin raw
         /\ read_shift_immediate(raw) = Rs2(raw)
<1> DEFINE a == Part(raw, 6, 0)
           b == Part(raw, 7, 7)
           c == Part(raw, 11, 8)
           d == Part(raw, 14, 12)
           e == Part(raw, 15, 15)
           f == Part(raw, 19, 16)
           g == Part(raw, 20, 20)
           h == Part(raw, 24, 21)
           i == Part(raw, 30, 25)
           j == Digit(raw, 31)
<1>1. raw \in Words
  BY FetchedWord
<1>2. j = 0 <=> 31 \notin raw
  BY DEF Digit
<1>3. /\ Opcode(raw) = a /\ Rd(raw) = b + 2 * c /\ Funct3(raw) = d
      /\ Rs1(raw) = e + 2 * f /\ Rs2(raw) = g + 2 * h /\ Funct7(raw) = i + 64 * j
  <2>1. /\ Rd(raw) = Part(raw, 11, 7) /\ Funct3(raw) = Part(raw, 14, 12)
        /\ Rs1(raw) = Part(raw, 19, 15) /\ Rs2(raw) = Part(raw, 24, 20)
        /\ Funct7(raw) = Part(raw, 31, 25)
    BY DEF Rd, Funct3, Rs1, Rs2, Funct7, Part
  <2> QED BY <1>1, <2>1, Digits DEF Opcode
<1>4. read_shift_immediate(raw) = Rs2(raw)
  BY <1>1, ShiftAmount DEF Rs2, Part
<1>5. /\ a \in 0..127 /\ b \in 0..1 /\ c \in 0..15 /\ d \in 0..7 /\ e \in 0..1 /\ f \in 0..15
      /\ g \in 0..1 /\ h \in 0..15 /\ i \in 0..63 /\ j \in {0, 1}
      /\ Rv!Lo % 128 = a /\ (Rv!Lo \div 128) % 32 = b + 2 * c /\ (Rv!Lo \div 4096) % 8 = d
      /\ Rv!Lo \div 32768 = e /\ Rv!Hi % 16 = f /\ (Rv!Hi \div 16) % 32 = g + 2 * h
      /\ Rv!Hi \div 512 = i + 64 * j
  BY FetchedDigits
<1> HIDE DEF a, b, c, d, e, f, g, h, i, j
<1>6. /\ Rv!op = a /\ Rv!rd = b + 2 * c /\ Rv!funct3 = d /\ Rv!rs1 = e + 2 * f
      /\ Rv!rs2 = g + 2 * h /\ Rv!funct7 = i + 64 * j
  BY <1>5 DEF Rv!op, Rv!rd, Rv!funct3, Rv!rs1, Rv!rs2, Rv!funct7
<1>7. /\ a \in 0..127 /\ b + 2 * c \in 0..31 /\ d \in 0..7 /\ e + 2 * f \in 0..31
      /\ g + 2 * h \in 0..31 /\ i + 64 * j \in 0..127 /\ (i + 64 * j < 64 <=> j = 0)
  BY <1>5
<1> QED BY <1>2, <1>3, <1>4, <1>6, <1>7

LEMMA RvImmediates ==
  ASSUME TypeOK, Fetched
  PROVE  /\ Rv!ImmI = Signed(read_i_immediate(raw))
         /\ Rv!ImmS = Signed(read_s_immediate(raw))
         /\ Rv!ImmB = Signed(read_b_immediate(raw))
         /\ Rv!ImmJ = Signed(read_j_immediate(raw))
         /\ Rv!ImmU = Signed(read_upper_immediate(raw))
<1> DEFINE a == Part(raw, 6, 0)
           b == Part(raw, 7, 7)
           c == Part(raw, 11, 8)
           d == Part(raw, 14, 12)
           e == Part(raw, 15, 15)
           f == Part(raw, 19, 16)
           g == Part(raw, 20, 20)
           h == Part(raw, 24, 21)
           i == Part(raw, 30, 25)
           j == Digit(raw, 31)
           lo == Value(raw, 16)
           hi == Value(Shr(raw, 16), 16)
           k == Part(raw, 19, 12)
           l == Part(raw, 30, 20)
<1>1. raw \in Words /\ Rv!Lo = lo /\ Rv!Hi = hi
  BY FetchedWord
<1>2. Rv!rd = Part(raw, 11, 7)
  BY SameFields DEF Rd, Part
<1>3. /\ Part(raw, 11, 7) = b + 2 * c /\ l = g + 2 * h + 32 * i
      /\ k = d + 8 * e + 16 * f
  BY <1>1, Digits
<1>4. Signed(read_i_immediate(raw)) = l - 2048 * j
  BY <1>1, ImmediateI
<1>5. Signed(read_s_immediate(raw)) = b + 2 * c + 32 * i - 2048 * j
  <2>1. Signed(read_s_immediate(raw)) = Part(raw, 11, 7) + 32 * i - 2048 * j
    BY <1>1, ImmediateS
  <2> QED BY <1>3, <2>1
<1>6. Signed(read_b_immediate(raw)) = 2 * c + 32 * i + 2048 * b - 4096 * j
  BY <1>1, ImmediateB
<1>7. Signed(read_j_immediate(raw))
        = 2 * h + 32 * i + 2048 * g + 4096 * k - 1048576 * j
  BY <1>1, ImmediateJ, SMT
<1>8. Signed(read_upper_immediate(raw)) = (hi - 65536 * j) * 65536 + 4096 * (lo \div 4096)
  BY <1>1, ImmediateU, SMT
<1>9. /\ a \in 0..127 /\ b \in 0..1 /\ c \in 0..15 /\ d \in 0..7 /\ e \in 0..1 /\ f \in 0..15
      /\ g \in 0..1 /\ h \in 0..15 /\ i \in 0..63 /\ j \in {0, 1}
      /\ Rv!Lo \div 4096 = d + 8 * e /\ Rv!Hi % 16 = f
      /\ (Rv!Hi \div 16) % 2048 = g + 2 * h + 32 * i
      /\ (Rv!Hi \div 16) % 2 = g /\ (Rv!Hi \div 32) % 1024 = h + 16 * i
      /\ (Rv!Hi \div 512) % 64 = i
      /\ (Rv!Hi >= 32768 <=> j = 1) /\ Rv!Hi \in Int
  BY FetchedDigits
<1> HIDE DEF a, b, c, d, e, f, g, h, i, j, k, l, lo, hi
<1>10. (b + 2 * c) \div 2 = c /\ (b + 2 * c) % 2 = b
  BY <1>9
<1>11. \A weight \in Int : Rv!Sign(weight) = -(weight * j)
  BY <1>9 DEF Rv!Sign
<1>12. Rv!ImmI = Signed(read_i_immediate(raw))
  <2>1. Rv!Sign(2048) = -(2048 * j)
    BY <1>11
  <2>2. (Rv!Hi \div 16) % 2048 = l
    BY <1>3, <1>9
  <2>3. Rv!ImmI = l + -(2048 * j)
    BY <2>1, <2>2 DEF Rv!ImmI
  <2>4. l \in Int /\ j \in Int
    BY <1>3, <1>9
  <2> QED BY <1>4, <2>3, <2>4
<1>13. Rv!ImmS = Signed(read_s_immediate(raw))
  <2>1. Rv!Sign(2048) = -(2048 * j)
    BY <1>11
  <2> QED BY <1>2, <1>3, <1>5, <1>9, <2>1 DEF Rv!ImmS
<1>14. Rv!ImmB = Signed(read_b_immediate(raw))
  <2>1. Rv!Sign(4096) = -(4096 * j)
    BY <1>11
  <2>2. Rv!rd \div 2 = c /\ Rv!rd % 2 = b
    BY <1>2, <1>3, <1>10
  <2>3. Rv!ImmB = 32 * i + 2 * c + 2048 * b + Rv!Sign(4096)
    BY <1>9, <2>2 DEF Rv!ImmB
  <2> QED BY <1>6, <1>9, <2>1, <2>3
<1>15. Rv!ImmJ = Signed(read_j_immediate(raw))
  <2>1. Rv!Sign(2^20) = -(1048576 * j)
    <3>1. 2^20 = 1048576
      BY SMT
    <3> QED BY <1>11, <3>1, SMT
  <2> QED BY <1>3, <1>7, <1>9, <2>1, SMT DEF Rv!ImmJ
<1>16. Rv!ImmU = Signed(read_upper_immediate(raw))
  BY <1>1, <1>8, <1>9, SMT DEF Rv!ImmU
<1> QED BY <1>12, <1>13, <1>14, <1>15, <1>16

-----------------------------------------------------------------------------
(* The operations.                                                         *)
LEMMA NextPcIs ==
  ASSUME TypeOK
  PROVE  NextPc \in Words /\ Signed(NextPc) = Rv!Plus(Signed(pc), 4)
<1>1. pc \in Words /\ {2} \in Words
  BY DEF TypeOK, Words, Bits
<1>2. Signed({2}) = 4
  <2>1. Power(2) = 4
    BY DEF Power
  <2> QED BY <2>1, SignedSingle
<1> QED BY <1>1, <1>2, PlusAdds, NextPcWord DEF NextPc

LEMMA RegIs ==
  ASSUME TypeOK, NEW i \in 0..31
  PROVE  Rv!Reg(i) = Signed(Read(i)) /\ Read(i) \in Words
<1>1. CASE i = 0
  <2>1. Read(i) = {}
    BY <1>1 DEF Read, Registers, ZeroW
  <2>2. Signed({}) = 0
    BY ValueEmpty DEF Signed
  <2> QED BY <1>1, <2>1, <2>2, ReadWord DEF Rv!Reg
<1>2. CASE i # 0
  <2>1. i \in Registers
    BY <1>2 DEF Registers
  <2> QED BY <1>2, <2>1, ReadWord DEF Rv!Reg, Read
<1> QED BY <1>1, <1>2

LEMMA MinusIs ==
  ASSUME NEW v \in Words, NEW w \in Words
  PROVE  Rv!Minus(Signed(v), Signed(w)) = Signed(Add(v, Neg(w)))
<1> DEFINE a == Signed(v)
           b == Signed(w)
           c == Complement(w)
           n == Neg(w)
           u == Add(v, c)
           r == Add(v, n)
<1>1. c \in Words /\ {0} \in Words /\ n \in Words /\ u \in Words /\ r \in Words
  <2>1. c \in Words /\ {0} \in Words
    BY DEF Complement, Words, Bits
  <2> QED BY <2>1, WordOperations
<1>2. Signed({0}) = 1
  BY SignedSingle, PowerProperties
<1>3. Signed(c) = -1 - b
  BY ComplementSigned
<1>4. Rv!Plus(a, -1 - b) = Signed(u)
  BY <1>1, <1>3, PlusAdds
<1>5. Rv!Minus(a, b) = Rv!Plus(Signed(u), 1)
  BY <1>4 DEF Rv!Minus
<1>6. n = Add(c, {0})
  BY DEF Neg
<1> HIDE DEF a, b, c, n
<1>7. \/ Signed(u) = a + Signed(c)
      \/ Signed(u) = a + Signed(c) + 4294967296
      \/ Signed(u) = a + Signed(c) - 4294967296
  BY <1>1, AddSigned, SMT DEF a
<1>8. \/ Signed(n) = Signed(c) + 1
      \/ Signed(n) = Signed(c) + 1 + 4294967296
      \/ Signed(n) = Signed(c) + 1 - 4294967296
  BY <1>1, <1>2, <1>6, AddSigned, SMT
<1>9. \/ Signed(r) = a + Signed(n)
      \/ Signed(r) = a + Signed(n) + 4294967296
      \/ Signed(r) = a + Signed(n) - 4294967296
  BY <1>1, AddSigned, SMT DEF a
<1> HIDE DEF u, r
<1>10. /\ a \in Int /\ Signed(c) \in Int /\ Signed(n) \in Int
       /\ Signed(u) \in Int /\ -2147483648 <= Signed(u) /\ Signed(u) < 2147483648
       /\ Signed(r) \in Int /\ -2147483648 <= Signed(r) /\ Signed(r) < 2147483648
  BY SignedValue, SMT DEF a
<1>11. \/ Signed(r) = Signed(u) + 1 
       \/ Signed(r) = Signed(u) + 1 + 4294967296
       \/ Signed(r) = Signed(u) + 1 - 4294967296
  BY <1>7, <1>8, <1>9, <1>10, SMT
<1>12. Rv!Plus(Signed(u), 1) = Signed(r)
  BY <1>10, <1>11, PlusIs, SMT
<1> QED BY <1>5, <1>12 DEF a, b, r, n

LEMMA BitMeans ==
  ASSUME NEW w \in Words
  PROVE  \A i \in 0..31 : Rv!Bit(Signed(w), i) <=> i \in w
<1>1. ASSUME NEW i \in 0..30 PROVE Rv!Bit(Signed(w), i) <=> i \in w
  <2>1. i # 31
    OBVIOUS
  <2> QED BY <2>1, BitOfSigned DEF Rv!Bit, Power
<1>2. Rv!Bit(Signed(w), 31) <=> 31 \in w
  <2>1. Signed(w) < 0 <=> 31 \in w
    BY SignedValue, SMT
  <2> QED BY <2>1 DEF Rv!Bit
<1>3. \A i \in 0..31 : i \in 0..30 \/ i = 31
  OBVIOUS
<1> QED BY <1>1, <1>2, <1>3

LEMMA OfBitsIs == \A w : Rv!OfBits(w) = Signed(w)
BY DEF Rv!OfBits, Signed, Value

XorNumber(a, b) == Rv!OfBits({i \in 0..31 : Rv!Bit(a, i) # Rv!Bit(b, i)})
OrNumber(a, b)  == Rv!OfBits({i \in 0..31 : Rv!Bit(a, i) \/ Rv!Bit(b, i)})
AndNumber(a, b) == Rv!OfBits({i \in 0..31 : Rv!Bit(a, i) /\ Rv!Bit(b, i)})

LEMMA BitwiseIs ==
  ASSUME NEW v \in Words, NEW w \in Words
  PROVE  /\ XorNumber(Signed(v), Signed(w)) = Signed(Xor(v, w))
         /\ OrNumber(Signed(v), Signed(w)) = Signed(v \union w)
         /\ AndNumber(Signed(v), Signed(w)) = Signed(v \cap w)
<1>1. v \subseteq 0..31 /\ w \subseteq 0..31
  BY DEF Words, Bits
<1>2. ASSUME NEW i \in 0..31
      PROVE  Rv!Bit(Signed(v), i) # Rv!Bit(Signed(w), i) <=> ~(i \in v <=> i \in w)
  <2>1. Rv!Bit(Signed(v), i) # Rv!Bit(Signed(w), i)
          <=> ~(Rv!Bit(Signed(v), i) <=> Rv!Bit(Signed(w), i))
    BY DEF Rv!Bit
  <2> QED BY <2>1, BitMeans
<1>3. {i \in 0..31 : Rv!Bit(Signed(v), i) # Rv!Bit(Signed(w), i)} = Xor(v, w)
  BY <1>1, <1>2 DEF Xor
<1>4. {i \in 0..31 : Rv!Bit(Signed(v), i) \/ Rv!Bit(Signed(w), i)} = v \union w
  BY <1>1, BitMeans
<1>5. {i \in 0..31 : Rv!Bit(Signed(v), i) /\ Rv!Bit(Signed(w), i)} = v \cap w
  BY <1>1, BitMeans
<1> QED BY <1>3, <1>4, <1>5, OfBitsIs DEF XorNumber, OrNumber, AndNumber

LEMMA ComparisonsAre ==
  ASSUME NEW v \in Words, NEW w \in Words
  PROVE  /\ Rv!Below(Signed(v), Signed(w)) <=> ULess(v, w)
         /\ Rv!Less(Signed(v), Signed(w)) <=> SLess(v, w)
         /\ \A p \in BOOLEAN : Rv!Truth(p) = Signed(Bool(p)) /\ Bool(p) \in Words
<1>1. Rv!Below(Signed(v), Signed(w)) <=> ULess(v, w)
  BY ULessSigned DEF Rv!Below
<1>2. Rv!Less(Signed(v), Signed(w)) <=> SLess(v, w)
  BY SLessSigned DEF Rv!Less
<1>3. Signed({0}) = 1 /\ Signed({}) = 0
  BY SignedSingle, PowerProperties, ValueEmpty DEF Signed
<1>4. \A p \in BOOLEAN : Rv!Truth(p) = Signed(Bool(p)) /\ Bool(p) \in Words
  BY <1>3, Shifted DEF Rv!Truth, Bool
<1> QED BY <1>1, <1>2, <1>4

LEMMA ShiftLeftIs ==
  ASSUME NEW w \in Words, NEW n \in 0..31
  PROVE  Rv!ShiftLeft(Signed(w), n) = Signed(Shl(w, n)) /\ Shl(w, n) \in Words
<1> DEFINE a == Signed(w)
           Step(f, i) == IF i = 0 THEN a ELSE Rv!Plus(f[i - 1], f[i - 1])
           d == CHOOSE f : f = [i \in 0..n |-> Step(f, i)]
           g == [i \in 0..n |-> Signed(Shl(w, i))]
<1>1. ASSUME NEW i \in 0..n PROVE g[i] = Step(g, i)
  <2>1. CASE i = 0
    BY <2>1, ShlAgain
  <2>2. CASE i # 0
    <3>1. i - 1 \in Nat /\ i - 1 \in 0..n /\ (i - 1) + 1 = i
      BY <2>2
    <3>2. Shl(w, i) = Shl(Shl(w, i - 1), 1)
      BY <3>1, ShlAgain
    <3>3. Shl(w, i - 1) \in Words
      BY DEF Shl, Words
    <3>4. Shl(Shl(w, i - 1), 1) = Add(Shl(w, i - 1), Shl(w, i - 1))
      BY <3>3, ShlAgain
    <3>5. Signed(Shl(w, i)) = Rv!Plus(Signed(Shl(w, i - 1)), Signed(Shl(w, i - 1)))
      BY <3>2, <3>3, <3>4, PlusAdds
    <3> QED BY <2>2, <3>1, <3>5
  <2> QED BY <2>1, <2>2
<1>2. g = [i \in 0..n |-> g[i]]
  OBVIOUS
<1>3. [i \in 0..n |-> g[i]] = [i \in 0..n |-> Step(g, i)]
  BY <1>1, Zenon
<1>4. d = [i \in 0..n |-> Step(d, i)]
  <2> HIDE DEF g
  <2>1. \E f : f = [i \in 0..n |-> Step(f, i)]
    BY <1>2, <1>3, Zenon
  <2> QED BY <2>1, Zenon
<1>5. Rv!ShiftLeft(a, n) = d[n]
  BY Zenon DEF Rv!ShiftLeft
<1> DEFINE S == {i \in 0..n : d[i] = Signed(Shl(w, i))}
<1> HIDE DEF d
<1>6. 0 \in S
  <2>1. d[0] = a
    BY <1>4
  <2> QED BY <2>1, ShlAgain
<1>7. ASSUME NEW i \in 0..(n - 1), i \in S PROVE i + 1 \in S
  <2>1. i \in 0..n /\ i + 1 \in 0..n /\ i + 1 # 0 /\ (i + 1) - 1 = i
    OBVIOUS
  <2>2. d[i + 1] = Rv!Plus(d[i], d[i])
    BY <1>4, <2>1
  <2>3. g[i + 1] = Rv!Plus(g[i], g[i])
    BY <1>1, <2>1
  <2> QED BY <1>7, <2>1, <2>2, <2>3
<1> HIDE DEF S
<1>8. n \in S
  BY <1>6, <1>7, BoundedInduction
<1> QED BY <1>5, <1>8 DEF S, Shl, Words

LEMMA ShiftRightIs ==
  ASSUME NEW w \in Words, NEW n \in 0..31
  PROVE  /\ Rv!ShiftRightArith(Signed(w), n) = Signed(w) \div Power(n)
         /\ Rv!ShiftRightLogical(Signed(w), n) = Signed(Shr(w, n))
         /\ 31 \notin w \/ n = 0 => Rv!ShiftRightArith(Signed(w), n) = Signed(Shr(w, n))
         /\ Shr(w, n) \in Words
<1> DEFINE a == Signed(w)
           h == n \div 2
           k == n - h
<1>1. h \in 0..32 /\ k \in 0..(32 - h) /\ k \in 0..32 /\ h + k = n
  OBVIOUS
<1>2. a \in Int /\ (a < 0 <=> 31 \in w)
  BY SignedValue, SMT
<1> HIDE DEF a, h, k
<1>3. Power(h) \in Nat \ {0} /\ Power(k) \in Nat \ {0} /\ Power(n) = Power(h) * Power(k)
  BY <1>1, PowerProperties, PowerSum
<1>4. (a \div Power(h)) \div Power(k) = a \div Power(n)
  BY <1>2, <1>3, DivDiv
<1>5. Rv!ShiftRightArith(a, n) = a \div Power(n)
  BY <1>4, Zenon DEF Rv!ShiftRightArith, Power, h, k
<1>6. CASE n = 0
  <2>1. a \div Power(0) = a
    BY <1>2, PowerProperties
  <2>2. Shr(w, 0) = w
    BY Halves
  <2>3. Rv!ShiftRightLogical(a, n) = a \div Power(n)
    BY <1>5, <1>6 DEF Rv!ShiftRightLogical
  <2> QED BY <1>5, <1>6, <2>1, <2>2, <2>3 DEF a
<1>7. CASE n # 0
  <2>1. n \in 1..31
    BY <1>7
  <2>2. Signed(Shr(w, n)) = (a \div Power(n)) + IF a < 0 THEN Power(31 - n) + Power(31 - n) ELSE 0
    BY <2>1, ShrSigned DEF a
  <2>3. (a \div Power(n)) \in Int /\ Power(31 - n) \in Int
    <3>1. Power(n) \in Nat \ {0} /\ 31 - n \in 0..32
      BY PowerProperties
    <3> QED BY <1>2, <3>1, PowerProperties
  <2>4. CASE a < 0
    <3>1. Rv!ShiftRightLogical(a, n) = ((a \div Power(n)) + Power(31 - n)) + Power(31 - n)
      BY <1>2, <1>5, <1>7, <2>4 DEF Rv!ShiftRightLogical, Power
    <3>2. Rv!ShiftRightLogical(a, n) = Signed(Shr(w, n))
      BY <2>2, <2>3, <2>4, <3>1
    <3> QED BY <1>2, <1>5, <1>7, <2>4, <3>2 DEF a, Shr, Words
  <2>5. CASE ~(a < 0)
    <3>1. Rv!ShiftRightLogical(a, n) = a \div Power(n)
      BY <1>2, <1>5, <2>5 DEF Rv!ShiftRightLogical
    <3>2. Signed(Shr(w, n)) = a \div Power(n)
      BY <2>2, <2>3, <2>5
    <3> QED BY <1>5, <3>1, <3>2 DEF a, Shr, Words
  <2> QED BY <2>4, <2>5
<1> QED BY <1>6, <1>7 DEF a, Shr, Words

-----------------------------------------------------------------------------
(* One step of the interpreter, whatever the instruction.                  *)
LEMMA ProtectionKept ==
  ASSUME prot' = prot
  PROVE  UNCHANGED With("R") /\ UNCHANGED With("W")
BY DEF With

LEMMA StepGivesUp ==
  ASSUME TypeOK, status = "running", NEW how \in {"aborted", "trapped", "segv", "wild"},
         Stop(how), Rv!Fetchable => Rv!BadOperand \/ Rv!Mnemonic \notin Promised
  PROVE  Rv!Next
<1>1. /\ prot' = prot /\ pc' = pc /\ registers' = registers /\ mem' = mem
      /\ status' # "running"
  BY DEF Stop
<1>2. Rv!GiveUp
  BY <1>1, ProtectionKept DEF Rv!GiveUp
<1> QED BY <1>2 DEF Rv!Next

LEMMA StepPassesOver ==
  ASSUME TypeOK, Fetched, Rv!Mnemonic \notin Promised, NotImplemented
  PROVE  Rv!Next
<1>1. CASE NDEBUG
  <2>1. pc' = NextPc /\ UNCHANGED <<registers, mem, prot, status>>
    BY <1>1 DEF NotImplemented
  <2>2. Rv!GoOn
    <3>1. Signed(pc') = Rv!Plus(Signed(pc), 4)
      BY <2>1, NextPcIs
    <3> QED BY <3>1 DEF Rv!GoOn, Rv!Go
  <2>3. Rv!PassOver
    BY <1>1, <2>1, <2>2, FetchedWord, ProtectionKept DEF Rv!PassOver, Fetched
  <2> QED BY <2>3 DEF Rv!Next
<1>2. CASE ~NDEBUG
  <2>1. Stop("aborted")
    BY <1>2 DEF NotImplemented
  <2> QED BY <2>1, StepGivesUp DEF Fetched
<1> QED BY <1>1, <1>2

LEMMA StepUnspecified ==
  ASSUME TypeOK, Fetched, Rv!Mnemonic = "reserved"
  PROVE  Rv!Next
BY FetchedWord DEF Rv!Next, Rv!Unspecified, Fetched

LEMMA StepExecutes ==
  ASSUME TypeOK, Fetched, Rv!Effect, Rv!Mnemonic # "reserved", ~Rv!BadOperand,
         prot' = prot, status' = status
  PROVE  Rv!Next
<1>1. Rv!Execute
  BY FetchedWord, ProtectionKept DEF Rv!Execute, Fetched
<1> QED BY <1>1 DEF Rv!Next

(* The register file and the program counter.                              *)
LEMMA SetIs ==
  ASSUME TypeOK, Fetched, NEW v \in Words, Write(Rd(raw), v),
         NEW number, Rd(raw) # 0 => number = Signed(v)
  PROVE  Rv!Set(number)
<1>1. Rv!rd = Rd(raw) /\ Rd(raw) \in 0..31
  BY SameFields
<1>2. CASE Rd(raw) = 0
  <2>1. \A i \in Registers : registers'[i] = registers[i]
    BY <1>2 DEF Write, Registers
  <2>2. [i \in Registers |-> Signed(registers'[i])] = [i \in Registers |-> Signed(registers[i])]
    BY <2>1
  <2> QED BY <1>1, <1>2, <2>2 DEF Rv!Set
<1>3. CASE Rd(raw) # 0
  <2>1. registers' = [i \in Registers |-> IF i = Rd(raw) THEN v ELSE registers[i]]
    BY <1>3 DEF Write
  <2>2. [i \in Registers |-> Signed(registers'[i])]
          = [[i \in Registers |-> Signed(registers[i])] EXCEPT ![Rd(raw)] = number]
    BY <1>3, <2>1
  <2> QED BY <1>1, <1>3, <2>2 DEF Rv!Set
<1> QED BY <1>2, <1>3

LEMMA GoIs ==
  ASSUME NEW target \in Words, NEW number, number = Signed(target), Continue(target)
  PROVE  Rv!Go(number) /\ prot' = prot /\ status' = status
BY DEF Rv!Go, Continue

LEMMA MemoryKept == ASSUME UNCHANGED mem
                    PROVE  UNCHANGED [a \in 0..(MemBytes - 1) |-> ByteIn(mem, a)]
OBVIOUS

LEMMA ComputeIs ==
  ASSUME TypeOK, Fetched, NEW v \in Words, Write(Rd(raw), v), Continue(NextPc), UNCHANGED mem,
         NEW number, Rd(raw) # 0 => number = Signed(v)
  PROVE  Rv!Compute(number) /\ prot' = prot /\ status' = status
<1>1. Rv!Set(number)
  BY SetIs
<1>2. Rv!GoOn /\ prot' = prot /\ status' = status
  BY NextPcIs, GoIs DEF Rv!GoOn
<1> QED BY <1>1, <1>2, MemoryKept DEF Rv!Compute

-----------------------------------------------------------------------------
(* The jumps, lui and auipc.                                               *)
LEMMA PlusSwapped ==
  ASSUME NEW v \in Words, NEW w \in Words
  PROVE  Rv!Plus(Signed(w), Signed(v)) = Signed(Add(v, w))
<1>1. /\ Signed(v) \in Int /\ Signed(w) \in Int /\ Signed(Add(v, w)) \in Int
      /\ -2147483648 <= Signed(Add(v, w)) /\ Signed(Add(v, w)) < 2147483648
  BY SignedValue, SMT
<1>2. Signed(v) + Signed(w) = Signed(w) + Signed(v)
  BY <1>1, SMT
<1> QED BY <1>1, <1>2, AddSigned, PlusIs, SMT

LEMMA StepJalr == TypeOK /\ Jalr => Rv!Next
<1> SUFFICES ASSUME TypeOK, Jalr PROVE Rv!Next
  OBVIOUS
<1> DEFINE imm == read_i_immediate(raw)
           src == Read(Rs1(raw))
           t == Add(imm, src)
<1>1. /\ Fetched /\ Opcode(raw) = 103 /\ Write(Rd(raw), NextPc)
      /\ Continue(t \ {0}) /\ UNCHANGED mem
  BY DEF Jalr, Executing, op_jalr
<1>2. imm \in Words /\ src \in Words /\ t \in Words /\ t \ {0} \in Words
  <2>1. imm \in Words /\ src \in Words
    BY Immediates, ReadWord
  <2>2. t \in Words
    BY <2>1, WordOperations
  <2> QED BY <2>1, <2>2 DEF Words
<1>3. Signed(t) = Rv!Plus(Rv!Reg(Rv!rs1), Rv!ImmI)
  BY <1>1, <1>2, SameFields, RegIs, RvImmediates, PlusSwapped
<1>4. Signed(t \ {0}) = Signed(t) - (Signed(t) % 2)
  BY <1>2, LastBits
<1>5. Rv!Set(Rv!Plus(Signed(pc), 4))
  BY <1>1, NextPcIs, SetIs
<1>6. Rv!Go(Signed(t) - (Signed(t) % 2)) /\ prot' = prot /\ status' = status
  BY <1>1, <1>2, <1>4, GoIs
<1>7. CASE Rv!funct3 = 0
  <2>1. Rv!Mnemonic = "jalr"
    BY <1>1, <1>7, SameFields DEF Rv!Mnemonic
  <2>2. Rv!Effect
    BY <1>1, <1>3, <1>5, <1>6, <2>1, MemoryKept DEF Rv!Effect
  <2>3. ~Rv!BadOperand
    BY <2>1 DEF Rv!BadOperand
  <2> QED BY <1>1, <1>6, <2>1, <2>2, <2>3, StepExecutes
<1>8. CASE Rv!funct3 # 0
  <2>1. Rv!Mnemonic = "reserved"
    BY <1>1, <1>8, SameFields DEF Rv!Mnemonic
  <2> QED BY <1>1, <2>1, StepUnspecified
<1> QED BY <1>7, <1>8

LEMMA StepJal == TypeOK /\ Jal => Rv!Next
<1> SUFFICES ASSUME TypeOK, Jal PROVE Rv!Next
  OBVIOUS
<1> DEFINE imm == read_j_immediate(raw)
<1>1. /\ Fetched /\ Opcode(raw) = 111 /\ Write(Rd(raw), NextPc)
      /\ Continue(Add(pc, imm)) /\ UNCHANGED mem
  BY DEF Jal, Executing, op_jal
<1>2. imm \in Words /\ pc \in Words /\ Add(pc, imm) \in Words
  BY Immediates, PcWord, WordOperations
<1>3. Signed(Add(pc, imm)) = Rv!Plus(Signed(pc), Rv!ImmJ)
  BY <1>1, <1>2, RvImmediates, PlusAdds
<1>4. Rv!Set(Rv!Plus(Signed(pc), 4))
  BY <1>1, NextPcIs, SetIs
<1>5. Rv!Go(Rv!Plus(Signed(pc), Rv!ImmJ)) /\ prot' = prot /\ status' = status
  BY <1>1, <1>2, <1>3, GoIs
<1>6. Rv!Mnemonic = "jal"
  BY <1>1, SameFields DEF Rv!Mnemonic
<1>7. Rv!Effect
  BY <1>1, <1>4, <1>5, <1>6, MemoryKept DEF Rv!Effect
<1>8. ~Rv!BadOperand
  BY <1>6 DEF Rv!BadOperand
<1> QED BY <1>1, <1>5, <1>6, <1>7, <1>8, StepExecutes

LEMMA StepLui == TypeOK /\ Lui => Rv!Next
<1> SUFFICES ASSUME TypeOK, Lui PROVE Rv!Next
  OBVIOUS
<1> DEFINE imm == read_upper_immediate(raw)
<1>1. /\ Fetched /\ Opcode(raw) = 55 /\ Write(Rd(raw), imm)
      /\ Continue(NextPc) /\ UNCHANGED mem
  BY DEF Lui, Executing, op_lui
<1>2. imm \in Words
  BY Immediates
<1>3. Rv!Compute(Rv!ImmU) /\ prot' = prot /\ status' = status
  BY <1>1, <1>2, RvImmediates, ComputeIs
<1>4. Rv!Mnemonic = "lui"
  BY <1>1, SameFields DEF Rv!Mnemonic
<1>5. Rv!Effect
  BY <1>3, <1>4 DEF Rv!Effect
<1>6. ~Rv!BadOperand
  BY <1>4 DEF Rv!BadOperand
<1> QED BY <1>1, <1>3, <1>4, <1>5, <1>6, StepExecutes

LEMMA StepAuipc == TypeOK /\ Auipc => Rv!Next
<1> SUFFICES ASSUME TypeOK, Auipc PROVE Rv!Next
  OBVIOUS
<1> DEFINE imm == read_upper_immediate(raw)
<1>1. /\ Fetched /\ Opcode(raw) = 23 /\ Write(Rd(raw), Add(pc, imm))
      /\ Continue(NextPc) /\ UNCHANGED mem
  BY DEF Auipc, Executing, op_auipc
<1>2. imm \in Words /\ pc \in Words /\ Add(pc, imm) \in Words
  BY Immediates, PcWord, WordOperations
<1>3. Signed(Add(pc, imm)) = Rv!Plus(Signed(pc), Rv!ImmU)
  BY <1>1, <1>2, RvImmediates, PlusAdds
<1>4. Rv!Compute(Rv!Plus(Signed(pc), Rv!ImmU)) /\ prot' = prot /\ status' = status
  BY <1>1, <1>2, <1>3, ComputeIs
<1>5. Rv!Mnemonic = "auipc"
  BY <1>1, SameFields DEF Rv!Mnemonic
<1>6. Rv!Effect
  BY <1>4, <1>5 DEF Rv!Effect
<1>7. ~Rv!BadOperand
  BY <1>5 DEF Rv!BadOperand
<1> QED BY <1>1, <1>4, <1>5, <1>6, <1>7, StepExecutes

-----------------------------------------------------------------------------
(* Arithmetic with an immediate.                                           *)
LEMMA StepComputes ==
  ASSUME TypeOK, Fetched, NEW v \in Words, Write(Rd(raw), v), Continue(NextPc), UNCHANGED mem,
         NEW number, Rd(raw) # 0 => number = Signed(v),
         Rv!Compute(number) => Rv!Effect, Rv!Mnemonic \notin {"reserved", "lbu", "sb", "sw"}
  PROVE  Rv!Next
<1>1. Rv!Compute(number) /\ prot' = prot /\ status' = status
  BY ComputeIs
<1>2. ~Rv!BadOperand
  BY DEF Rv!BadOperand
<1> QED BY <1>1, <1>2, StepExecutes

LEMMA StepOpImm == TypeOK /\ ~SignAtStake /\ OpImm => Rv!Next
<1> SUFFICES ASSUME TypeOK, ~SignAtStake, OpImm PROVE Rv!Next
  OBVIOUS
<1> DEFINE imm == read_i_immediate(raw)
           src == Read(Rs1(raw))
           a == Rv!Reg(Rv!rs1)
           b == Rv!ImmI
           n == Rv!rs2
<1>1. /\ Fetched /\ Opcode(raw) = 19 /\ Write(Rd(raw), ImmResult)
      /\ Continue(NextPc) /\ UNCHANGED mem /\ "returns" \in DasmOutcomes(raw, NDEBUG)
  BY DEF OpImm, Executing, op_imm
<1>2. /\ imm \in Words /\ src \in Words /\ a = Signed(src) /\ b = Signed(imm)
      /\ n = read_shift_immediate(raw) /\ n \in 0..31
      /\ Rv!op = 19 /\ Rv!funct3 = Funct3(raw) /\ Funct3(raw) \in 0..7
  BY <1>1, SameFields, RegIs, RvImmediates, Immediates
<1>11. /\ Add(src, imm) \in Words /\ Xor(src, imm) \in Words
       /\ src \union imm \in Words /\ src \cap imm \in Words
  BY <1>2, WordOperations
<1>3. CASE Funct3(raw) = 0
  <2>1. Rv!Mnemonic = "addi"
    BY <1>2, <1>3 DEF Rv!Mnemonic, Rv!Named
  <2>2. ImmResult = Add(src, imm) /\ ImmResult \in Words
    BY <1>11, <1>3 DEF ImmResult
  <2>3. Signed(ImmResult) = Rv!Plus(a, b)
    BY <1>2, <2>2, PlusAdds
  <2>4. Rv!Compute(Rv!Plus(a, b)) => Rv!Effect
    BY <2>1 DEF Rv!Effect
  <2> QED BY <1>1, <2>1, <2>2, <2>3, <2>4, StepComputes
<1>4. CASE Funct3(raw) = 1
  <2>1. Rv!Mnemonic = IF Rv!funct7 = 0 THEN "slli" ELSE "reserved"
    BY <1>2, <1>4 DEF Rv!Mnemonic, Rv!Named, Rv!WithFunct7
  <2>2. ImmResult = Shl(src, n) /\ ImmResult \in Words
    BY <1>2, <1>4, Shifted DEF ImmResult
  <2>3. Signed(ImmResult) = Rv!ShiftLeft(a, n)
    BY <1>2, <2>2, ShiftLeftIs
  <2>4. CASE Rv!Mnemonic = "slli"
    <3>1. Rv!Compute(Rv!ShiftLeft(a, n)) => Rv!Effect
      BY <2>4 DEF Rv!Effect
    <3> QED BY <1>1, <2>2, <2>3, <2>4, <3>1, StepComputes
  <2> QED BY <1>1, <2>1, <2>4, StepUnspecified
<1>5. CASE Funct3(raw) = 2
  <2>1. Rv!Mnemonic = "slti"
    BY <1>2, <1>5 DEF Rv!Mnemonic, Rv!Named
  <2>2. ImmResult = Bool(SLess(src, imm))
    BY <1>5 DEF ImmResult
  <2>3. Rv!Truth(Rv!Less(a, b)) = Signed(ImmResult) /\ ImmResult \in Words
    <3>1. Rv!Less(a, b) <=> SLess(src, imm)
      BY <1>2, ComparisonsAre
    <3>2. Rv!Truth(Rv!Less(a, b)) = Rv!Truth(SLess(src, imm))
      BY <3>1 DEF Rv!Truth
    <3>3. SLess(src, imm) \in BOOLEAN
      BY DEF SLess, ULess
    <3> QED BY <1>2, <2>2, <3>2, <3>3, ComparisonsAre
  <2>4. Rv!Compute(Rv!Truth(Rv!Less(a, b))) => Rv!Effect
    BY <2>1 DEF Rv!Effect
  <2> QED BY <1>1, <2>1, <2>3, <2>4, StepComputes
<1>6. CASE Funct3(raw) = 3
  <2>1. Rv!Mnemonic = "sltiu"
    BY <1>2, <1>6 DEF Rv!Mnemonic, Rv!Named
  <2>2. ImmResult = Bool(ULess(src, imm))
    BY <1>6 DEF ImmResult
  <2>3. Rv!Truth(Rv!Below(a, b)) = Signed(ImmResult) /\ ImmResult \in Words
    <3>1. Rv!Below(a, b) <=> ULess(src, imm)
      BY <1>2, ComparisonsAre
    <3>2. Rv!Truth(Rv!Below(a, b)) = Rv!Truth(ULess(src, imm))
      BY <3>1 DEF Rv!Truth
    <3>3. ULess(src, imm) \in BOOLEAN
      BY DEF ULess
    <3> QED BY <1>2, <2>2, <3>2, <3>3, ComparisonsAre
  <2>4. Rv!Compute(Rv!Truth(Rv!Below(a, b))) => Rv!Effect
    BY <2>1 DEF Rv!Effect
  <2> QED BY <1>1, <2>1, <2>3, <2>4, StepComputes
<1>7. CASE Funct3(raw) = 4
  <2>1. Rv!Mnemonic = "xori"
    BY <1>2, <1>7 DEF Rv!Mnemonic, Rv!Named
  <2>2. ImmResult = Xor(src, imm) /\ ImmResult \in Words
    BY <1>11, <1>7 DEF ImmResult
  <2>3. XorNumber(a, b) = Signed(ImmResult)
    BY <1>2, <2>2, BitwiseIs
  <2>4. Rv!Compute(XorNumber(a, b)) => Rv!Effect
    BY <2>1 DEF Rv!Effect, XorNumber
  <2> QED BY <1>1, <2>1, <2>2, <2>3, <2>4, StepComputes
<1>8. CASE Funct3(raw) = 5
  <2>1. NDEBUG
    BY <1>1, <1>8 DEF DasmOutcomes, DasmAsserts, op_imm
  <2>2. Rv!funct7 = Funct7(raw) /\ (Funct7(raw) < 64 <=> 31 \notin raw)
    BY <1>1, SameFields
  <2>3. Rv!Mnemonic = IF Rv!funct7 = 32 THEN "srai" ELSE IF Rv!funct7 = 0 THEN "srli" ELSE "reserved"
    BY <1>2, <1>8 DEF Rv!Mnemonic, Rv!Named, Rv!WithFunct7
  <2>4. ASSUME 31 \notin raw PROVE ImmResult = Shr(src, n)
    <3>1. 12 \notin imm
      BY <1>1, <2>4, FetchedWord, ImmediateI
    <3>2. ImmResult = ShiftRight(src)
      BY <1>8 DEF ImmResult
    <3>3. SignFill(31 \in src /\ 12 \in imm, 31 - n) = {}
      BY <3>1 DEF SignFill
    <3>4. ShiftRight(src) = Shr(src, n) \union SignFill(31 \in src /\ 12 \in imm, 31 - n)
      BY <1>2 DEF ShiftRight
    <3> QED BY <3>2, <3>3, <3>4
  <2>5. CASE Rv!funct7 = 0
    <3>1. Rv!Mnemonic = "srli"
      BY <2>3, <2>5
    <3>2. ImmResult = Shr(src, n)
      BY <2>2, <2>4, <2>5
    <3>3. Rv!ShiftRightLogical(a, n) = Signed(ImmResult) /\ ImmResult \in Words
      BY <1>2, <3>2, ShiftRightIs
    <3>4. Rv!Compute(Rv!ShiftRightLogical(a, n)) => Rv!Effect
      BY <3>1 DEF Rv!Effect
    <3> QED BY <1>1, <3>1, <3>3, <3>4, StepComputes
  <2>6. CASE Rv!funct7 = 32
    <3>1. Rv!Mnemonic = "srai"
      BY <2>3, <2>6
    <3>2. ImmResult = Shr(src, n)
      BY <2>2, <2>4, <2>6
    <3>3. Rd(raw) # 0 => n = 0 \/ 31 \notin src
      BY <1>1, <1>2, <1>8, <2>1, <2>2, <2>6 DEF SignAtStake, IsSrai, op_imm
    <3>4. Rd(raw) # 0 => Rv!ShiftRightArith(a, n) = Signed(ImmResult)
      BY <1>2, <3>2, <3>3, ShiftRightIs
    <3>5. ImmResult \in Words
      BY <3>2, Shifted
    <3>6. Rv!Compute(Rv!ShiftRightArith(a, n)) => Rv!Effect
      BY <3>1 DEF Rv!Effect
    <3> QED BY <1>1, <3>1, <3>4, <3>5, <3>6, StepComputes
  <2>7. CASE Rv!funct7 # 0 /\ Rv!funct7 # 32
    BY <1>1, <2>3, <2>7, StepUnspecified
  <2> QED BY <2>5, <2>6, <2>7
<1>9. CASE Funct3(raw) = 6
  <2>1. Rv!Mnemonic = "ori"
    BY <1>2, <1>9 DEF Rv!Mnemonic, Rv!Named
  <2>2. ImmResult = src \union imm /\ ImmResult \in Words
    BY <1>11, <1>9 DEF ImmResult
  <2>3. OrNumber(a, b) = Signed(ImmResult)
    BY <1>2, <2>2, BitwiseIs
  <2>4. Rv!Compute(OrNumber(a, b)) => Rv!Effect
    BY <2>1 DEF Rv!Effect, OrNumber
  <2> QED BY <1>1, <2>1, <2>2, <2>3, <2>4, StepComputes
<1>10. CASE Funct3(raw) = 7
  <2>1. Rv!Mnemonic = "andi"
    BY <1>2, <1>10 DEF Rv!Mnemonic, Rv!Named
  <2>2. ImmResult = src \cap imm /\ ImmResult \in Words
    BY <1>11, <1>10 DEF ImmResult
  <2>3. AndNumber(a, b) = Signed(ImmResult)
    BY <1>2, <2>2, BitwiseIs
  <2>4. Rv!Compute(AndNumber(a, b)) => Rv!Effect
    BY <2>1 DEF Rv!Effect, AndNumber
  <2> QED BY <1>1, <2>1, <2>2, <2>3, <2>4, StepComputes
<1> QED BY <1>2, <1>3, <1>4, <1>5, <1>6, <1>7, <1>8, <1>9, <1>10

-----------------------------------------------------------------------------
(* Register arithmetic and branches.                                       *)
LEMMA Unsupported ==
  /\ {"lb", "lh", "lw", "lhu", "sh", "blt", "bge", "fence", "system", "reserved", "sll", "slt",
      "sltu", "xor", "srl", "sra", "and"} \cap Promised = {}
  /\ ~NDEBUG => {"srli", "srai"} \cap Promised = {}
BY DEF Promised, Shifts

LEMMA StepOpOp == TypeOK /\ OpOp => Rv!Next
<1> SUFFICES ASSUME TypeOK, OpOp PROVE Rv!Next
  OBVIOUS
<1> DEFINE s1 == Read(Rs1(raw))
           s2 == Read(Rs2(raw))
           a == Rv!Reg(Rv!rs1)
           b == Rv!Reg(Rv!rs2)
<1>1. Fetched /\ Opcode(raw) = 51
  BY DEF OpOp, Executing, op_op
<1>2. /\ s1 \in Words /\ s2 \in Words /\ a = Signed(s1) /\ b = Signed(s2)
      /\ Rv!op = 51 /\ Rv!funct3 = Funct3(raw) /\ Funct3(raw) \in 0..7
      /\ Rv!funct7 = Funct7(raw)
  BY <1>1, SameFields, RegIs
<1>3. CASE Funct3(raw) = 6
  <2>1. /\ Write(Rd(raw), s1 \union s2) /\ Continue(NextPc) /\ UNCHANGED mem
        /\ s1 \union s2 \in Words
    <3>1. Write(Rd(raw), s1 \union s2) /\ Continue(NextPc) /\ UNCHANGED mem
      BY <1>3 DEF OpOp
    <3>2. s1 \union s2 \in Words
      BY <1>2, WordOperations
    <3> QED BY <3>1, <3>2
  <2>2. CASE Rv!funct7 = 0
    <3>1. Rv!Mnemonic = "or"
      BY <1>2, <1>3, <2>2 DEF Rv!Mnemonic, Rv!Named
    <3>2. OrNumber(a, b) = Signed(s1 \union s2)
      BY <1>2, BitwiseIs
    <3>3. Rv!Compute(OrNumber(a, b)) => Rv!Effect
      BY <3>1 DEF Rv!Effect, OrNumber
    <3> QED BY <1>1, <2>1, <3>1, <3>2, <3>3, StepComputes
  <2>3. CASE Rv!funct7 # 0
    <3>1. Rv!Mnemonic = "reserved"
      BY <1>2, <1>3, <2>3 DEF Rv!Mnemonic
    <3> QED BY <1>1, <3>1, StepUnspecified
  <2> QED BY <2>2, <2>3
<1>4. CASE Funct3(raw) = 0
  <2> DEFINE r == Add(s1, IF Funct7(raw) = 32 THEN Neg(s2) ELSE s2)
  <2>1. /\ Write(Rd(raw), r) /\ Continue(NextPc) /\ UNCHANGED mem
    BY <1>4 DEF OpOp
  <2>2. CASE Rv!funct7 = 0
    <3>1. Rv!Mnemonic = "add"
      BY <1>2, <1>4, <2>2 DEF Rv!Mnemonic, Rv!Named
    <3>2. r = Add(s1, s2) /\ r \in Words
      <4>1. r = Add(s1, s2)
        BY <1>2, <2>2
      <4> QED BY <1>2, <4>1, WordOperations
    <3>3. Rv!Plus(a, b) = Signed(r)
      BY <1>2, <3>2, PlusAdds
    <3>4. Rv!Compute(Rv!Plus(a, b)) => Rv!Effect
      BY <3>1 DEF Rv!Effect
    <3> QED BY <1>1, <2>1, <3>1, <3>2, <3>3, <3>4, StepComputes
  <2>3. CASE Rv!funct7 = 32
    <3>1. Rv!Mnemonic = "sub"
      BY <1>2, <1>4, <2>3 DEF Rv!Mnemonic
    <3>2. r = Add(s1, Neg(s2)) /\ r \in Words
      <4>1. r = Add(s1, Neg(s2))
        BY <1>2, <2>3
      <4>2. Neg(s2) \in Words
        BY <1>2, WordOperations
      <4> QED BY <1>2, <4>1, <4>2, WordOperations
    <3>3. Rv!Minus(a, b) = Signed(r)
      BY <1>2, <3>2, MinusIs
    <3>4. Rv!Compute(Rv!Minus(a, b)) => Rv!Effect
      BY <3>1 DEF Rv!Effect
    <3> QED BY <1>1, <2>1, <3>1, <3>2, <3>3, <3>4, StepComputes
  <2>4. CASE Rv!funct7 # 0 /\ Rv!funct7 # 32
    <3>1. Rv!Mnemonic = "reserved"
      BY <1>2, <1>4, <2>4 DEF Rv!Mnemonic
    <3> QED BY <1>1, <3>1, StepUnspecified
  <2> QED BY <2>2, <2>3, <2>4
<1>5. CASE Funct3(raw) \notin {0, 6}
  <2>1. NotImplemented
    BY <1>5 DEF OpOp
  <2>2. Rv!Mnemonic \in {"sll", "slt", "sltu", "xor", "srl", "sra", "and", "reserved"}
    BY <1>2, <1>5 DEF Rv!Mnemonic, Rv!Named
  <2>3. Rv!Mnemonic \notin Promised
    BY <2>2, Unsupported
  <2> QED BY <1>1, <2>1, <2>3, StepPassesOver
<1> QED BY <1>3, <1>4, <1>5

LEMMA StepBranch == TypeOK /\ Branch => Rv!Next
<1> SUFFICES ASSUME TypeOK, Branch PROVE Rv!Next
  OBVIOUS
<1> DEFINE s1 == Read(Rs1(raw))
           s2 == Read(Rs2(raw))
           a == Rv!Reg(Rv!rs1)
           b == Rv!Reg(Rv!rs2)
           imm == read_b_immediate(raw)
           taken == Taken(Funct3(raw), s1, s2)
           target == IF taken THEN Add(pc, imm) ELSE NextPc
           Number(p) == IF p THEN Rv!Plus(Signed(pc), Rv!ImmB) ELSE Rv!Plus(Signed(pc), 4)
<1>1. Fetched /\ Opcode(raw) = 99
  BY DEF Branch, Executing, op_branch
<1>2. /\ s1 \in Words /\ s2 \in Words /\ a = Signed(s1) /\ b = Signed(s2)
      /\ Rv!op = 99 /\ Rv!funct3 = Funct3(raw) /\ Funct3(raw) \in 0..7
  BY <1>1, SameFields, RegIs
<1>3. CASE Funct3(raw) \in {4, 5}
  <2>1. NotImplemented
    BY <1>3 DEF Branch
  <2>2. Rv!Mnemonic \in {"blt", "bge"}
    BY <1>2, <1>3 DEF Rv!Mnemonic, Rv!Named
  <2>3. Rv!Mnemonic \notin Promised
    BY <2>2, Unsupported
  <2> QED BY <1>1, <2>1, <2>3, StepPassesOver
<1>4. CASE Funct3(raw) \notin {4, 5}
  <2>1. Continue(target) /\ UNCHANGED <<registers, mem>>
    BY <1>4 DEF Branch
  <2>2. /\ pc \in Words /\ imm \in Words /\ Add(pc, imm) \in Words /\ NextPc \in Words
        /\ Signed(Add(pc, imm)) = Rv!Plus(Signed(pc), Rv!ImmB)
        /\ Signed(NextPc) = Rv!Plus(Signed(pc), 4)
    <3>1. pc \in Words /\ imm \in Words /\ Add(pc, imm) \in Words
      BY Immediates, PcWord, WordOperations
    <3> QED BY <1>1, <3>1, RvImmediates, PlusAdds, NextPcIs
  <2>3. target \in Words /\ Signed(target) = Number(taken)
    BY <2>2
  <2>4. prot' = prot /\ status' = status /\ Rv!Go(Number(taken))
    BY <2>1, <2>3, GoIs
  <2>5. ASSUME NEW p, p <=> taken PROVE Rv!BranchIf(p)
    <3>1. Number(taken) = Number(p)
      BY <2>5
    <3>2. Rv!Go(Number(p))
      BY <2>4, <3>1
    <3> QED BY <2>1, <3>2, MemoryKept DEF Rv!BranchIf
  <2>6. CASE Funct3(raw) = 0
    <3>1. Rv!Mnemonic = "beq"
      BY <1>2, <2>6 DEF Rv!Mnemonic, Rv!Named
    <3>2. a = b <=> taken
      BY <1>2, <2>6, SignedSame DEF Taken
    <3>3. Rv!BranchIf(a = b)
      BY <2>5, <3>2
    <3>4. Rv!Effect /\ ~Rv!BadOperand
      BY <3>1, <3>3 DEF Rv!Effect, Rv!BadOperand
    <3> QED BY <1>1, <2>4, <3>1, <3>4, StepExecutes
  <2>7. CASE Funct3(raw) = 1
    <3>1. Rv!Mnemonic = "bne"
      BY <1>2, <2>7 DEF Rv!Mnemonic, Rv!Named
    <3>2. a # b <=> taken
      BY <1>2, <2>7, SignedSame DEF Taken
    <3>3. Rv!BranchIf(a # b)
      BY <2>5, <3>2
    <3>4. Rv!Effect /\ ~Rv!BadOperand
      BY <3>1, <3>3 DEF Rv!Effect, Rv!BadOperand
    <3> QED BY <1>1, <2>4, <3>1, <3>4, StepExecutes
  <2>8. CASE Funct3(raw) = 6
    <3>1. Rv!Mnemonic = "bltu"
      BY <1>2, <2>8 DEF Rv!Mnemonic, Rv!Named
    <3>2. Rv!Below(a, b) <=> taken
      <4>1. taken <=> ULess(s1, s2)
        BY <2>8 DEF Taken
      <4> QED BY <1>2, <4>1, ComparisonsAre
    <3>3. Rv!BranchIf(Rv!Below(a, b))
      BY <2>5, <3>2
    <3>4. Rv!Effect /\ ~Rv!BadOperand
      BY <3>1, <3>3 DEF Rv!Effect, Rv!BadOperand
    <3> QED BY <1>1, <2>4, <3>1, <3>4, StepExecutes
  <2>9. CASE Funct3(raw) = 7
    <3>1. Rv!Mnemonic = "bgeu"
      BY <1>2, <2>9 DEF Rv!Mnemonic, Rv!Named
    <3>2. ~Rv!Below(a, b) <=> taken
      <4>1. taken <=> ~ULess(s1, s2)
        BY <2>9 DEF Taken
      <4> QED BY <1>2, <4>1, ComparisonsAre
    <3>3. Rv!BranchIf(~Rv!Below(a, b))
      BY <2>5, <3>2
    <3>4. Rv!Effect /\ ~Rv!BadOperand
      BY <3>1, <3>3 DEF Rv!Effect, Rv!BadOperand
    <3> QED BY <1>1, <2>4, <3>1, <3>4, StepExecutes
  <2>10. CASE Funct3(raw) \in {2, 3}
    <3>1. Rv!Mnemonic = "reserved"
      BY <1>2, <2>10 DEF Rv!Mnemonic, Rv!Named
    <3> QED BY <1>1, <3>1, StepUnspecified
  <2> QED BY <1>2, <1>4, <2>6, <2>7, <2>8, <2>9, <2>10
<1> QED BY <1>3, <1>4

-----------------------------------------------------------------------------
(* What ends the process, and what has no code.                            *)
LEMMA StepMisaligned == TypeOK /\ Misaligned => Rv!Next
<1> SUFFICES ASSUME TypeOK, Misaligned PROVE Rv!Next
  OBVIOUS
<1>1. ~Rv!Fetchable
  BY PcWord, AlignedMeans DEF Misaligned, Rv!Fetchable
<1> QED BY <1>1, StepGivesUp DEF Misaligned

LEMMA StepRefused ==
  ASSUME TypeOK, status = "running", NEW addr, Refused(addr),
         Rv!Fetchable => Rv!BadOperand \/ Rv!Mnemonic \notin Promised
  PROVE  Rv!Next
<1>1. Stop("segv") \/ Stop("wild")
  BY DEF Refused
<1> QED BY <1>1, StepGivesUp

LEMMA StepFetchFault == TypeOK /\ FetchFault => Rv!Next
<1> SUFFICES ASSUME TypeOK, FetchFault PROVE Rv!Next
  OBVIOUS
<1>1. ~Rv!Fetchable
  BY PcWord, Permissions DEF FetchFault, Rv!Fetchable
<1> QED BY <1>1, StepRefused DEF FetchFault

LEMMA StepNamelessOpcode ==
  ASSUME TypeOK, Fetched, Opcode(raw) \notin Implemented
  PROVE  /\ Rv!Mnemonic \in {"fence", "reserved"}
         /\ Opcode(raw) # 15 => Rv!Mnemonic = "reserved"
<1>1. Rv!op \notin {3, 19, 23, 35, 51, 55, 99, 103, 111, 115}
  BY SameFields DEF Implemented, op_load, op_imm, op_auipc, op_store, op_op, op_lui,
                op_branch, op_jalr, op_jal, op_system
<1>2. Rv!op = Opcode(raw)
  BY SameFields
<1> QED BY <1>1, <1>2 DEF Rv!Mnemonic

LEMMA StepDasmStops == TypeOK /\ DasmStops => Rv!Next
<1> SUFFICES ASSUME TypeOK, DasmStops PROVE Rv!Next
  OBVIOUS
<1>1. Fetched /\ status = "running"
  BY DEF DasmStops, Fetched
<1>2. /\ Rv!op = Opcode(raw) /\ Rv!funct3 = Funct3(raw) /\ Funct3(raw) \in 0..7
  BY <1>1, SameFields
<1>3. PICK how \in DasmOutcomes(raw, NDEBUG) \ {"returns"} : Stop(how)
  BY DEF DasmStops
<1>4. \/ how = "aborted" /\ DasmAsserts(raw) /\ ~NDEBUG
      \/ how = "segv" /\ DasmOverruns(raw)
  BY <1>3 DEF DasmOutcomes
<1>5. ASSUME DasmAsserts(raw), ~NDEBUG PROVE Rv!Mnemonic \notin Promised
  <2>1. CASE Opcode(raw) \in OtherOps
    <3>1. Opcode(raw) \notin Implemented
      BY <2>1 DEF OtherOps, Implemented, op_load, op_imm, op_auipc, op_store, op_op, op_lui,
                  op_branch, op_jalr, op_jal, op_system
    <3> QED BY <1>1, <3>1, StepNamelessOpcode, Unsupported
  <2>2. CASE Opcode(raw) = op_imm /\ Funct3(raw) = 5
    <3>1. Rv!Mnemonic \in {"srli", "srai", "reserved"}
      BY <1>2, <2>2 DEF op_imm, Rv!Mnemonic, Rv!Named, Rv!WithFunct7
    <3> QED BY <1>5, <3>1, Unsupported
  <2> QED BY <1>5, <2>1, <2>2 DEF DasmAsserts
<1>6. ASSUME DasmOverruns(raw) PROVE Rv!Mnemonic \notin Promised
  <2>1. Rv!Mnemonic = "reserved"
    BY <1>2, <1>6 DEF DasmOverruns, op_load, op_store, Rv!Mnemonic, Rv!Named
  <2> QED BY <2>1, Unsupported
<1> QED BY <1>1, <1>3, <1>4, <1>5, <1>6, StepGivesUp

LEMMA StepIllegalZero == TypeOK /\ IllegalZero => Rv!Next
<1> SUFFICES ASSUME TypeOK, IllegalZero PROVE Rv!Next
  OBVIOUS
<1>1. Fetched /\ raw = {} /\ Stop("trapped") /\ status = "running"
  BY DEF IllegalZero, Fetched, ZeroW
<1>2. Opcode(raw) = 0
  BY <1>1, ValueEmpty DEF Opcode
<1>3. Opcode(raw) \notin Implemented
  BY <1>2 DEF Implemented, op_load, op_imm, op_auipc, op_store, op_op, op_lui,
              op_branch, op_jalr, op_jal, op_system
<1>4. Rv!Mnemonic \notin Promised
  BY <1>1, <1>3, StepNamelessOpcode, Unsupported
<1> QED BY <1>1, <1>4, StepGivesUp

LEMMA StepSystem == TypeOK /\ System => Rv!Next
<1> SUFFICES ASSUME TypeOK, System PROVE Rv!Next
  OBVIOUS
<1>1. Fetched /\ Opcode(raw) = 115 /\ NotImplemented
  BY DEF System, Executing, op_system
<1>2. Rv!Mnemonic = "system"
  BY <1>1, SameFields DEF Rv!Mnemonic
<1> QED BY <1>1, <1>2, Unsupported, StepPassesOver

LEMMA StepUnimplemented == TypeOK /\ Unimplemented => Rv!Next
<1> SUFFICES ASSUME TypeOK, Unimplemented PROVE Rv!Next
  OBVIOUS
<1>1. Fetched /\ Opcode(raw) \in OtherOps /\ NotImplemented
  BY DEF Unimplemented, Executing
<1>2. Opcode(raw) \notin Implemented
  BY <1>1 DEF OtherOps, Implemented, op_load, op_imm, op_auipc, op_store, op_op, op_lui,
              op_branch, op_jalr, op_jal, op_system
<1> QED BY <1>1, <1>2, StepNamelessOpcode, Unsupported, StepPassesOver

LEMMA StepSkip == TypeOK /\ Skip => Rv!Next
<1> SUFFICES ASSUME TypeOK, Skip PROVE Rv!Next
  OBVIOUS
<1>1. Fetched /\ Opcode(raw) \notin Implemented /\ Opcode(raw) \notin OtherOps
  BY DEF Skip, Executing
<1>2. Opcode(raw) # 15
  BY <1>1 DEF OtherOps
<1> QED BY <1>1, <1>2, StepNamelessOpcode, StepUnspecified

-----------------------------------------------------------------------------
(* Bytes of words.                                                         *)
LEMMA ByteField ==
  ASSUME NEW w \in Words, NEW k \in 0..3
  PROVE  Field(w, 8 * k + 7, 8 * k) \in Words
         /\ Signed(Field(w, 8 * k + 7, 8 * k)) = Value(Shr(w, 8 * k), 8)
<1> DEFINE lo == 8 * k
           hi == 8 * k + 7
           f == Field(w, hi, lo)
<1>1. hi \in Bits /\ lo \in 0..hi /\ lo \in Nat /\ hi = lo + 7
  BY DEF Bits
<1> HIDE DEF lo, hi
<1>2. \A i \in Bits : i \in f <=> i + lo \in w /\ i + lo <= hi
  BY <1>1, FieldBit
<1>3. \A i \in Bits : i \in Shr(w, lo) <=> i + lo \in w
  BY <1>1, ShrBit
<1>4. f \in Words
  BY Shifted
<1>5. \A i \in 0..(8 - 1) : i \in Bits /\ i + lo <= hi
  BY <1>1 DEF Bits
<1>6. \A i \in Bits : i + lo <= hi => i < 8
  BY <1>1 DEF Bits
<1> HIDE DEF f
<1>7. \A i \in 0..(8 - 1) : i \in f <=> i \in Shr(w, lo)
  BY <1>2, <1>3, <1>5
<1>8. \A i \in f : i < 8
  BY <1>2, <1>4, <1>6 DEF Words
<1>9. Value(f, 8) = Value(Shr(w, lo), 8)
  BY <1>7, ValueAgree
<1>10. Signed(f) = Value(f, 8)
  BY <1>8, SignedSmall
<1> QED BY <1>4, <1>9, <1>10 DEF f, lo, hi

LEMMA ByteAtIs ==
  ASSUME NEW w \in Words, NEW i \in 0..3
  PROVE  Rv!ByteAt(Signed(w), i) = Value(Shr(w, 8 * i), 8)
<1>1. 8 * i \in 0..24
  OBVIOUS
<1> QED BY <1>1, ByteOfSigned DEF Rv!ByteAt, Power

LEMMA StoredByte ==
  ASSUME NEW w \in Words, NEW v \in Words, NEW k \in 0..3,
         NEW s, s = (w \ ((8 * k)..(8 * k + 7))) \union Shl(Field(v, 7, 0), 8 * k)
  PROVE  /\ s \in Words
         /\ Value(Shr(s, 8 * k), 8) = Value(Shr(v, 8 * 0), 8)
         /\ \A j \in 0..3 : j # k => Value(Shr(s, 8 * j), 8) = Value(Shr(w, 8 * j), 8)
<1> DEFINE f == Field(v, 7, 0)
<1>1. \A i \in Bits : i \in f <=> i \in v /\ i <= 7
  <2>1. 7 \in Bits /\ 0 \in 0..7
    BY DEF Bits
  <2>2. \A i \in Bits : i + 0 = i
    BY DEF Bits
  <2>3. \A i \in Bits : i \in f <=> i + 0 \in v /\ i + 0 <= 7
    BY <2>1, FieldBit
  <2> QED BY <2>2, <2>3
<1>2. f \in Words /\ f \subseteq Bits
  BY Shifted DEF Words
<1>3. s \in Words
  <2>1. Shl(f, 8 * k) \in Words
    BY Shifted
  <2> QED BY <2>1 DEF Words
<1>4. \A i \in Bits : i \in Shl(f, 8 * k) <=> i - 8 * k \in f
  <2>1. 8 * k \in Nat
    OBVIOUS
  <2> QED BY <1>2, <2>1, ShlBit
<1> HIDE DEF f
<1>5. \A i \in Bits : i \in s <=> \/ i \in w /\ ~(8 * k <= i /\ i <= 8 * k + 7)
                                  \/ i - 8 * k \in f
  <2>1. SUFFICES ASSUME NEW i \in Bits
                 PROVE  i \in s <=> \/ i \in w /\ ~(8 * k <= i /\ i <= 8 * k + 7)
                                   \/ i - 8 * k \in f
    OBVIOUS
  <2>2. i \in (8 * k)..(8 * k + 7) <=> 8 * k <= i /\ i <= 8 * k + 7
    BY DEF Bits
  <2>3. i \in Shl(f, 8 * k) <=> i - 8 * k \in f
    BY <1>4
  <2>4. i \in s <=> i \in (w \ ((8 * k)..(8 * k + 7))) \/ i \in Shl(f, 8 * k)
    BY DEF f
  <2> QED BY <2>2, <2>3, <2>4
<1>6. ASSUME NEW j \in 0..3 PROVE \A i \in Bits : i \in Shr(s, 8 * j) <=> i + 8 * j \in s
  <2>1. 8 * j \in Nat
    OBVIOUS
  <2> QED BY <1>3, <2>1, ShrBit
<1>7. Value(Shr(s, 8 * k), 8) = Value(v, 8)
  <2>1. ASSUME NEW i \in 0..(8 - 1) PROVE i \in Shr(s, 8 * k) <=> i \in v
    <3>1. i \in Bits /\ i + 8 * k \in Bits /\ (i + 8 * k) - 8 * k = i
      BY DEF Bits
    <3>2. 8 * k <= i + 8 * k /\ i + 8 * k <= 8 * k + 7 /\ i <= 7
      OBVIOUS
    <3>3. i \in Shr(s, 8 * k) <=> i + 8 * k \in s
      BY <1>6, <3>1
    <3>4. i + 8 * k \in s <=> i \in f
      BY <1>5, <3>1, <3>2
    <3> QED BY <1>1, <3>1, <3>2, <3>3, <3>4
  <2> QED BY <2>1, ValueAgree
<1>8. Shr(v, 8 * 0) = v
  BY Halves
<1>9. ASSUME NEW j \in 0..3, j # k PROVE Value(Shr(s, 8 * j), 8) = Value(Shr(w, 8 * j), 8)
  <2>1. ASSUME NEW i \in 0..(8 - 1) PROVE i \in Shr(s, 8 * j) <=> i \in Shr(w, 8 * j)
    <3>1. i \in Bits /\ i + 8 * j \in Bits /\ 8 * j \in Nat
      BY DEF Bits
    <3>2. ~(8 * k <= i + 8 * j /\ i + 8 * j <= 8 * k + 7)
      BY <1>9
    <3>3. (i + 8 * j) - 8 * k \notin f
      <4>1. ASSUME (i + 8 * j) - 8 * k \in f PROVE FALSE
        <5>1. (i + 8 * j) - 8 * k \in Bits /\ (i + 8 * j) - 8 * k <= 7
          BY <1>1, <1>2, <4>1
        <5> QED BY <3>2, <5>1 DEF Bits
      <4> QED BY <4>1
    <3>4. i + 8 * j \in s <=> i + 8 * j \in w
      BY <1>5, <3>1, <3>2, <3>3
    <3>5. i \in Shr(w, 8 * j) <=> i + 8 * j \in w
      BY <3>1, ShrBit
    <3> QED BY <1>6, <3>1, <3>4, <3>5
  <2> QED BY <2>1, ValueAgree
<1> QED BY <1>3, <1>7, <1>8, <1>9

(* An access of n bytes at A stays in one word; the word s is w with the   *)
(* bytes of the number in it; and so is memory, as bytes.                  *)
OneWord(A, n) == \A a \in A..(A + n - 1) : a \div 4 = A \div 4
WordWith(s, w, A, n, number) ==
  \A j \in 0..3 : LET a == 4 * (A \div 4) + j IN
    Value(Shr(s, 8 * j), 8) = IF a \in A..(A + n - 1) THEN Rv!ByteAt(number, a - A)
                              ELSE Value(Shr(w, 8 * j), 8)
BytesWith(A, n, number) ==
  [a \in 0..(MemBytes - 1) |->
     IF a \in A..(A + n - 1) THEN Rv!ByteAt(number, a - A) ELSE ByteIn(mem, a)]
AsBytes(memory) == [a \in 0..(MemBytes - 1) |-> ByteIn(memory, a)]

LEMMA MemoryAfter ==
  ASSUME TypeOK, NEW addr \in Words, Inside(addr), NEW s,
         mem' = [mem EXCEPT ![WordOf(addr)] = s], NEW n, NEW number,
         OneWord(Signed(addr), n),
         WordWith(s, mem[WordOf(addr)], Signed(addr), n, number)
  PROVE  AsBytes(mem') = BytesWith(Signed(addr), n, number)
<1> DEFINE A == Signed(addr)
           base == 4 * (A \div 4)
<1>1. /\ \A a \in A..(A + n - 1) : a \div 4 = A \div 4
      /\ \A j \in 0..3 : Value(Shr(s, 8 * j), 8)
                           = IF base + j \in A..(A + n - 1) THEN Rv!ByteAt(number, (base + j) - A)
                             ELSE Value(Shr(mem[WordOf(addr)], 8 * j), 8)
  BY DEF OneWord, WordWith
<1>2. A \in 0..(MemBytes - 1) /\ WordOf(addr) = A \div 4 /\ WordOf(addr) \in Image
  BY Accesses
<1>3. base = 4 * (A \div 4) /\ A = Signed(addr)
  OBVIOUS
<1> HIDE DEF A, base
<1> SUFFICES ASSUME NEW a \in 0..(MemBytes - 1)
             PROVE  ByteIn(mem', a)
                      = IF a \in A..(A + n - 1) THEN Rv!ByteAt(number, a - A) ELSE ByteIn(mem, a)
  BY <1>3 DEF BytesWith, AsBytes
<1>4. /\ a \in Nat /\ a < MemBytes /\ MemBytes = 4 * ImageWords /\ ImageWords \in Nat
  BY InsideMeans
<1>5. a \div 4 \in Image
  BY <1>4 DEF Image
<1>6. a = 4 * (a \div 4) + (a % 4) /\ a % 4 \in 0..3
  BY <1>4
<1>7. CASE a \div 4 = A \div 4
  <2> DEFINE j == a % 4
  <2>1. a = base + j /\ j \in 0..3
    BY <1>6, <1>7, <1>3
  <2>2. mem'[a \div 4] = s
    BY <1>2, <1>5, <1>7 DEF TypeOK
  <2>3. ByteIn(mem', a) = Value(Shr(s, 8 * j), 8)
    BY <2>2 DEF ByteIn
  <2>4. ByteIn(mem, a) = Value(Shr(mem[WordOf(addr)], 8 * j), 8)
    BY <1>2, <1>7 DEF ByteIn
  <2> HIDE DEF j
  <2> QED BY <1>1, <2>1, <2>3, <2>4
<1>8. CASE a \div 4 # A \div 4
  <2>1. mem'[a \div 4] = mem[a \div 4]
    BY <1>2, <1>5, <1>8 DEF TypeOK
  <2>2. ByteIn(mem', a) = ByteIn(mem, a)
    BY <2>1 DEF ByteIn
  <2>3. a \notin A..(A + n - 1)
    BY <1>8, <1>1
  <2> QED BY <2>2, <2>3
<1> QED BY <1>7, <1>8

-----------------------------------------------------------------------------
(* Loads and stores.                                                       *)
LEMMA ByteLoaded ==
  ASSUME TypeOK, NEW addr \in Words, Inside(addr), NEW byte,
         byte = Field(mem[WordOf(addr)], 8 * ByteOf(addr) + 7, 8 * ByteOf(addr))
  PROVE  byte \in Words /\ Signed(byte) = Rv!Byte(Signed(addr))
<1> DEFINE A == Signed(addr)
           w == mem[WordOf(addr)]
           k == ByteOf(addr)
<1>1. /\ A \in 0..(MemBytes - 1) /\ WordOf(addr) = A \div 4 /\ WordOf(addr) \in Image
      /\ k = A % 4 /\ k \in 0..3
  <2>1. A \in 0..(MemBytes - 1) /\ WordOf(addr) = A \div 4 /\ WordOf(addr) \in Image /\ k = A % 4
    BY Accesses
  <2>2. MemBytes \in Nat
    BY InsideMeans
  <2>3. A \in Nat
    BY <2>1, <2>2
  <2> HIDE DEF A, k
  <2>4. k \in 0..3
    BY <2>1, <2>3
  <2> QED BY <2>1, <2>4
<1>2. w \in Words
  BY <1>1 DEF TypeOK
<1>3. byte \in Words /\ Signed(byte) = Value(Shr(w, 8 * k), 8)
  <2>1. byte = Field(w, 8 * k + 7, 8 * k)
    OBVIOUS
  <2> HIDE DEF w, k
  <2> QED BY <1>1, <1>2, <2>1, ByteField
<1>4. Rv!Byte(A) = ByteIn(mem, A)
  BY <1>1 DEF Rv!Byte
<1>5. ByteIn(mem, A) = Value(Shr(w, 8 * k), 8)
  BY <1>1 DEF ByteIn
<1> QED BY <1>3, <1>4, <1>5

LEMMA StepLoad == TypeOK /\ Load => Rv!Next
<1> SUFFICES ASSUME TypeOK, Load PROVE Rv!Next
  OBVIOUS
<1> DEFINE imm == sext32_imm12(Imm_11_0(raw))
           src == Read(Rs1(raw))
           addr == Add(src, imm)
           byte == Field(mem[WordOf(addr)], 8 * ByteOf(addr) + 7, 8 * ByteOf(addr))
<1>1. Fetched /\ Opcode(raw) = 3 /\ status = "running"
  BY DEF Load, Executing, op_load, Fetched
<1>2. /\ Rv!op = 3 /\ Rv!funct3 = Funct3(raw) /\ Funct3(raw) \in 0..7
      /\ Rv!rs1 = Rs1(raw) /\ Rs1(raw) \in 0..31
  BY <1>1, SameFields
<1>3. addr \in Words /\ Signed(addr) = Rv!LoadAddr
  <2>1. imm = read_i_immediate(raw)
    BY <1>1, FetchedWord, OwnImmediates
  <2>2. imm \in Words /\ Signed(imm) = Rv!ImmI
    BY <1>1, <2>1, Immediates, RvImmediates
  <2>3. src \in Words /\ Signed(src) = Rv!Reg(Rv!rs1)
    BY <1>2, RegIs
  <2>4. addr \in Words
    BY <2>2, <2>3, WordOperations
  <2> HIDE DEF imm, src
  <2> QED BY <2>2, <2>3, <2>4, PlusAdds DEF Rv!LoadAddr
<1>4. \/ /\ Funct3(raw) = 4 /\ MayRead(addr)
         /\ Write(Rd(raw), byte)
         /\ Continue(NextPc)
         /\ UNCHANGED mem
      \/ Funct3(raw) = 4 /\ ~MayRead(addr) /\ Refused(addr)
      \/ Funct3(raw) \in {0, 1, 2, 5} /\ NotImplemented
      \/ Funct3(raw) \in {3, 6, 7}
  BY DEF Load
<1> HIDE DEF imm, src, addr, byte
<1>5. CASE Funct3(raw) = 4 /\ MayRead(addr) /\ Write(Rd(raw), byte) /\ Continue(NextPc)
           /\ UNCHANGED mem
  <2>1. Rv!Mnemonic = "lbu"
    BY <1>2, <1>5 DEF Rv!Mnemonic, Rv!Named
  <2>2. byte \in Words /\ Signed(byte) = Rv!Byte(Rv!LoadAddr)
    <3>1. Inside(addr)
      BY <1>5 DEF MayRead
    <3> QED BY <1>3, <3>1, ByteLoaded DEF byte
  <2>3. Rv!Compute(Rv!Byte(Rv!LoadAddr)) /\ prot' = prot /\ status' = status
    BY <1>1, <1>5, <2>2, ComputeIs
  <2>4. Rv!Effect
    BY <2>1, <2>3 DEF Rv!Effect
  <2>5. ~Rv!BadOperand
    BY <1>3, <1>5, <2>1, Permissions DEF Rv!BadOperand
  <2> QED BY <1>1, <2>1, <2>3, <2>4, <2>5, StepExecutes
<1>6. CASE Funct3(raw) = 4 /\ ~MayRead(addr) /\ Refused(addr)
  <2>1. Rv!Mnemonic = "lbu"
    BY <1>2, <1>6 DEF Rv!Mnemonic, Rv!Named
  <2>2. Rv!BadOperand
    BY <1>3, <1>6, <2>1, Permissions DEF Rv!BadOperand
  <2> QED BY <1>1, <1>6, <2>2, StepRefused
<1>7. CASE Funct3(raw) \in {0, 1, 2, 5} /\ NotImplemented
  <2>1. Rv!Mnemonic \in {"lb", "lh", "lw", "lhu"}
    BY <1>2, <1>7 DEF Rv!Mnemonic, Rv!Named
  <2>2. Rv!Mnemonic \notin Promised
    BY <2>1, Unsupported
  <2> QED BY <1>1, <1>7, <2>2, StepPassesOver
<1>8. CASE Funct3(raw) \in {3, 6, 7}
  <2>1. Rv!Mnemonic = "reserved"
    BY <1>2, <1>8 DEF Rv!Mnemonic, Rv!Named
  <2> QED BY <1>1, <2>1, StepUnspecified
<1> QED BY <1>4, <1>5, <1>6, <1>7, <1>8

LEMMA StoreIs ==
  ASSUME TypeOK, Fetched, NEW n, Continue(NextPc), UNCHANGED registers,
         AsBytes(mem') = BytesWith(Rv!StoreAddr, n, Rv!Reg(Rv!rs2))
  PROVE  Rv!StoreBytes(n) /\ prot' = prot /\ status' = status
<1>1. Rv!GoOn /\ prot' = prot /\ status' = status
  BY NextPcIs, GoIs DEF Rv!GoOn
<1> QED BY <1>1 DEF Rv!StoreBytes, BytesWith, AsBytes

(* The word a store leaves, byte by byte.                                  *)
LEMMA WordStored ==
  ASSUME NEW w \in Words, NEW v \in Words, NEW A \in Nat, A % 4 = 0
  PROVE  OneWord(A, 4) /\ WordWith(v, w, A, 4, Signed(v))
<1> DEFINE base == 4 * (A \div 4)
<1>1. A = base /\ base \in Nat /\ A \div 4 \in Nat /\ A = 4 * (A \div 4)
  OBVIOUS
<1>2. \A a \in A..(A + 4 - 1) : a \div 4 = A \div 4
  BY <1>1
<1>3. ASSUME NEW j \in 0..3
      PROVE  Value(Shr(v, 8 * j), 8)
              = IF base + j \in A..(A + 4 - 1) THEN Rv!ByteAt(Signed(v), (base + j) - A)
                ELSE Value(Shr(w, 8 * j), 8)
  <2>1. base + j \in A..(A + 4 - 1) /\ (base + j) - A = j
    BY <1>1
  <2>2. Rv!ByteAt(Signed(v), j) = Value(Shr(v, 8 * j), 8)
    BY ByteAtIs
  <2> QED BY <2>1, <2>2
<1> QED BY <1>2, <1>3 DEF OneWord, WordWith

LEMMA ByteStored ==
  ASSUME NEW w \in Words, NEW v \in Words, NEW A \in Nat, NEW k, k = A % 4
  PROVE  /\ OneWord(A, 1)
         /\ WordWith((w \ ((8 * k)..(8 * k + 7))) \union Shl(Field(v, 7, 0), 8 * k),
                     w, A, 1, Signed(v))
<1> DEFINE base == 4 * (A \div 4)
           s == (w \ ((8 * k)..(8 * k + 7))) \union Shl(Field(v, 7, 0), 8 * k)
<1>1. k \in 0..3 /\ A = base + k /\ base \in Nat
  OBVIOUS
<1>2. /\ Value(Shr(s, 8 * k), 8) = Value(Shr(v, 8 * 0), 8)
      /\ \A j \in 0..3 : j # k => Value(Shr(s, 8 * j), 8) = Value(Shr(w, 8 * j), 8)
  BY <1>1, StoredByte
<1> HIDE DEF s
<1>3. ASSUME NEW j \in 0..3
      PROVE  Value(Shr(s, 8 * j), 8)
              = IF base + j \in A..(A + 1 - 1) THEN Rv!ByteAt(Signed(v), (base + j) - A)
                ELSE Value(Shr(w, 8 * j), 8)
  <2>1. base + j \in A..(A + 1 - 1) <=> j = k
    BY <1>1
  <2>2. j = k => (base + j) - A = 0
    BY <1>1
  <2>3. Rv!ByteAt(Signed(v), 0) = Value(Shr(v, 8 * 0), 8)
    BY ByteAtIs
  <2> QED BY <1>2, <2>1, <2>2, <2>3
<1>4. \A a \in A..(A + 1 - 1) : a = A
  OBVIOUS
<1> QED BY <1>3, <1>4 DEF OneWord, WordWith, s

LEMMA StepStore == TypeOK /\ Store => Rv!Next
<1> SUFFICES ASSUME TypeOK, Store PROVE Rv!Next
  OBVIOUS
<1> DEFINE imm == sext32_imm12(Field(raw, 11, 7) \union Shl(Field(raw, 31, 25), 5))
           src == Read(Rs1(raw))
           addr == Add(imm, src)
           word == Read(Rs2(raw))
           at == 8 * ByteOf(addr)
           old == mem[WordOf(addr)]
           merged == (old \ (at..(at + 7))) \union Shl(Field(word, 7, 0), at)
           A == Signed(addr)
<1>1. Fetched /\ Opcode(raw) = 35 /\ status = "running"
  BY DEF Store, Executing, op_store, Fetched
<1>2. /\ Rv!op = 35 /\ Rv!funct3 = Funct3(raw) /\ Funct3(raw) \in 0..7
      /\ Rv!rs1 = Rs1(raw) /\ Rs1(raw) \in 0..31 /\ Rv!rs2 = Rs2(raw) /\ Rs2(raw) \in 0..31
  BY <1>1, SameFields
<1>3. addr \in Words /\ A = Rv!StoreAddr /\ word \in Words /\ Signed(word) = Rv!Reg(Rv!rs2)
  <2>1. imm = read_s_immediate(raw)
    BY <1>1, FetchedWord, OwnImmediates
  <2>2. imm \in Words /\ Signed(imm) = Rv!ImmS
    <3>1. imm \in Words
      BY Shifted, WordOperations DEF sext32_imm12
    <3> QED BY <1>1, <2>1, <3>1, RvImmediates
  <2>3. /\ src \in Words /\ Signed(src) = Rv!Reg(Rv!rs1)
        /\ word \in Words /\ Signed(word) = Rv!Reg(Rv!rs2)
    BY <1>2, RegIs
  <2>4. addr \in Words
    BY <2>2, <2>3, WordOperations
  <2> HIDE DEF imm, src, word
  <2> QED BY <2>2, <2>3, <2>4, PlusSwapped DEF Rv!StoreAddr
<1>4. \/ /\ Funct3(raw) \in {0, 2} /\ MayWrite(addr)
         /\ Funct3(raw) = 2 => Aligned(addr)
         /\ mem' = [mem EXCEPT ![WordOf(addr)] = IF Funct3(raw) = 2 THEN word ELSE merged]
         /\ Continue(NextPc)
         /\ UNCHANGED registers
      \/ Funct3(raw) = 2 /\ ~Aligned(addr) /\ Stop("trapped")
      \/ /\ Funct3(raw) \in {0, 2} /\ ~MayWrite(addr)
         /\ Funct3(raw) = 2 => Aligned(addr)
         /\ Refused(addr)
      \/ Funct3(raw) = 1 /\ NotImplemented
      \/ Funct3(raw) > 2
  BY DEF Store
<1> HIDE DEF imm, src, addr, word
<1>5. Funct3(raw) = 0 => Rv!Mnemonic = "sb"
  BY <1>2 DEF Rv!Mnemonic, Rv!Named
<1>6. Funct3(raw) = 2 => Rv!Mnemonic = "sw"
  BY <1>2 DEF Rv!Mnemonic, Rv!Named
<1>7. /\ MayWrite(addr) <=> Rv!StoreAddr \in With("W")
      /\ Aligned(addr) <=> Rv!Aligned(Rv!StoreAddr, 4)
  BY <1>3, Permissions, AlignedMeans
<1>8. ASSUME MayWrite(addr)
      PROVE  /\ Inside(addr) /\ A \in Nat /\ WordOf(addr) = A \div 4 /\ WordOf(addr) \in Image
             /\ ByteOf(addr) = A % 4 /\ old \in Words
  <2>1. Inside(addr)
    BY <1>8 DEF MayWrite
  <2>2. A \in 0..(MemBytes - 1) /\ WordOf(addr) = A \div 4 /\ WordOf(addr) \in Image
        /\ ByteOf(addr) = A % 4
    BY <1>3, <2>1, Accesses
  <2>3. MemBytes \in Nat
    BY <1>3, InsideMeans
  <2> HIDE DEF A
  <2> QED BY <2>1, <2>2, <2>3 DEF TypeOK
<1>9. CASE Funct3(raw) = 2 /\ MayWrite(addr) /\ Aligned(addr)
           /\ mem' = [mem EXCEPT ![WordOf(addr)] = word] /\ Continue(NextPc)
           /\ UNCHANGED registers
  <2>1. A % 4 = 0
    BY <1>3, <1>9, LastBits DEF Aligned
  <2> HIDE DEF A
  <2>2. OneWord(A, 4) /\ WordWith(word, old, A, 4, Signed(word))
    BY <1>3, <1>8, <1>9, <2>1, WordStored
  <2>3. AsBytes(mem') = BytesWith(A, 4, Signed(word))
    <3> DEFINE s == word
               n == 4
    <3>1. /\ addr \in Words /\ Inside(addr) /\ mem' = [mem EXCEPT ![WordOf(addr)] = s]
          /\ OneWord(Signed(addr), n)
          /\ WordWith(s, mem[WordOf(addr)], Signed(addr), n, Signed(word))
      BY <1>3, <1>8, <1>9, <2>2 DEF A
    <3> HIDE DEF s, n
    <3>2. AsBytes(mem') = BytesWith(Signed(addr), n, Signed(word))
      BY <3>1, MemoryAfter
    <3> QED BY <3>2 DEF A, s, n
  <2>4. Rv!StoreBytes(4) /\ prot' = prot /\ status' = status
    BY <1>1, <1>3, <1>9, <2>3, StoreIs
  <2>5. Rv!Effect /\ ~Rv!BadOperand
    BY <1>6, <1>7, <1>9, <2>4 DEF Rv!Effect, Rv!BadOperand
  <2> QED BY <1>1, <1>6, <1>9, <2>4, <2>5, StepExecutes
<1>10. CASE Funct3(raw) = 0 /\ MayWrite(addr)
            /\ mem' = [mem EXCEPT ![WordOf(addr)] = merged] /\ Continue(NextPc)
            /\ UNCHANGED registers
  <2>1. OneWord(A, 1) /\ WordWith(merged, old, A, 1, Signed(word))
    <3> HIDE DEF old, A
    <3> QED BY <1>3, <1>8, <1>10, ByteStored
  <2> HIDE DEF merged, A
  <2>2. AsBytes(mem') = BytesWith(A, 1, Signed(word))
    <3> DEFINE n == 1
    <3>1. /\ addr \in Words /\ Inside(addr) /\ mem' = [mem EXCEPT ![WordOf(addr)] = merged]
          /\ OneWord(Signed(addr), n)
          /\ WordWith(merged, mem[WordOf(addr)], Signed(addr), n, Signed(word))
      BY <1>3, <1>8, <1>10, <2>1 DEF A
    <3> HIDE DEF n
    <3>2. AsBytes(mem') = BytesWith(Signed(addr), n, Signed(word))
      BY <3>1, MemoryAfter
    <3> QED BY <3>2 DEF A, n
  <2>3. Rv!StoreBytes(1) /\ prot' = prot /\ status' = status
    BY <1>1, <1>3, <1>10, <2>2, StoreIs
  <2>4. Rv!Effect /\ ~Rv!BadOperand
    BY <1>5, <1>7, <1>10, <2>3 DEF Rv!Effect, Rv!BadOperand
  <2> QED BY <1>1, <1>5, <1>10, <2>3, <2>4, StepExecutes
<1>11. CASE Funct3(raw) = 2 /\ ~Aligned(addr) /\ Stop("trapped")
  <2>1. Rv!BadOperand
    BY <1>6, <1>7, <1>11 DEF Rv!BadOperand
  <2> QED BY <1>1, <1>11, <2>1, StepGivesUp
<1>12. CASE Funct3(raw) \in {0, 2} /\ ~MayWrite(addr) /\ Refused(addr)
  <2>1. Rv!BadOperand
    BY <1>5, <1>6, <1>7, <1>12 DEF Rv!BadOperand
  <2> QED BY <1>1, <1>12, <2>1, StepRefused
<1>13. CASE Funct3(raw) = 1 /\ NotImplemented
  <2>1. Rv!Mnemonic = "sh"
    BY <1>2, <1>13 DEF Rv!Mnemonic, Rv!Named
  <2>2. Rv!Mnemonic \notin Promised
    BY <2>1, Unsupported
  <2> QED BY <1>1, <1>13, <2>2, StepPassesOver
<1>14. CASE Funct3(raw) > 2
  <2>1. Rv!Mnemonic = "reserved"
    BY <1>2, <1>14 DEF Rv!Mnemonic, Rv!Named
  <2> QED BY <1>1, <2>1, StepUnspecified
<1>15. \/ Funct3(raw) = 2 /\ MayWrite(addr) /\ Aligned(addr)
           /\ mem' = [mem EXCEPT ![WordOf(addr)] = word] /\ Continue(NextPc)
           /\ UNCHANGED registers
       \/ Funct3(raw) = 0 /\ MayWrite(addr)
            /\ mem' = [mem EXCEPT ![WordOf(addr)] = merged] /\ Continue(NextPc)
            /\ UNCHANGED registers
       \/ Funct3(raw) = 2 /\ ~Aligned(addr) /\ Stop("trapped")
       \/ Funct3(raw) \in {0, 2} /\ ~MayWrite(addr) /\ Refused(addr)
       \/ Funct3(raw) = 1 /\ NotImplemented
       \/ Funct3(raw) > 2
  <2> HIDE DEF merged, old
  <2> QED BY <1>4
<1> QED BY <1>9, <1>10, <1>11, <1>12, <1>13, <1>14, <1>15

-----------------------------------------------------------------------------
(* The machine starts as the instruction set says, and takes its steps.    *)
LEMMA InitRefines == Init => Rv!Init
<1> SUFFICES ASSUME Init PROVE Rv!Init
  OBVIOUS
<1>1. TypeOK
  BY TypeInit
<1>2. [i \in Registers |-> Signed(registers[i])] = [i \in 1..31 |-> 0]
  <2>1. Signed({}) = 0
    BY ValueEmpty DEF Signed
  <2> QED BY <2>1 DEF Init, Registers, ZeroW
<1>3. [a \in 0..(MemBytes - 1) |-> ByteIn(mem, a)] \in [0..(MemBytes - 1) -> 0..255]
  <2> SUFFICES ASSUME NEW a \in 0..(MemBytes - 1) PROVE ByteIn(mem, a) \in 0..255
    OBVIOUS
  <2> DEFINE w == Shr(mem[a \div 4], 8 * (a % 4))
  <2>1. Value(w, 8) \in Nat /\ Value(w, 8) < 256
    <3>1. Power(8) = 256
      BY DEF Power
    <3> QED BY <3>1, ValueStep, ValueRange
  <2>2. ByteIn(mem, a) = Value(w, 8)
    BY DEF ByteIn
  <2> QED BY <2>1, <2>2
<1>4. With("W") \subseteq With("R") /\ With("R") \subseteq 0..(MemBytes - 1)
  <2> SUFFICES ASSUME NEW a \in With("W") PROVE a \in With("R")
    BY DEF With
  <2> DEFINE page == (a \div 4) \div PageWords
  <2>1. a \in 0..(MemBytes - 1) /\ "W" \in prot[page]
    BY DEF With
  <2>2. page \in Pages
    <3> DEFINE n == ImageWords
               p == PageWords
               w == a \div 4
    <3>1. n \in Nat \ {0} /\ p \in Nat \ {0} /\ MemBytes = 4 * n
      <4>1. 2^16 = 65536
        BY SMT
      <4> QED BY <4>1, ImageAssumption, SMT DEF MemBytes
    <3>2. w \in 0..(n - 1) /\ page = w \div p
      <4> HIDE DEF n
      <4> QED BY <2>1, <3>1, SMT
    <3> HIDE DEF n, p, w
    <3>3. w \div p <= (n - 1) \div p /\ w \div p \in Nat
      BY <3>1, <3>2, DivMonotone
    <3> QED BY <3>1, <3>2, <3>3, SMT DEF Pages, n, p
  <2>3. prot[page] \in Protections
    BY <1>1, <2>2 DEF TypeOK
  <2>4. "R" \in prot[page]
    BY <2>1, <2>3 DEF Protections
  <2> QED BY <2>1, <2>4 DEF With
<1>5. status = "running"
  BY DEF Init
<1> QED BY <1>2, <1>3, <1>4, <1>5 DEF Rv!Init

LEMMA NextRefines == TypeOK /\ ~SignAtStake /\ [Next]_vars => [Rv!Next]_(Rv!isa)
<1> SUFFICES ASSUME TypeOK, ~SignAtStake, [Next]_vars PROVE [Rv!Next]_(Rv!isa)
  OBVIOUS
<1>1. CASE Next
  <2>1. Rv!Next
    BY <1>1, StepMisaligned, StepFetchFault, StepDasmStops, StepIllegalZero, StepJalr, StepJal,
       StepLui, StepAuipc, StepOpImm, StepLoad, StepStore, StepBranch, StepOpOp, StepSystem,
       StepUnimplemented, StepSkip DEF Next
  <2> QED BY <2>1
<1>2. CASE UNCHANGED vars
  BY <1>2, ProtectionKept, MemoryKept DEF vars, Rv!isa
<1> QED BY <1>1, <1>2

(* For every image, page size and program that the loader may hand over,   *)
(* the interpreter implements the instruction set as long as no release    *)
(* build is about to lose a sign: srai of a negative number is the one     *)
(* instruction that is executed wrongly, and none other is.                *)
THEOREM InterpretImplementsIsa == Spec /\ []~SignAtStake => ImplementsIsa
<1>1. Spec => []TypeOK
  BY InterpretTypeOK
<1> QED BY <1>1, InitRefines, NextRefines, PTL DEF Spec, ImplementsIsa, Rv!Spec

(* A debug build implements the instruction set whatever it executes: its  *)
(* disassembler ends the process at every right shift.                     *)
THEOREM DebugImplementsIsa == ASSUME ~NDEBUG PROVE Spec => ImplementsIsa
<1>1. ~SignAtStake
  BY DEF SignAtStake
<1>2. Spec => []TypeOK
  BY InterpretTypeOK
<1> QED BY <1>1, <1>2, InitRefines, NextRefines, PTL DEF Spec, ImplementsIsa, Rv!Spec
=============================================================================
