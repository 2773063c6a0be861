---------------------------- MODULE RvInsnProofs ----------------------------
(***************************************************************************)
(* Words as numbers: what the operations on sets of bits do to the numbers *)
(* these are, unsigned (Value) and in two's complement (Signed).  The sums *)
(* are by induction over the bits; addition is the carry chain, bit by bit *)
(* (CarryStep, AddBit).  Then come the six instruction formats as they are *)
(* read: the digits of an instruction, and its immediates put together     *)
(* from them; and last as they are written: what is read from a word in    *)
(* whose fields bfc has put numbers (FormatI, FormatU, FormatS).           *)
(***************************************************************************)
EXTENDS Asm, Induction

-----------------------------------------------------------------------------
(* The operations on words return words: nothing leaks beyond bit 31.      *)
LEMMA WordOperations ==
  ASSUME NEW v \in Words, NEW w \in Words
  PROVE  /\ Add(v, w) \in Words /\ Xor(v, w) \in Words /\ Neg(w) \in Words
         /\ v \union w \in Words /\ v \cap w \in Words /\ v \ w \in Words
<1>1. \A a, b \in Words : Add(a, b) \in Words /\ Xor(a, b) \in Words
  BY DEF Add, Xor, Carries, Words
<1>2. Complement(w) \in Words /\ {0} \in Words
  BY DEF Complement, Words, Bits
<1> QED BY <1>1, <1>2 DEF Neg, Words

LEMMA Shifted ==
  /\ \A w, n : Shl(w, n) \in Words /\ Shr(w, n) \in Words
  /\ \A w, hi, lo : Field(w, hi, lo) \in Words
  /\ \A sign, from : SignFill(sign, from) \in Words
  /\ \A p : Bool(p) \in Words
BY DEF Shl, Shr, Field, SignFill, Bool, Words, Bits

(* The immediates are words, whatever they are decoded from.               *)
LEMMA Immediates ==
  \A insn :
    /\ read_i_immediate(insn) \in Words /\ read_b_immediate(insn) \in Words
    /\ read_j_immediate(insn) \in Words /\ read_upper_immediate(insn) \in Words
<1>1. \A a, b \in Words : a \union b \in Words
  BY DEF Words
<1>2. \A insn : insn \cap (12..31) \in Words
  BY DEF Words, Bits
<1> QED BY <1>1, <1>2, Shifted DEF read_i_immediate, read_b_immediate,
                             read_j_immediate, read_upper_immediate

-----------------------------------------------------------------------------
(* Powers of two.  The provers know those of numerals only.                *)
Power(i) == 2^i

Table ==
  {<<0, 1>>, <<1, 2>>, <<2, 4>>, <<3, 8>>, <<4, 16>>, <<5, 32>>,
   <<6, 64>>, <<7, 128>>, <<8, 256>>, <<9, 512>>, <<10, 1024>>,
   <<11, 2048>>, <<12, 4096>>, <<13, 8192>>, <<14, 16384>>,
   <<15, 32768>>, <<16, 65536>>, <<17, 131072>>, <<18, 262144>>,
   <<19, 524288>>, <<20, 1048576>>, <<21, 2097152>>, <<22, 4194304>>,
   <<23, 8388608>>, <<24, 16777216>>, <<25, 33554432>>,
   <<26, 67108864>>, <<27, 134217728>>, <<28, 268435456>>,
   <<29, 536870912>>, <<30, 1073741824>>, <<31, 2147483648>>,
   <<32, 4294967296>>}

LEMMA TableProperties ==
  \A p, q \in Table :
    /\ p[2] \in Nat \ {0}
    /\ p[1] + 1 = q[1] => q[2] = 2 * p[2]
BY DEF Table

LEMMA PowerProperties ==
  /\ \A i \in 0..32 : Power(i) \in Nat \ {0}
  /\ \A i \in 0..31 : Power(i + 1) = 2 * Power(i)
  /\ Power(0) = 1
<1>1. {<<n, 2^n>> : n \in 0..32} = Table
  BY DEF Table
<1>2. \A n \in 0..32 : <<n, Power(n)>> \in {<<m, 2^m>> : m \in 0..32}
  BY Zenon DEF Power
<1>3. ASSUME NEW i \in 0..32 PROVE Power(i) \in Nat \ {0}
  <2> DEFINE p == <<i, Power(i)>>
  <2>1. p \in Table /\ p[2] = Power(i)
    BY <1>1, <1>2
  <2> HIDE DEF p
  <2> QED BY <2>1, TableProperties
<1>4. ASSUME NEW i \in 0..31 PROVE Power(i + 1) = 2 * Power(i)
  <2> DEFINE p == <<i, Power(i)>>
             q == <<i + 1, Power(i + 1)>>
  <2>1. i \in 0..32 /\ i + 1 \in 0..32
    OBVIOUS
  <2>2. p \in Table /\ p[2] = Power(i) /\ p[1] = i
    BY <1>1, <1>2, <2>1
  <2>3. q \in Table /\ q[2] = Power(i + 1) /\ q[1] = i + 1
    BY <1>1, <1>2, <2>1
  <2> HIDE DEF p, q
  <2> QED BY <2>2, <2>3, TableProperties
<1> QED BY <1>3, <1>4 DEF Power

-----------------------------------------------------------------------------
(* The sum that Value() is the last of, and what each bit adds to it.      *)
Digit(w, i) == IF i \in w THEN 1 ELSE 0
BitWeight(w, i) == IF i \in w THEN Power(i) ELSE 0
Sums(w, N) == CHOOSE f : f = [i \in 0..N |->
                IF i = 0 THEN 0 ELSE f[i - 1] + IF i - 1 \in w THEN 2^(i - 1) ELSE 0]

LEMMA ValueOfSums == \A w, N : Value(w, N) = Sums(w, N)[N]
BY Zenon DEF Value, Sums

LEMMA SumsStep ==
  ASSUME NEW w, NEW N \in 0..32
  PROVE  /\ \A n \in 0..N : Sums(w, N)[n] \in Nat
         /\ Sums(w, N)[0] = 0
         /\ \A n \in 0..(N - 1) : Sums(w, N)[n + 1] = Sums(w, N)[n] + BitWeight(w, n)
<1> DEFINE add == [m \in Nat |-> IF m \in 1..32 THEN BitWeight(w, m - 1) ELSE 0]
           Sum(f, n) == IF n = 0 THEN 0 ELSE f[n - 1] + BitWeight(w, n - 1)
<1>0. N \in Nat /\ 0 \in Int
  OBVIOUS
<1>1. \A n \in 0..31 : BitWeight(w, n) \in Nat
  BY PowerProperties DEF BitWeight
<1>2. add \in [Nat -> Int] /\ \A n \in 1..32 : add[n] = BitWeight(w, n - 1)
  BY <1>1
<1> HIDE DEF add
<1>3. PICK f \in [0..N -> Int] : \A n \in 0..N : f[n] = IF n = 0 THEN 0 ELSE f[n - 1] + add[n]
  BY <1>0, <1>2, PartialSums
<1>4. ASSUME NEW n \in 0..N PROVE f[n] = Sum(f, n)
  <2>1. n # 0 => n \in 1..32
    OBVIOUS
  <2> QED BY <1>2, <1>3, <2>1
<1>5. f = [n \in 0..N |-> f[n]]
  BY <1>3
<1>6. [n \in 0..N |-> f[n]] = [n \in 0..N |-> Sum(f, n)]
  BY <1>4, Zenon
<1>9. Sums(w, N) = [n \in 0..N |-> Sum(Sums(w, N), n)]
  BY <1>5, <1>6, Zenon DEF Sums, BitWeight, Power
<1>7. /\ Sums(w, N)[0] = 0
      /\ \A n \in 0..(N - 1) : Sums(w, N)[n + 1] = Sums(w, N)[n] + BitWeight(w, n)
  BY <1>9
<1>8. \A n \in 0..N : Sums(w, N)[n] \in Nat
  <2> DEFINE S == {n \in 0..N : Sums(w, N)[n] \in Nat}
  <2>1. 0 \in S
    BY <1>7
  <2>2. ASSUME NEW n \in 0..(N - 1), n \in S PROVE n + 1 \in S
    <3>1. n \in 0..31 /\ n + 1 \in 0..N
      OBVIOUS
    <3>2. BitWeight(w, n) \in Nat
      BY <1>1, <3>1
    <3> QED BY <1>7, <2>2, <3>1, <3>2
  <2> HIDE DEF S
  <2>3. \A n \in 0..N : n \in S
    BY <1>0, <2>1, <2>2, BoundedInduction
  <2> QED BY <2>3 DEF S
<1> QED BY <1>7, <1>8

LEMMA SumsAgree ==
  ASSUME NEW w, NEW N \in 0..32, NEW M \in 0..N
  PROVE  Sums(w, N)[M] = Value(w, M)
<1> DEFINE S == {n \in 0..M : Sums(w, N)[n] = Sums(w, M)[n]}
<1>0. M \in 0..32 /\ 0 \in 0..M
  OBVIOUS
<1>1. 0 \in S
  BY <1>0, SumsStep
<1>2. ASSUME NEW n \in 0..(M - 1), n \in S PROVE n + 1 \in S
  <2>1. n \in 0..(N - 1) /\ n + 1 \in 0..M
    OBVIOUS
  <2>2. Sums(w, N)[n + 1] = Sums(w, N)[n] + BitWeight(w, n)
    BY <2>1, SumsStep
  <2>3. Sums(w, M)[n + 1] = Sums(w, M)[n] + BitWeight(w, n)
    BY <1>0, SumsStep
  <2> QED BY <1>2, <2>1, <2>2, <2>3
<1> HIDE DEF S
<1>3. M \in S
  BY <1>1, <1>2, BoundedInduction
<1> QED BY <1>3, ValueOfSums DEF S

(* Value() bit by bit.                                                     *)
LEMMA ValueStep ==
  /\ \A w : Value(w, 0) = 0
  /\ \A w : \A n \in 0..32 : Value(w, n) \in Nat
  /\ \A w : \A n \in 0..31 : Value(w, n + 1) = Value(w, n) + BitWeight(w, n)
<1>1. ASSUME NEW w PROVE Value(w, 0) = 0
  BY SumsStep, ValueOfSums
<1>2. ASSUME NEW w, NEW n \in 0..32 PROVE Value(w, n) \in Nat
  BY SumsStep, ValueOfSums
<1>3. ASSUME NEW w, NEW n \in 0..31 PROVE Value(w, n + 1) = Value(w, n) + BitWeight(w, n)
  <2>1. n + 1 \in 0..32 /\ n \in 0..(n + 1) /\ n + 1 \in 0..(n + 1)
    OBVIOUS
  <2>2. Sums(w, n + 1)[n + 1] = Sums(w, n + 1)[n] + BitWeight(w, n)
    BY <2>1, SumsStep
  <2> QED BY <2>1, <2>2, SumsAgree
<1> QED BY <1>1, <1>2, <1>3

-----------------------------------------------------------------------------
(* Division by a power of two.                                             *)
LEMMA DivMod ==
  ASSUME NEW d \in Nat \ {0}, NEW q \in Int, NEW r \in 0..(d - 1)
  PROVE  (d * q + r) \div d = q /\ (d * q + r) % d = r
<1> DEFINE a == d * q + r
           x == a \div d
           y == a % d
<1>1. a \in Int /\ x \in Int /\ y \in 0..(d - 1) /\ a = d * x + y
  OBVIOUS
<1>2. a = d * q + r
  OBVIOUS
<1> HIDE DEF a, x, y
<1>3. CASE x <= q - 1
  <2>1. d * x <= d * (q - 1)
    BY <1>1, <1>3
  <2> QED BY <1>1, <1>2, <2>1
<1>4. CASE x >= q + 1
  <2>1. d * x >= d * (q + 1)
    BY <1>1, <1>4
  <2> QED BY <1>1, <1>2, <2>1
<1>5. CASE x = q
  BY <1>1, <1>2, <1>5 DEF a, x, y
<1> QED BY <1>1, <1>3, <1>4, <1>5

LEMMA PowerSum ==
  ASSUME NEW m \in 0..32, NEW n \in 0..(32 - m)
  PROVE  Power(m + n) = Power(m) * Power(n)
<1> DEFINE S == {k \in 0..(32 - m) : Power(m + k) = Power(m) * Power(k)}
<1>1. 0 \in S /\ 32 - m \in Nat
  BY PowerProperties
<1>2. ASSUME NEW k \in 0..((32 - m) - 1), k \in S PROVE k + 1 \in S
  <2>1. m + k \in 0..31 /\ k \in 0..31 /\ k + 1 \in 0..(32 - m) /\ m + (k + 1) = (m + k) + 1
    OBVIOUS
  <2>2. Power(m + (k + 1)) = 2 * Power(m + k) /\ Power(k + 1) = 2 * Power(k)
    BY <2>1, PowerProperties
  <2>3. Power(m) \in Nat /\ Power(k) \in Nat
    BY <2>1, PowerProperties
  <2> QED BY <1>2, <2>1, <2>2, <2>3
<1> HIDE DEF S
<1>3. n \in S
  BY <1>1, <1>2, BoundedInduction
<1> QED BY <1>3 DEF S

-----------------------------------------------------------------------------
LEMMA ValueRange == \A w : \A n \in 0..32 : Value(w, n) < Power(n)
<1> SUFFICES ASSUME NEW w PROVE \A n \in 0..32 : Value(w, n) < Power(n)
  OBVIOUS
<1> DEFINE S == {n \in 0..32 : Value(w, n) < Power(n)}
<1>1. 0 \in S
  BY ValueStep, PowerProperties
<1>2. ASSUME NEW n \in 0..(32 - 1), n \in S PROVE n + 1 \in S
  <2>1. n \in 0..31 /\ n + 1 \in 0..32 /\ n \in 0..32
    OBVIOUS
  <2>2. Value(w, n + 1) = Value(w, n) + BitWeight(w, n) /\ Value(w, n) \in Nat
    BY <2>1, ValueStep
  <2>3. BitWeight(w, n) <= Power(n) /\ Power(n + 1) = 2 * Power(n) /\ Power(n) \in Nat
        /\ BitWeight(w, n) \in Nat
    BY <2>1, PowerProperties DEF BitWeight
  <2> QED BY <1>2, <2>1, <2>2, <2>3
<1> HIDE DEF S
<1>3. \A n \in 0..32 : n \in S
  BY <1>1, <1>2, BoundedInduction
<1> QED BY <1>3 DEF S

(* Only the bits below n count.                                            *)
LEMMA ValueAgree ==
  ASSUME NEW v, NEW w, NEW n \in 0..32, \A i \in 0..(n - 1) : i \in v <=> i \in w
  PROVE  Value(v, n) = Value(w, n)
<1> DEFINE S == {k \in 0..n : Value(v, k) = Value(w, k)}
<1>1. 0 \in S /\ n \in Nat
  BY ValueStep
<1>2. ASSUME NEW k \in 0..(n - 1), k \in S PROVE k + 1 \in S
  <2>1. k \in 0..31 /\ k + 1 \in 0..n
    OBVIOUS
  <2>2. BitWeight(v, k) = BitWeight(w, k)
    BY DEF BitWeight
  <2> QED BY <1>2, <2>1, <2>2, ValueStep
<1> HIDE DEF S
<1>3. n \in S
  BY <1>1, <1>2, BoundedInduction
<1> QED BY <1>3 DEF S

LEMMA ShrBit ==
  ASSUME NEW w \in Words, NEW m \in Nat
  PROVE  \A i \in Bits : i \in Shr(w, m) <=> i + m \in w
BY DEF Shr, Words, Bits

LEMMA ShlBit ==
  ASSUME NEW w \in Words, NEW m \in Nat
  PROVE  \A i \in Bits : i \in Shl(w, m) <=> i - m \in w
BY DEF Shl, Words, Bits

(* The low m bits and those above them.                                    *)
LEMMA ValueSplit ==
  ASSUME NEW w \in Words, NEW m \in 0..32, NEW n \in 0..(32 - m)
  PROVE  Value(w, m + n) = Value(w, m) + Power(m) * Value(Shr(w, m), n)
<1> DEFINE u == Shr(w, m)
           S == {k \in 0..(32 - m) : Value(w, m + k) = Value(w, m) + Power(m) * Value(u, k)}
<1>0. m \in Nat /\ 32 - m \in Nat /\ \A k \in 0..(32 - m) : k \in 0..32
  OBVIOUS
<1>1. \A i \in Bits : i \in u <=> i + m \in w
  BY <1>0, ShrBit
<1> HIDE DEF u
<1>2. 0 \in S
  BY ValueStep, PowerProperties, <1>0
<1>3. ASSUME NEW k \in 0..((32 - m) - 1), k \in S PROVE k + 1 \in S
  <2>1. m + k \in 0..31 /\ k \in 0..31 /\ k + 1 \in 0..(32 - m) /\ m + (k + 1) = (m + k) + 1
        /\ k \in 0..(32 - m) /\ k \in Bits
    BY DEF Bits
  <2>2. /\ Value(w, m + (k + 1)) = Value(w, m + k) + BitWeight(w, m + k)
        /\ Value(u, k + 1) = Value(u, k) + BitWeight(u, k)
    BY <2>1, ValueStep
  <2>3. BitWeight(w, m + k) = Power(m) * BitWeight(u, k)
    <3>1. k \in u <=> m + k \in w
      BY <1>1, <2>1
    <3>2. Power(m + k) = Power(m) * Power(k)
      BY <2>1, PowerSum
    <3>3. Power(m) \in Nat /\ Power(k) \in Nat
      BY <2>1, PowerProperties
    <3> QED BY <3>1, <3>2, <3>3 DEF BitWeight
  <2>4. Power(m) \in Nat /\ Value(u, k) \in Nat /\ BitWeight(u, k) \in Nat /\ Value(w, m) \in Nat
    BY <2>1, ValueStep, PowerProperties DEF BitWeight
  <2> QED BY <1>3, <2>1, <2>2, <2>3, <2>4
<1> HIDE DEF S
<1>4. n \in S
  BY <1>0, <1>2, <1>3, BoundedInduction
<1> QED BY <1>4 DEF S, u

LEMMA ValueShr ==
  ASSUME NEW w \in Words, NEW m \in 0..32, NEW n \in 0..(32 - m)
  PROVE  /\ Value(Shr(w, m), n) = Value(w, m + n) \div Power(m)
         /\ Value(w, m) = Value(w, m + n) % Power(m)
<1>1. Power(m) \in Nat \ {0} /\ Value(Shr(w, m), n) \in Int /\ Value(w, m) \in 0..(Power(m) - 1)
  <2>1. n \in 0..32
    OBVIOUS
  <2> QED BY <2>1, PowerProperties, ValueStep, ValueRange
<1>2. Value(w, m + n) = Power(m) * Value(Shr(w, m), n) + Value(w, m)
  <2>1. Value(w, m + n) = Value(w, m) + Power(m) * Value(Shr(w, m), n)
    BY ValueSplit
  <2> QED BY <1>1, <2>1
<1> QED BY <1>1, <1>2, DivMod

-----------------------------------------------------------------------------
(* Two's complement.                                                       *)
LEMMA SignedValue ==
  ASSUME NEW w
  PROVE  /\ Signed(w) = Value(w, 31) - 2147483648 * Digit(w, 31)
         /\ Value(w, 32) = Value(w, 31) + 2147483648 * Digit(w, 31)
         /\ Value(w, 31) \in Nat /\ Value(w, 31) < 2147483648
         /\ Signed(w) \in Int /\ -2147483648 <= Signed(w) /\ Signed(w) < 2147483648
         /\ Signed(w) < 0 <=> 31 \in w
<1>1. Power(31) = 2147483648
  BY SMT DEF Power
<1>2. Value(w, 31) \in Nat /\ Value(w, 31) < 2147483648
  BY <1>1, ValueStep, ValueRange, SMT
<1>3. Value(w, 32) = Value(w, 31) + BitWeight(w, 31)
  BY ValueStep
<1> QED BY <1>1, <1>2, <1>3, SMT DEF Signed, BitWeight, Digit

(* Addition, bit by bit: the carry out of a position.                      *)
LEMMA CarryStep ==
  ASSUME NEW v \in Words, NEW w \in Words
  PROVE  /\ 0 \notin Carries(v, w)
         /\ \A i \in 0..30 : i + 1 \in Carries(v, w) <=>
                               \/ i \in v /\ i \in w
                               \/ (i \in v \/ i \in w) /\ i \in Carries(v, w)
<1>0. \A g \in v : g \in Nat /\ g \in Bits
  BY DEF Words, Bits
<1>1. 0 \notin Carries(v, w)
  BY <1>0 DEF Carries
<1>2. ASSUME NEW i \in 0..30, i + 1 \in Carries(v, w)
      PROVE  \/ i \in v /\ i \in w
             \/ (i \in v \/ i \in w) /\ i \in Carries(v, w)
  <2>1. PICK g \in v \cap w : g < i + 1 /\ \A p \in (g + 1)..((i + 1) - 1) : p \in v \/ p \in w
    BY <1>2 DEF Carries
  <2>2. g \in Nat
    BY <1>0, <2>1
  <2>3. CASE g = i
    BY <2>1, <2>3
  <2>4. CASE g # i
    <3>1. g < i /\ i \in (g + 1)..((i + 1) - 1) /\ \A p \in (g + 1)..(i - 1) : p \in (g + 1)..((i + 1) - 1)
      BY <2>1, <2>2, <2>4
    <3>2. i \in Bits
      BY DEF Bits
    <3> QED BY <2>1, <3>1, <3>2 DEF Carries
  <2> QED BY <2>3, <2>4
<1>3. ASSUME NEW i \in 0..30, i \in v, i \in w
      PROVE  i + 1 \in Carries(v, w)
  BY <1>3 DEF Carries, Bits
<1>4. ASSUME NEW i \in 0..30, i \in v \/ i \in w, i \in Carries(v, w)
      PROVE  i + 1 \in Carries(v, w)
  <2>1. PICK g \in v \cap w : g < i /\ \A p \in (g + 1)..(i - 1) : p \in v \/ p \in w
    BY <1>4 DEF Carries
  <2>2. g \in Nat
    BY <1>0, <2>1
  <2>3. ASSUME NEW p \in (g + 1)..((i + 1) - 1) PROVE p \in v \/ p \in w
    <3>1. p = i \/ p \in (g + 1)..(i - 1)
      BY <2>2
    <3> QED BY <1>4, <2>1, <3>1
  <2>4. i + 1 \in Bits /\ g < i + 1
    BY <2>1, <2>2 DEF Bits
  <2> QED BY <2>1, <2>3, <2>4 DEF Carries
<1> QED BY <1>1, <1>2, <1>3, <1>4

LEMMA AddBit ==
  ASSUME NEW v \in Words, NEW w \in Words
  PROVE  \A i \in Bits : i \in Add(v, w) <=>
                           ((i \in v <=> i \in w) <=> i \in Carries(v, w))
BY DEF Add, Xor

LEMMA AddValue ==
  ASSUME NEW v \in Words, NEW w \in Words, NEW n \in 0..31
  PROVE  Value(Add(v, w), n) + BitWeight(Carries(v, w), n) = Value(v, n) + Value(w, n)
<1> DEFINE c == Carries(v, w)
           s == Add(v, w)
           S == {k \in 0..31 : Value(s, k) + BitWeight(c, k) = Value(v, k) + Value(w, k)}
<1>1. \A i \in 0..31 : i \in s <=> ((i \in v <=> i \in w) <=> i \in c)
  BY AddBit DEF Bits
<1>2. /\ 0 \notin c
      /\ \A i \in 0..30 : i + 1 \in c <=> \/ i \in v /\ i \in w
                                          \/ (i \in v \/ i \in w) /\ i \in c
  BY CarryStep
<1> HIDE DEF c, s
<1>3. 0 \in S /\ 31 \in Nat
  BY <1>2, ValueStep DEF BitWeight
<1>4. ASSUME NEW k \in 0..(31 - 1), k \in S PROVE k + 1 \in S
  <2>1. k \in 0..30 /\ k \in 0..31 /\ k + 1 \in 0..31
    OBVIOUS
  <2>2. /\ Value(s, k + 1) = Value(s, k) + BitWeight(s, k)
        /\ Value(v, k + 1) = Value(v, k) + BitWeight(v, k)
        /\ Value(w, k + 1) = Value(w, k) + BitWeight(w, k)
    BY <2>1, ValueStep
  <2>3. Power(k) \in Nat /\ Power(k + 1) = 2 * Power(k)
    BY <2>1, PowerProperties
  <2>4. BitWeight(s, k) + BitWeight(c, k + 1) = BitWeight(v, k) + BitWeight(w, k) + BitWeight(c, k)
    BY <1>1, <1>2, <2>1, <2>3 DEF BitWeight
  <2>5. /\ Value(s, k) \in Nat /\ Value(v, k) \in Nat /\ Value(w, k) \in Nat
        /\ BitWeight(s, k) \in Nat /\ BitWeight(v, k) \in Nat /\ BitWeight(w, k) \in Nat
        /\ BitWeight(c, k) \in Nat /\ BitWeight(c, k + 1) \in Nat
    BY <2>1, <2>3, ValueStep DEF BitWeight
  <2>6. Value(s, k) + BitWeight(c, k) = Value(v, k) + Value(w, k)
    BY <1>4
  <2>7. Value(s, k + 1) + BitWeight(c, k + 1) = Value(v, k + 1) + Value(w, k + 1)
    BY <2>2, <2>4, <2>5, <2>6
  <2> QED BY <2>1, <2>7
<1> HIDE DEF S
<1>5. n \in S
  BY <1>3, <1>4, BoundedInduction
<1> QED BY <1>5 DEF S, s, c

(* The sum, but for what does not fit.                                     *)
LEMMA AddSigned ==
  ASSUME NEW v \in Words, NEW w \in Words
  PROVE  \/ Signed(Add(v, w)) = Signed(v) + Signed(w)
         \/ Signed(Add(v, w)) = Signed(v) + Signed(w) + 4294967296
         \/ Signed(Add(v, w)) = Signed(v) + Signed(w) - 4294967296
<1> DEFINE s == Add(v, w)
           c == Carries(v, w)
<1>1. Power(31) = 2147483648
  BY SMT DEF Power
<1>2. Value(s, 31) + 2147483648 * Digit(c, 31) = Value(v, 31) + Value(w, 31)
  BY <1>1, AddValue, SMT DEF BitWeight, Digit
<1>3. 31 \in s <=> ((31 \in v <=> 31 \in w) <=> 31 \in c)
  BY AddBit DEF Bits
<1>4. /\ Signed(s) = Value(s, 31) - 2147483648 * Digit(s, 31)
      /\ Value(s, 31) \in Nat /\ Value(s, 31) < 2147483648
  BY SignedValue, SMT
<1>5. /\ Signed(v) = Value(v, 31) - 2147483648 * Digit(v, 31)
      /\ Value(v, 31) \in Nat /\ Value(v, 31) < 2147483648
  BY SignedValue, SMT
<1>6. /\ Signed(w) = Value(w, 31) - 2147483648 * Digit(w, 31)
      /\ Value(w, 31) \in Nat /\ Value(w, 31) < 2147483648
  BY SignedValue, SMT
<1> HIDE DEF s, c
<1>7. \/ Signed(s) = Signed(v) + Signed(w)
      \/ Signed(s) = Signed(v) + Signed(w) + 4294967296
      \/ Signed(s) = Signed(v) + Signed(w) - 4294967296
  BY <1>2, <1>3, <1>4, <1>5, <1>6, SMT DEF Digit
<1> QED BY <1>7 DEF s

-----------------------------------------------------------------------------
(* Words of known bits.                                                    *)
LEMMA ValueEmpty == ASSUME NEW n \in 0..32 PROVE Value({}, n) = 0
<1> DEFINE S == {k \in 0..32 : Value({}, k) = 0}
<1>1. 0 \in S
  BY ValueStep
<1>2. ASSUME NEW k \in 0..(32 - 1), k \in S PROVE k + 1 \in S
  BY <1>2, ValueStep DEF BitWeight
<1> HIDE DEF S
<1>3. n \in S
  BY <1>1, <1>2, BoundedInduction
<1> QED BY <1>3 DEF S

(* The bits from m on do not count when there are none.                    *)
LEMMA ValueAbove ==
  ASSUME NEW w, NEW m \in 0..32, NEW n \in m..32, \A i \in m..31 : i \notin w
  PROVE  Value(w, n) = Value(w, m)
<1> DEFINE S == {k \in 0..(32 - m) : Value(w, m + k) = Value(w, m)}
<1>1. 0 \in S /\ 32 - m \in Nat
  OBVIOUS
<1>2. ASSUME NEW k \in 0..((32 - m) - 1), k \in S PROVE k + 1 \in S
  <2>1. m + k \in 0..31 /\ k + 1 \in 0..(32 - m) /\ m + (k + 1) = (m + k) + 1 /\ m + k \in m..31
    OBVIOUS
  <2>2. Value(w, m + (k + 1)) = Value(w, m + k) + BitWeight(w, m + k) /\ Value(w, m + k) \in Nat
    BY <2>1, ValueStep
  <2>3. BitWeight(w, m + k) = 0
    BY <2>1 DEF BitWeight
  <2> QED BY <1>2, <2>1, <2>2, <2>3
<1> HIDE DEF S
<1>3. n - m \in 0..(32 - m) /\ m + (n - m) = n
  OBVIOUS
<1>4. n - m \in S
  BY <1>1, <1>2, <1>3, BoundedInduction
<1> QED BY <1>3, <1>4 DEF S

LEMMA ValueSingle ==
  ASSUME NEW b \in 0..31, NEW n \in (b + 1)..32
  PROVE  Value({b}, n) = Power(b)
<1>1. Value({b}, b) = Value({}, b)
  BY ValueAgree
<1>2. Value({b}, b + 1) = Power(b)
  <2>1. b \in 0..32 /\ b \in 0..31
    OBVIOUS
  <2>2. Value({b}, b) = 0
    BY <1>1, <2>1, ValueEmpty
  <2>3. BitWeight({b}, b) = Power(b) /\ Power(b) \in Nat
    BY <2>1, PowerProperties DEF BitWeight
  <2>4. Value({b}, b + 1) = Value({b}, b) + BitWeight({b}, b)
    BY <2>1, ValueStep
  <2> QED BY <2>2, <2>3, <2>4
<1>3. b + 1 \in 0..32 /\ \A i \in (b + 1)..31 : i \notin {b}
  OBVIOUS
<1> QED BY <1>2, <1>3, ValueAbove

LEMMA ValueUnion ==
  ASSUME NEW v, NEW w, v \cap w = {}, NEW n \in 0..32
  PROVE  Value(v \union w, n) = Value(v, n) + Value(w, n)
<1> DEFINE S == {k \in 0..32 : Value(v \union w, k) = Value(v, k) + Value(w, k)}
<1>1. 0 \in S
  BY ValueStep
<1>2. ASSUME NEW k \in 0..(32 - 1), k \in S PROVE k + 1 \in S
  <2>1. k \in 0..31 /\ k \in 0..32 /\ k + 1 \in 0..32
    OBVIOUS
  <2>2. BitWeight(v \union w, k) = BitWeight(v, k) + BitWeight(w, k) /\ BitWeight(v, k) \in Nat
        /\ BitWeight(w, k) \in Nat
    BY <2>1, PowerProperties DEF BitWeight
  <2>3. Value(v, k) \in Nat /\ Value(w, k) \in Nat
    BY <2>1, ValueStep
  <2>4. /\ Value(v \union w, k + 1) = Value(v \union w, k) + BitWeight(v \union w, k)
        /\ Value(v, k + 1) = Value(v, k) + BitWeight(v, k)
        /\ Value(w, k + 1) = Value(w, k) + BitWeight(w, k)
    BY <2>1, ValueStep
  <2> QED BY <1>2, <2>1, <2>2, <2>3, <2>4
<1> HIDE DEF S
<1>3. n \in S
  BY <1>1, <1>2, BoundedInduction
<1> QED BY <1>3 DEF S

LEMMA ValueComplement ==
  ASSUME NEW w, NEW n \in 0..32
  PROVE  Value(Complement(w), n) = Power(n) - 1 - Value(w, n)
<1> DEFINE c == Complement(w)
           S == {k \in 0..32 : Value(c, k) = Power(k) - 1 - Value(w, k)}
<1>0. \A i \in 0..31 : i \in c <=> i \notin w
  BY DEF Complement, Bits
<1> HIDE DEF c
<1>1. 0 \in S
  BY ValueStep, PowerProperties
<1>2. ASSUME NEW k \in 0..(32 - 1), k \in S PROVE k + 1 \in S
  <2>1. k \in 0..31 /\ k \in 0..32 /\ k + 1 \in 0..32
    OBVIOUS
  <2>2. Power(k) \in Nat /\ Power(k + 1) = 2 * Power(k)
    BY <2>1, PowerProperties
  <2>3. BitWeight(c, k) = Power(k) - BitWeight(w, k) /\ BitWeight(w, k) \in Nat
    BY <1>0, <2>1, <2>2 DEF BitWeight
  <2>4. /\ Value(c, k + 1) = Value(c, k) + BitWeight(c, k)
        /\ Value(w, k + 1) = Value(w, k) + BitWeight(w, k)
        /\ Value(c, k) \in Nat /\ Value(w, k) \in Nat
    BY <2>1, ValueStep
  <2> QED BY <1>2, <2>1, <2>2, <2>3, <2>4
<1> HIDE DEF S
<1>3. n \in S
  BY <1>1, <1>2, BoundedInduction
<1> QED BY <1>3 DEF S, c

LEMMA ComplementSigned ==
  ASSUME NEW w
  PROVE  Signed(Complement(w)) = -1 - Signed(w)
<1>1. Power(31) = 2147483648
  BY SMT DEF Power
<1>2. Value(Complement(w), 31) = 2147483648 - 1 - Value(w, 31)
  BY <1>1, ValueComplement, SMT
<1>3. 31 \in Complement(w) <=> 31 \notin w
  BY DEF Complement, Bits
<1>4. /\ Signed(Complement(w)) = Value(Complement(w), 31) - 2147483648 * Digit(Complement(w), 31)
      /\ Signed(w) = Value(w, 31) - 2147483648 * Digit(w, 31)
      /\ Value(w, 31) \in Nat
  BY SignedValue, SMT
<1> QED BY <1>2, <1>3, <1>4, SMT DEF Digit

(* The numbers of the constants of the code: 1 and 4.                      *)
LEMMA SignedSingle ==
  ASSUME NEW b \in 0..30
  PROVE  Signed({b}) = Power(b)
<1>1. 31 \notin {b} /\ 31 \in (b + 1)..32 /\ b \in 0..31
  OBVIOUS
<1> QED BY <1>1, ValueSingle DEF Signed

-----------------------------------------------------------------------------
(* Shifts, fields and sign extensions.                                     *)
LEMMA ValueShl ==
  ASSUME NEW w \in Words, NEW m \in 0..31, NEW n \in 0..(32 - m)
  PROVE  Value(Shl(w, m), m + n) = Power(m) * Value(w, n)
<1> DEFINE s == Shl(w, m)
<1>1. s \in Words
  BY DEF Shl, Words
<1>2. Value(s, m) = 0
  <2>1. \A i \in 0..(m - 1) : i \in s <=> i \in {}
    BY DEF Shl, Words, Bits
  <2>2. Value(s, m) = Value({}, m)
    BY <2>1, ValueAgree
  <2> QED BY <2>2, ValueEmpty
<1>3. Value(Shr(s, m), n) = Value(w, n)
  <2>1. ASSUME NEW i \in 0..(n - 1) PROVE i \in Shr(s, m) <=> i \in w
    <3>1. i \in Bits /\ i + m \in Bits /\ m \in Nat /\ (i + m) - m = i
      BY DEF Bits
    <3>2. i \in Shr(s, m) <=> i + m \in s
      BY <1>1, <3>1, ShrBit
    <3>3. i + m \in s <=> i \in w
      BY <3>1, ShlBit
    <3> QED BY <3>2, <3>3
  <2>2. n \in 0..32
    OBVIOUS
  <2> QED BY <2>1, <2>2, ValueAgree
<1> HIDE DEF s
<1>4. Value(s, m + n) = Value(s, m) + Power(m) * Value(Shr(s, m), n)
  BY <1>1, ValueSplit
<1>5. Power(m) \in Nat /\ Value(w, n) \in Nat
  BY PowerProperties, ValueStep
<1> QED BY <1>2, <1>3, <1>4, <1>5 DEF s

(* A field as the digits of the word in base two.                          *)
LEMMA FieldBit ==
  ASSUME NEW w \in Words, NEW hi \in Bits, NEW lo \in 0..hi
  PROVE  \A i \in Bits : i \in Field(w, hi, lo) <=> i + lo \in w /\ i + lo <= hi
<1>1. w \cap (lo..hi) \in Words /\ lo \in Nat
  BY DEF Words, Bits
<1>2. \A i \in Bits : i \in Field(w, hi, lo) <=> i + lo \in w \cap (lo..hi)
  BY <1>1, ShrBit DEF Field
<1> QED BY <1>2 DEF Bits

LEMMA FieldValue ==
  ASSUME NEW w \in Words, NEW hi \in Bits, NEW lo \in 0..hi, NEW n \in (hi - lo + 1)..32
  PROVE  /\ Value(Field(w, hi, lo), n) \in Nat
         /\ Value(Field(w, hi, lo), n) < Power(hi - lo + 1)
         /\ Value(w, hi + 1) = Value(w, lo) + Power(lo) * Value(Field(w, hi, lo), n)
         /\ Value(Field(w, hi, lo), n) = Value(w, hi + 1) \div Power(lo)
<1> DEFINE f == Field(w, hi, lo)
           m == hi - lo + 1
<1>1. m \in 0..32 /\ m \in 0..(32 - lo) /\ lo + m = hi + 1 /\ lo \in 0..32 /\ n \in m..32
      /\ lo \in Nat /\ n \in 0..32
  BY DEF Bits
<1>2. \A i \in Bits : i \in f <=> i + lo \in w /\ i + lo <= hi
  BY FieldBit
<1> HIDE DEF f
<1>3. Value(f, n) = Value(f, m)
  <2>1. \A i \in m..31 : i \in Bits /\ ~(i + lo <= hi)
    BY DEF Bits
  <2>2. \A i \in m..31 : i \notin f
    BY <1>2, <2>1
  <2> HIDE DEF m
  <2> QED BY <1>1, <2>2, ValueAbove
<1>4. Value(f, m) = Value(Shr(w, lo), m)
  <2>1. \A i \in 0..(m - 1) : i \in Bits /\ i + lo <= hi
    BY DEF Bits
  <2>2. \A i \in 0..(m - 1) : i \in f <=> i \in Shr(w, lo)
    BY <1>1, <1>2, <2>1, ShrBit
  <2> HIDE DEF m
  <2> QED BY <1>1, <2>2, ValueAgree
<1>5. Value(f, m) \in Nat /\ Value(f, m) < Power(m)
  BY <1>1, ValueStep, ValueRange
<1>6. Value(w, lo + m) = Value(w, lo) + Power(lo) * Value(Shr(w, lo), m)
  BY <1>1, ValueSplit
<1>7. Value(Shr(w, lo), m) = Value(w, lo + m) \div Power(lo)
  BY <1>1, ValueShr
<1> QED BY <1>1, <1>3, <1>4, <1>5, <1>6, <1>7 DEF f

LEMMA SignFillSigned ==
  ASSUME NEW p \in BOOLEAN, NEW from \in 0..31
  PROVE  Signed(SignFill(p, from)) = IF p THEN -Power(from) ELSE 0
<1>0. Power(31) = 2147483648
  BY SMT DEF Power
<1>1. CASE ~p
  <2>1. SignFill(p, from) = {}
    BY <1>1 DEF SignFill
  <2>2. Signed({}) = 0
    BY ValueEmpty DEF Signed
  <2> QED BY <1>1, <2>1, <2>2
<1>2. CASE p
  <2> DEFINE s == SignFill(p, from)
             low == {i \in Bits : i < from}
  <2>1. s = Complement(low)
    BY <1>2 DEF SignFill, Complement, Bits
  <2>2. Value(Complement({}), from) = Power(from) - 1
    <3>1. Value({}, from) = 0 /\ Power(from) \in Nat
      BY ValueEmpty, PowerProperties
    <3>2. Value(Complement({}), from) = Power(from) - 1 - Value({}, from)
      BY ValueComplement
    <3> QED BY <3>1, <3>2
  <2>3. Value(low, from) = Value(Complement({}), from)
    <3>1. \A i \in 0..(from - 1) : i \in low <=> i \in Complement({})
      BY DEF Complement, Bits
    <3> HIDE DEF low
    <3> QED BY <3>1, ValueAgree
  <2>4. Value(low, 31) = Value(low, from)
    <3>1. \A i \in from..31 : i \notin low
      OBVIOUS
    <3> HIDE DEF low
    <3> QED BY <3>1, ValueAbove
  <2>5. 31 \notin low
    OBVIOUS
  <2> HIDE DEF s, low
  <2>6. Signed(low) = Power(from) - 1 /\ Power(from) \in Nat
    BY <2>2, <2>3, <2>4, <2>5, PowerProperties DEF Signed
  <2>7. Signed(s) = -1 - Signed(low)
    BY <2>1, ComplementSigned
  <2>8. Signed(s) = -Power(from)
    BY <2>6, <2>7
  <2> QED BY <1>2, <2>8, Zenon DEF s
<1> QED BY <1>1, <1>2

-----------------------------------------------------------------------------
(* Comparison: the highest bit that differs decides.                       *)
DiffersAt(v, w, b, n) == b < n /\ \A c \in (b + 1)..(n - 1) : c \in v <=> c \in w

LEMMA LessValue ==
  ASSUME NEW v \in Words, NEW w \in Words, NEW n \in 0..32
  PROVE  (\E b \in w \ v : DiffersAt(v, w, b, n)) <=> Value(v, n) < Value(w, n)
<1> DEFINE Less(k) == \E b \in w \ v : DiffersAt(v, w, b, k)
           S == {k \in 0..32 : Less(k) <=> Value(v, k) < Value(w, k)}
<1>0. \A b \in w : b \in 0..31 /\ b \in Nat
  BY DEF Words, Bits
<1>1. 0 \in S
  <2>1. ~Less(0)
    BY <1>0 DEF DiffersAt
  <2> QED BY <2>1, ValueStep
<1>2. ASSUME NEW k \in 0..(32 - 1), k \in S PROVE k + 1 \in S
  <2>0. k \in 0..31 /\ k \in 0..32 /\ k + 1 \in 0..32
    OBVIOUS
  <2>1. CASE k \in w /\ k \notin v
    <3>1. Less(k + 1)
      BY <2>1 DEF DiffersAt
    <3>2. Value(v, k) < Power(k) /\ Value(v, k + 1) = Value(v, k) /\ Value(v, k) \in Nat
      BY <2>0, <2>1, ValueRange, ValueStep DEF BitWeight
    <3>3. Value(w, k + 1) = Value(w, k) + Power(k) /\ Value(w, k) \in Nat /\ Power(k) \in Nat
      BY <2>0, <2>1, ValueStep, PowerProperties DEF BitWeight
    <3> QED BY <3>1, <3>2, <3>3
  <2>2. CASE k \in v /\ k \notin w
    <3>1. ~Less(k + 1)
      <4> SUFFICES ASSUME NEW b \in w \ v, b < k + 1,
                          \A c \in (b + 1)..((k + 1) - 1) : c \in v <=> c \in w
                   PROVE  FALSE
        BY DEF DiffersAt
      <4>1. b # k /\ b \in Nat
        BY <1>0, <2>2
      <4>2. k \in (b + 1)..((k + 1) - 1)
        BY <4>1
      <4> QED BY <2>2, <4>2
    <3>2. Value(w, k) < Power(k) /\ Value(w, k + 1) = Value(w, k) /\ Value(w, k) \in Nat
      BY <2>0, <2>2, ValueRange, ValueStep DEF BitWeight
    <3>3. Value(v, k + 1) = Value(v, k) + Power(k) /\ Value(v, k) \in Nat /\ Power(k) \in Nat
      BY <2>0, <2>2, ValueStep, PowerProperties DEF BitWeight
    <3> QED BY <3>1, <3>2, <3>3
  <2>3. CASE k \in v <=> k \in w
    <3>1. Less(k + 1) <=> Less(k)
      <4>1. ASSUME NEW b \in w \ v, DiffersAt(v, w, b, k + 1) PROVE DiffersAt(v, w, b, k)
        <5>1. b # k /\ b \in Nat
          BY <1>0, <2>3
        <5> QED BY <4>1, <5>1 DEF DiffersAt
      <4>2. ASSUME NEW b \in w \ v, DiffersAt(v, w, b, k) PROVE DiffersAt(v, w, b, k + 1)
        <5>1. b \in Nat /\ b < k /\ b < k + 1
          BY <1>0, <4>2 DEF DiffersAt
        <5>2. ASSUME NEW c \in (b + 1)..((k + 1) - 1) PROVE c \in v <=> c \in w
          <6>1. c = k \/ c \in (b + 1)..(k - 1)
            BY <5>1
          <6> QED BY <4>2, <6>1, <2>3 DEF DiffersAt
        <5> QED BY <5>1, <5>2 DEF DiffersAt
      <4> QED BY <4>1, <4>2
    <3>2. BitWeight(v, k) = BitWeight(w, k) /\ BitWeight(v, k) \in Nat
      BY <2>0, <2>3, PowerProperties DEF BitWeight
    <3>3. /\ Value(v, k + 1) = Value(v, k) + BitWeight(v, k) /\ Value(v, k) \in Nat
          /\ Value(w, k + 1) = Value(w, k) + BitWeight(w, k) /\ Value(w, k) \in Nat
      BY <2>0, ValueStep
    <3> HIDE DEF Less
    <3>4. Less(k) <=> Value(v, k) < Value(w, k)
      BY <1>2
    <3> QED BY <3>1, <3>2, <3>3, <3>4
  <2> QED BY <2>1, <2>2, <2>3
<1> HIDE DEF S
<1>3. n \in S
  BY <1>1, <1>2, BoundedInduction
<1> QED BY <1>3 DEF S

LEMMA ULessValue ==
  ASSUME NEW v \in Words, NEW w \in Words
  PROVE  ULess(v, w) <=> Value(v, 32) < Value(w, 32)
<1>1. ULess(v, w) <=> \E b \in w \ v : DiffersAt(v, w, b, 32)
  BY DEF ULess, DiffersAt, Words, Bits
<1> QED BY <1>1, LessValue

(* Words are the same when their numbers are.                              *)
LEMMA SameValue ==
  ASSUME NEW v \in Words, NEW w \in Words, v # w
  PROVE  Value(v, 32) # Value(w, 32)
<1> DEFINE T == {i \in Bits : ~(i \in v <=> i \in w)}
<1>1. T \in SUBSET (0..31) /\ T # {} /\ 31 \in Nat
  BY DEF Words, Bits
<1> HIDE DEF T
<1>2. PICK b \in T : \A y \in T : y <= b
  BY <1>1, GreatestElement
<1>3. b \in Bits /\ ~(b \in v <=> b \in w)
  BY <1>2 DEF T
<1>4. \A c \in (b + 1)..31 : c \in v <=> c \in w
  <2> SUFFICES ASSUME NEW c \in (b + 1)..31, ~(c \in v <=> c \in w) PROVE FALSE
    OBVIOUS
  <2>1. c \in Bits
    BY <1>3 DEF Bits
  <2>2. c \in T
    BY <2>1 DEF T
  <2> QED BY <1>2, <1>3, <2>2 DEF Bits
<1>5. ULess(v, w) \/ ULess(w, v)
  BY <1>3, <1>4 DEF ULess
<1>6. Value(v, 32) \in Nat /\ Value(w, 32) \in Nat
  BY ValueStep
<1> QED BY <1>5, <1>6, ULessValue

LEMMA SignedSame ==
  ASSUME NEW v \in Words, NEW w \in Words
  PROVE  v = w <=> Signed(v) = Signed(w)
<1>1. /\ Signed(v) = Value(v, 31) - 2147483648 * Digit(v, 31)
      /\ Value(v, 32) = Value(v, 31) + 2147483648 * Digit(v, 31)
      /\ Value(v, 31) \in Nat /\ Value(v, 31) < 2147483648
  BY SignedValue, SMT
<1>2. /\ Signed(w) = Value(w, 31) - 2147483648 * Digit(w, 31)
      /\ Value(w, 32) = Value(w, 31) + 2147483648 * Digit(w, 31)
      /\ Value(w, 31) \in Nat /\ Value(w, 31) < 2147483648
  BY SignedValue, SMT
<1>3. v # w => Value(v, 32) # Value(w, 32)
  BY SameValue
<1> QED BY <1>1, <1>2, <1>3, SMT DEF Digit

(* Unsigned and signed comparison of the numbers.                          *)
LEMMA ULessSigned ==
  ASSUME NEW v \in Words, NEW w \in Words
  PROVE  ULess(v, w) <=> IF (Signed(v) < 0) <=> (Signed(w) < 0)
                         THEN Signed(v) < Signed(w) ELSE Signed(w) < 0
<1>1. /\ Signed(v) = Value(v, 31) - 2147483648 * Digit(v, 31)
      /\ Value(v, 32) = Value(v, 31) + 2147483648 * Digit(v, 31)
      /\ Value(v, 31) \in Nat /\ Value(v, 31) < 2147483648
  BY SignedValue, SMT
<1>2. /\ Signed(w) = Value(w, 31) - 2147483648 * Digit(w, 31)
      /\ Value(w, 32) = Value(w, 31) + 2147483648 * Digit(w, 31)
      /\ Value(w, 31) \in Nat /\ Value(w, 31) < 2147483648
  BY SignedValue, SMT
<1>3. Digit(v, 31) \in {0, 1} /\ Digit(w, 31) \in {0, 1}
  BY DEF Digit
<1> QED BY <1>1, <1>2, <1>3, ULessValue, SMT

LEMMA SLessSigned ==
  ASSUME NEW v \in Words, NEW w \in Words
  PROVE  SLess(v, w) <=> Signed(v) < Signed(w)
<1> DEFINE x == Xor(v, {31})
           y == Xor(w, {31})
<1>1. x \in Words /\ y \in Words
  BY DEF Xor, Words, Bits
<1>2. Value(x, 31) = Value(v, 31) /\ Value(y, 31) = Value(w, 31)
  <2>1. \A i \in 0..30 : (i \in x <=> i \in v) /\ (i \in y <=> i \in w)
    BY DEF Xor
  <2> HIDE DEF x, y
  <2> QED BY <2>1, ValueAgree
<1>3. (31 \in x <=> 31 \notin v) /\ (31 \in y <=> 31 \notin w)
  BY DEF Xor
<1>4. SLess(v, w) <=> ULess(x, y)
  BY DEF SLess
<1> HIDE DEF x, y
<1>5. ULess(x, y) <=> Value(x, 32) < Value(y, 32)
  BY <1>1, ULessValue
<1>6. /\ Value(x, 32) = Value(x, 31) + 2147483648 * Digit(x, 31)
      /\ Value(y, 32) = Value(y, 31) + 2147483648 * Digit(y, 31)
      /\ Signed(v) = Value(v, 31) - 2147483648 * Digit(v, 31)
      /\ Signed(w) = Value(w, 31) - 2147483648 * Digit(w, 31)
      /\ Value(v, 31) \in Nat /\ Value(v, 31) < 2147483648
      /\ Value(w, 31) \in Nat /\ Value(w, 31) < 2147483648
  BY SignedValue, SMT
<1> QED BY <1>2, <1>3, <1>4, <1>5, <1>6, SMT DEF Digit

-----------------------------------------------------------------------------
(* A number as a word.                                                     *)
LEMMA ModStep ==
  ASSUME NEW n \in Nat, NEW d \in Nat \ {0}
  PROVE  n % (2 * d) = (n % d) + d * ((n \div d) % 2)
<1> DEFINE q == n \div d
           r == n % d
           h == q \div 2
           b == q % 2
<1>1. q \in Int /\ r \in 0..(d - 1) /\ n = d * q + r
  OBVIOUS
<1>2. h \in Int /\ b \in {0, 1} /\ q = 2 * h + b
  BY <1>1
<1> HIDE DEF q, r, h, b
<1>3. n = (2 * d) * h + (d * b + r)
  <2>1. d * q = d * (2 * h + b)
    BY <1>2
  <2>2. d * (2 * h + b) = (2 * d) * h + d * b
    BY <1>2
  <2> QED BY <1>1, <1>2, <2>1, <2>2
<1>4. d * b + r \in 0..(2 * d - 1) /\ 2 * d \in Nat \ {0}
  BY <1>1, <1>2
<1>5. n % (2 * d) = d * b + r
  BY <1>2, <1>3, <1>4, DivMod
<1> QED BY <1>1, <1>2, <1>5 DEF r, b, q

LEMMA FromNatValue ==
  ASSUME NEW n \in Nat, NEW k \in 0..31
  PROVE  Value(FromNat(n), k) = n % Power(k)
<1> DEFINE w == FromNat(n)
           S == {i \in 0..31 : Value(w, i) = n % Power(i)}
<1>0. \A i \in 0..30 : i \in w <=> (n \div Power(i)) % 2 = 1
  BY DEF FromNat, Power
<1> HIDE DEF w
<1>1. 0 \in S /\ 31 \in Nat
  BY ValueStep, PowerProperties
<1>2. ASSUME NEW i \in 0..(31 - 1), i \in S PROVE i + 1 \in S
  <2>0. i \in 0..30 /\ i \in 0..31 /\ i \in 0..32 /\ i + 1 \in 0..31
    OBVIOUS
  <2>1. Power(i) \in Nat \ {0} /\ Power(i + 1) = 2 * Power(i)
    BY <2>0, PowerProperties
  <2>2. n % (2 * Power(i)) = (n % Power(i)) + Power(i) * ((n \div Power(i)) % 2)
    BY <2>1, ModStep
  <2>3. BitWeight(w, i) = Power(i) * ((n \div Power(i)) % 2)
    <3>1. (n \div Power(i)) % 2 \in {0, 1}
      BY <2>1
    <3>2. CASE (n \div Power(i)) % 2 = 1
      BY <1>0, <2>0, <2>1, <3>2 DEF BitWeight
    <3>3. CASE (n \div Power(i)) % 2 = 0
      BY <1>0, <2>0, <2>1, <3>3 DEF BitWeight
    <3> QED BY <3>1, <3>2, <3>3
  <2>4. Value(w, i + 1) = Value(w, i) + BitWeight(w, i)
    BY <2>0, ValueStep
  <2> QED BY <1>2, <2>0, <2>1, <2>2, <2>3, <2>4
<1> HIDE DEF S
<1>3. k \in S
  BY <1>1, <1>2, BoundedInduction
<1> QED BY <1>3 DEF S, w

LEMMA FromNatSigned ==
  ASSUME NEW n \in Nat, n < 2147483648
  PROVE  FromNat(n) \in Words /\ Signed(FromNat(n)) = n
<1>1. Power(31) = 2147483648
  BY SMT DEF Power
<1>2. Value(FromNat(n), 31) = n % 2147483648
  BY <1>1, FromNatValue, SMT
<1>3. 31 \notin FromNat(n) /\ FromNat(n) \in Words
  BY DEF FromNat, Words, Bits
<1> QED BY <1>2, <1>3, SMT DEF Signed

-----------------------------------------------------------------------------
(* The number of a word, divided by a power of two.                        *)
Above(w, n) == Value(Shr(w, n), 31 - n) - Power(31 - n) * Digit(w, 31)

LEMMA SignedSplit ==
  ASSUME NEW w \in Words, NEW n \in 0..31
  PROVE  /\ Above(w, n) \in Int
         /\ Signed(w) = Power(n) * Above(w, n) + Value(w, n)
         /\ Signed(w) \div Power(n) = Above(w, n)
         /\ Signed(w) % Power(n) = Value(w, n)
<1>1. n \in 0..32 /\ 31 - n \in 0..(32 - n) /\ 31 - n \in 0..32 /\ n + (31 - n) = 31
  OBVIOUS
<1>2. Value(w, 31) = Value(w, n) + Power(n) * Value(Shr(w, n), 31 - n)
  BY <1>1, ValueSplit
<1>3. 2147483648 = Power(n) * Power(31 - n)
  <2>1. Power(n + (31 - n)) = Power(n) * Power(31 - n)
    BY <1>1, PowerSum
  <2>2. Power(31) = 2147483648
    BY SMT DEF Power
  <2> QED BY <1>1, <2>1, <2>2, SMT
<1>4. Digit(w, 31) \in {0, 1}
  BY DEF Digit
<1>5. /\ Power(n) \in Nat \ {0} /\ Power(31 - n) \in Nat
      /\ Value(Shr(w, n), 31 - n) \in Nat /\ Value(w, n) \in 0..(Power(n) - 1)
  <2>1. Power(n) \in Nat \ {0} /\ Power(31 - n) \in Nat
    BY <1>1, PowerProperties
  <2>2. Value(Shr(w, n), 31 - n) \in Nat
    BY <1>1, ValueStep
  <2>3. Value(w, n) \in Nat /\ Value(w, n) < Power(n)
    BY <1>1, ValueStep, ValueRange
  <2> QED BY <2>1, <2>2, <2>3
<1>6. Above(w, n) \in Int
  BY <1>4, <1>5 DEF Above
<1>7. Signed(w) = Value(w, 31) - 2147483648 * Digit(w, 31)
  BY SignedValue, SMT
<1>8. Signed(w) = Power(n) * Above(w, n) + Value(w, n)
  <2>1. CASE Digit(w, 31) = 0
    <3>1. Above(w, n) = Value(Shr(w, n), 31 - n)
      BY <1>5, <2>1 DEF Above
    <3>2. Signed(w) = Value(w, 31)
      BY <1>2, <1>5, <1>7, <2>1, SMT
    <3> QED BY <1>2, <1>5, <3>1, <3>2
  <2>2. CASE Digit(w, 31) = 1
    <3>1. Above(w, n) = Value(Shr(w, n), 31 - n) - Power(31 - n)
      BY <1>5, <2>2 DEF Above
    <3>2. Signed(w) = Value(w, 31) - Power(n) * Power(31 - n)
      BY <1>2, <1>3, <1>5, <1>7, <2>2, SMT
    <3> QED BY <1>2, <1>5, <3>1, <3>2
  <2> QED BY <1>4, <2>1, <2>2
<1> QED BY <1>5, <1>6, <1>8, DivMod

(* The bits of the number of a word are the word's.                        *)
LEMMA BitOfSigned ==
  ASSUME NEW w \in Words, NEW i \in 0..30
  PROVE  (Signed(w) \div Power(i)) % 2 = 1 <=> i \in w
<1>1. i \in 0..31 /\ 31 - i \in 0..32 /\ 30 - i \in 0..31 /\ (30 - i) + 1 = 31 - i /\ i \in Nat
      /\ 1 \in 0..32 /\ 30 - i \in 0..(32 - 1) /\ 1 + (30 - i) = 31 - i /\ 0 \in Bits
  BY DEF Bits
<1> DEFINE u == Shr(w, i)
<1>2. u \in Words /\ (0 \in u <=> i \in w)
  <2>1. 0 \in u <=> 0 + i \in w
    BY <1>1, ShrBit
  <2> QED BY <2>1 DEF Shr, Words
<1> HIDE DEF u
<1>3. Value(u, 31 - i) = Value(u, 1) + Power(1) * Value(Shr(u, 1), 30 - i)
  <2>1. Value(u, 1 + (30 - i)) = Value(u, 1) + Power(1) * Value(Shr(u, 1), 30 - i)
    BY <1>1, <1>2, ValueSplit
  <2> QED BY <1>1, <2>1
<1>4. Power(1) = 2 /\ Power(0) = 1
  BY DEF Power
<1>5. Value(u, 1) = Digit(u, 0)
  BY <1>4, ValueStep DEF BitWeight, Digit
<1>6. Value(Shr(u, 1), 30 - i) \in Nat /\ Power(31 - i) = 2 * Power(30 - i) /\ Power(30 - i) \in Nat
  BY <1>1, ValueStep, PowerProperties
<1>7. Above(w, i) = Value(u, 31 - i) - Power(31 - i) * Digit(w, 31)
  BY DEF Above, u
<1>8. Above(w, i) = 2 * (Value(Shr(u, 1), 30 - i) - Power(30 - i) * Digit(w, 31)) + Digit(u, 0)
  <2>1. CASE Digit(w, 31) = 0
    BY <1>3, <1>4, <1>5, <1>6, <1>7, <2>1 DEF Digit
  <2>2. CASE Digit(w, 31) = 1
    BY <1>3, <1>4, <1>5, <1>6, <1>7, <2>2 DEF Digit
  <2> QED BY <2>1, <2>2 DEF Digit
<1>9. Value(Shr(u, 1), 30 - i) - Power(30 - i) * Digit(w, 31) \in Int /\ Digit(u, 0) \in 0..1
  BY <1>6 DEF Digit
<1>10. Above(w, i) % 2 = Digit(u, 0)
  BY <1>8, <1>9
<1>11. Signed(w) \div Power(i) = Above(w, i)
  BY <1>1, SignedSplit
<1> QED BY <1>2, <1>10, <1>11 DEF Digit

-----------------------------------------------------------------------------
(* Shifting left by one is doubling, and by more is doubling again.        *)
LEMMA ShlAgain ==
  ASSUME NEW w \in Words
  PROVE  /\ Shl(w, 0) = w
         /\ \A n \in Nat : Shl(w, n + 1) = Shl(Shl(w, n), 1)
         /\ Shl(w, 1) = Add(w, w)
<1>1. Shl(w, 0) = w
  <2>1. \A i \in Bits : i \in Shl(w, 0) <=> i - 0 \in w
    BY ShlBit
  <2>2. \A i \in Bits : i - 0 = i
    BY DEF Bits
  <2>3. Shl(w, 0) \subseteq Bits /\ w \subseteq Bits
    BY DEF Shl, Words
  <2> QED BY <2>1, <2>2, <2>3
<1>2. ASSUME NEW n \in Nat PROVE Shl(w, n + 1) = Shl(Shl(w, n), 1)
  <2> DEFINE u == Shl(w, n)
  <2>0. u \in Words
    BY DEF Shl, Words
  <2>1. \A i \in Bits : i \in Shl(w, n + 1) <=> i - (n + 1) \in w
    <3>1. n + 1 \in Nat
      OBVIOUS
    <3> QED BY <3>1, ShlBit
  <2>2. \A i \in Bits : i \in u <=> i - n \in w
    BY ShlBit
  <2>3. \A i \in Bits : i \in Shl(u, 1) <=> i - 1 \in u
    BY <2>0, ShlBit
  <2>4. ASSUME NEW i \in Bits PROVE i - 1 \in u <=> i - (n + 1) \in w
    <3>1. CASE i = 0
      <4>1. i - 1 \notin u
        BY <2>0, <3>1 DEF Words, Bits
      <4>2. i - (n + 1) \notin w
        BY <3>1 DEF Words, Bits
      <4> QED BY <4>1, <4>2
    <3>2. CASE i # 0
      <4>1. i - 1 \in Bits /\ (i - 1) - n = i - (n + 1)
        BY <3>2 DEF Bits
      <4> QED BY <4>1, <2>2
    <3> QED BY <3>1, <3>2
  <2>5. Shl(w, n + 1) \subseteq Bits /\ Shl(u, 1) \subseteq Bits
    BY DEF Shl
  <2> HIDE DEF u
  <2>6. Shl(w, n + 1) = Shl(u, 1)
    BY <2>1, <2>3, <2>4, <2>5
  <2> QED BY <2>6 DEF u
<1>3. Shl(w, 1) = Add(w, w)
  <2>1. \A i \in Bits : i \in Shl(w, 1) <=> i - 1 \in w
    BY ShlBit
  <2>2. \A i \in Bits : i \in Add(w, w) <=> i \in Carries(w, w)
    BY AddBit
  <2>3. ASSUME NEW i \in Bits PROVE i \in Carries(w, w) <=> i - 1 \in w
    <3>1. CASE i = 0
      BY <3>1, CarryStep DEF Words, Bits
    <3>2. CASE i # 0
      <4>1. i - 1 \in 0..30 /\ (i - 1) + 1 = i
        BY <3>2 DEF Bits
      <4> QED BY <4>1, CarryStep
    <3> QED BY <3>1, <3>2
  <2>4. Shl(w, 1) \subseteq Bits /\ Add(w, w) \subseteq Bits
    BY DEF Shl, Add, Xor, Carries, Words
  <2> QED BY <2>1, <2>2, <2>3, <2>4
<1> QED BY <1>1, <1>2, <1>3

(* Shifting right is dividing, of the unsigned number.                     *)
LEMMA DivDiv ==
  ASSUME NEW a \in Int, NEW p \in Nat \ {0}, NEW q \in Nat \ {0}
  PROVE  (a \div p) \div q = a \div (p * q)
<1> DEFINE x == a \div p
           r == a % p
           y == x \div q
           t == x % q
<1>1. x \in Int /\ r \in 0..(p - 1) /\ a = p * x + r
  OBVIOUS
<1>2. y \in Int /\ t \in 0..(q - 1) /\ x = q * y + t
  BY <1>1
<1> HIDE DEF x, r, y, t
<1>3. a = (p * q) * y + (p * t + r)
  <2>1. p * x = p * (q * y + t)
    BY <1>2
  <2>2. p * (q * y + t) = (p * q) * y + p * t
    BY <1>2
  <2> QED BY <1>1, <1>2, <2>1, <2>2
<1>4. p * t + r \in 0..(p * q - 1) /\ p * q \in Nat \ {0}
  <2>1. p * t <= p * (q - 1)
    BY <1>2
  <2>2. p * (q - 1) = p * q - p
    OBVIOUS
  <2>3. p * t \in Nat /\ p * q \in Nat \ {0}
    BY <1>2
  <2> QED BY <1>1, <2>1, <2>2, <2>3
<1>5. a \div (p * q) = y
  BY <1>2, <1>3, <1>4, DivMod
<1> QED BY <1>5 DEF y, x

(* The digits of a word from n on, the sign among them.                    *)
LEMMA AboveDigits ==
  ASSUME NEW w \in Words, NEW n \in 0..31
  PROVE  /\ Above(w, n) = Value(Shr(w, n), 32 - n) - Power(32 - n) * Digit(w, 31)
         /\ Value(Shr(w, n), 32 - n) \in Nat
<1> DEFINE u == Shr(w, n)
<1>1. 31 - n \in 0..31 /\ (31 - n) + 1 = 32 - n /\ 31 - n \in Bits /\ (31 - n) + n = 31 /\ n \in Nat
      /\ 32 - n \in 0..32
  BY DEF Bits
<1>2. 31 - n \in u <=> 31 \in w
  <2>1. 31 - n \in u <=> (31 - n) + n \in w
    BY <1>1, ShrBit
  <2> QED BY <1>1, <2>1
<1> HIDE DEF u
<1>3. Value(u, 32 - n) = Value(u, 31 - n) + BitWeight(u, 31 - n) /\ Value(u, 32 - n) \in Nat
  BY <1>1, ValueStep
<1>4. Power(32 - n) = 2 * Power(31 - n) /\ Power(31 - n) \in Nat
  BY <1>1, PowerProperties
<1>5. Above(w, n) = Value(u, 31 - n) - Power(31 - n) * Digit(w, 31)
  BY DEF Above, u
<1>6. Value(u, 31 - n) \in Nat
  BY <1>1, ValueStep
<1>7. CASE 31 \in w
  BY <1>2, <1>3, <1>4, <1>5, <1>6, <1>7 DEF BitWeight, Digit, u
<1>8. CASE 31 \notin w
  BY <1>2, <1>3, <1>4, <1>5, <1>6, <1>8 DEF BitWeight, Digit, u
<1> QED BY <1>7, <1>8

LEMMA ShrSigned ==
  ASSUME NEW w \in Words, NEW n \in 1..31
  PROVE  Signed(Shr(w, n)) = (Signed(w) \div Power(n))
                             + IF Signed(w) < 0 THEN Power(31 - n) + Power(31 - n) ELSE 0
<1> DEFINE u == Shr(w, n)
<1>1. n \in 0..31 /\ n \in Nat /\ 32 - n \in 0..31 /\ 32 - n \in 0..32 /\ 31 - n \in 0..31
      /\ (31 - n) + 1 = 32 - n /\ 31 \in (32 - n)..32 /\ 31 \in Bits
  BY DEF Bits
<1>2. \A i \in (32 - n)..31 : i \notin u
  <2>1. \A i \in (32 - n)..31 : i \in Bits /\ i + n \notin Bits
    BY DEF Bits
  <2>2. \A i \in Bits : i \in u <=> i + n \in w
    BY <1>1, ShrBit
  <2> QED BY <2>1, <2>2 DEF Words
<1>3. 31 \notin u
  BY <1>2
<1> HIDE DEF u
<1>4. Value(u, 31) = Value(u, 32 - n)
  BY <1>1, <1>2, ValueAbove
<1>5. Above(w, n) = Value(u, 32 - n) - Power(32 - n) * Digit(w, 31) /\ Value(u, 32 - n) \in Nat
  BY <1>1, AboveDigits DEF u
<1>6. Signed(w) \div Power(n) = Above(w, n)
  BY <1>1, SignedSplit
<1>7. Power(32 - n) = 2 * Power(31 - n) /\ Power(31 - n) \in Nat
  BY <1>1, PowerProperties
<1>8. Signed(w) < 0 <=> 31 \in w
  BY SignedValue, SMT
<1>9. Signed(u) = Value(u, 32 - n)
  BY <1>3, <1>4 DEF Signed
<1>10. CASE 31 \in w
  BY <1>5, <1>6, <1>7, <1>8, <1>9, <1>10 DEF Digit, u
<1>11. CASE 31 \notin w
  BY <1>5, <1>6, <1>7, <1>8, <1>9, <1>11 DEF Digit, u
<1> QED BY <1>10, <1>11

(* A byte of a word is a byte of its number.                               *)
LEMMA ByteOfSigned ==
  ASSUME NEW w \in Words, NEW n \in 0..24
  PROVE  (Signed(w) \div Power(n)) % 256 = Value(Shr(w, n), 8)
<1> DEFINE u == Shr(w, n)
<1>1. n \in 0..31 /\ 32 - n \in 0..32 /\ 24 - n \in 0..24 /\ 24 - n \in 0..32 /\ 8 + (24 - n) = 32 - n
      /\ 24 - n \in 0..(32 - 8) /\ 8 \in 0..32 /\ u \in Words
  BY DEF Shr, Words
<1> HIDE DEF u
<1>2. Power(8) = 256
  BY DEF Power
<1>3. Value(u, 8 + (24 - n)) = Value(u, 8) + Power(8) * Value(Shr(u, 8), 24 - n)
  BY <1>1, ValueSplit
<1>4. Power(8 + (24 - n)) = Power(8) * Power(24 - n)
  BY <1>1, PowerSum
<1>5. Above(w, n) = Value(u, 32 - n) - Power(32 - n) * Digit(w, 31)
  BY <1>1, AboveDigits DEF u
<1>6. /\ Value(Shr(u, 8), 24 - n) \in Nat /\ Power(24 - n) \in Nat
      /\ Value(u, 8) \in Nat /\ Value(u, 8) < 256
  BY <1>1, <1>2, ValueStep, ValueRange, PowerProperties
<1>7. \E k \in Int : Above(w, n) = Value(u, 8) + 256 * k
  <2>1. CASE Digit(w, 31) = 0
    <3>1. Above(w, n) = Value(u, 8) + 256 * Value(Shr(u, 8), 24 - n)
      BY <1>1, <1>2, <1>3, <1>4, <1>5, <1>6, <2>1
    <3> QED BY <1>6, <3>1
  <2>2. CASE Digit(w, 31) = 1
    <3>1. Above(w, n) = Value(u, 8) + 256 * (Value(Shr(u, 8), 24 - n) - Power(24 - n))
      BY <1>1, <1>2, <1>3, <1>4, <1>5, <1>6, <2>2
    <3>2. Value(Shr(u, 8), 24 - n) - Power(24 - n) \in Int
      BY <1>6
    <3> QED BY <3>1, <3>2
  <2> QED BY <2>1, <2>2 DEF Digit
<1>8. Above(w, n) % 256 = Value(u, 8)
  BY <1>6, <1>7
<1>9. Signed(w) \div Power(n) = Above(w, n)
  BY <1>1, SignedSplit
<1> QED BY <1>8, <1>9 DEF u

-----------------------------------------------------------------------------
(* Words put together from parts.                                          *)
LEMMA SignedUnion ==
  ASSUME NEW v, NEW w, v \cap w = {}
  PROVE  Signed(v \union w) = Signed(v) + Signed(w)
<1>1. Value(v \union w, 31) = Value(v, 31) + Value(w, 31)
  BY ValueUnion
<1>2. Digit(v \union w, 31) = Digit(v, 31) + Digit(w, 31)
  BY DEF Digit
<1>3. /\ Signed(v) = Value(v, 31) - 2147483648 * Digit(v, 31) /\ Value(v, 31) \in Nat
      /\ Signed(w) = Value(w, 31) - 2147483648 * Digit(w, 31) /\ Value(w, 31) \in Nat
      /\ Signed(v \union w)
           = Value(v \union w, 31) - 2147483648 * Digit(v \union w, 31)
  BY SignedValue, SMT
<1> QED BY <1>1, <1>2, <1>3, SMT DEF Digit

(* A part of n bits, moved up by m.                                        *)
LEMMA SignedPart ==
  ASSUME NEW w \in Words, NEW m \in 0..31, NEW n \in 0..(31 - m), \A i \in w : i < n
  PROVE  Signed(Shl(w, m)) = Power(m) * Value(w, n)
<1> DEFINE s == Shl(w, m)
<1>1. \A i \in s : i < m + n
  BY DEF Shl, Words, Bits
<1>2. m + n \in 0..32 /\ 31 \in (m + n)..32 /\ n \in 0..(32 - m)
  OBVIOUS
<1>3. \A i \in (m + n)..31 : i \notin s
  BY <1>1
<1>4. 31 \notin s
  BY <1>2, <1>3
<1>5. Value(s, m + n) = Power(m) * Value(w, n)
  BY <1>2, ValueShl
<1> HIDE DEF s
<1>6. Value(s, 31) = Value(s, m + n)
  BY <1>2, <1>3, ValueAbove
<1> QED BY <1>4, <1>5, <1>6 DEF Signed, s

LEMMA SignedSmall ==
  ASSUME NEW w, NEW n \in 0..31, \A i \in w : i < n
  PROVE  Signed(w) = Value(w, n)
<1>1. \A i \in n..31 : i \notin w
  OBVIOUS
<1>2. 31 \in n..32 /\ 31 \notin w
  BY <1>1
<1> QED BY <1>1, <1>2, ValueAbove DEF Signed

(* The last two bits.                                                      *)
LEMMA LastBits ==
  ASSUME NEW w \in Words
  PROVE  /\ Value(w, 2) = Signed(w) % 4
         /\ Value(w, 2) = Digit(w, 0) + 2 * Digit(w, 1)
         /\ w \cap {0, 1} = {} <=> Signed(w) % 4 = 0
         /\ Signed(w \ {0}) = Signed(w) - (Signed(w) % 2)
<1>1. Power(0) = 1 /\ Power(1) = 2 /\ Power(2) = 4
  BY DEF Power
<1>2. Value(w, 1) = Digit(w, 0) /\ Value(w, 2) = Digit(w, 0) + 2 * Digit(w, 1)
  <2>1. Value(w, 0) = 0 /\ Value(w, 0 + 1) = Value(w, 0) + BitWeight(w, 0)
        /\ Value(w, 1 + 1) = Value(w, 1) + BitWeight(w, 1)
    BY ValueStep
  <2> QED BY <1>1, <2>1 DEF BitWeight, Digit
<1>3. Signed(w) % 2 = Value(w, 1) /\ Signed(w) % 4 = Value(w, 2)
  BY <1>1, SignedSplit
<1>4. Signed(w \ {0}) = Signed(w) - Digit(w, 0)
  <2>1. (w \ {0}) \cap (w \cap {0}) = {} /\ (w \ {0}) \union (w \cap {0}) = w
    OBVIOUS
  <2>2. Signed(w) = Signed(w \ {0}) + Signed(w \cap {0})
    BY <2>1, SignedUnion
  <2>3. Signed(w \cap {0}) = Digit(w, 0)
    <3>1. CASE 0 \in w
      <4>1. w \cap {0} = {0}
        BY <3>1
      <4> QED BY <1>1, <3>1, <4>1, SignedSingle DEF Digit
    <3>2. CASE 0 \notin w
      <4>1. w \cap {0} = {}
        BY <3>2
      <4> QED BY <3>2, <4>1, ValueEmpty DEF Digit, Signed
    <3> QED BY <3>1, <3>2
  <2>4. Signed(w \ {0}) \in Int /\ Digit(w, 0) \in Int
    BY SignedValue, SMT DEF Digit
  <2> QED BY <2>2, <2>3, <2>4
<1>5. w \cap {0, 1} = {} <=> Value(w, 2) = 0
  BY <1>2 DEF Digit
<1> QED BY <1>2, <1>3, <1>4, <1>5

(* The index of a word in an image of 2^18 bytes.                          *)
LEMMA WordIndex ==
  ASSUME NEW w \in Words, 0 <= Signed(w), Signed(w) < 262144
  PROVE  LoHalf(Shr(w, 2)) = Signed(w) \div 4
<1> DEFINE u == Shr(w, 2)
<1>1. u \in Words
  BY DEF Shr, Words
<1>2. Power(2) = 4 /\ Power(16) = 65536
  BY DEF Power
<1>3. Signed(w) = Value(w, 31)
  BY SignedValue, SMT DEF Signed
<1>4. Value(w, 2 + 29) = Value(w, 2) + Power(2) * Value(u, 29)
  BY ValueSplit
<1> HIDE DEF u
<1>5. Value(u, 16 + 13) = Value(u, 16) + Power(16) * Value(Shr(u, 16), 13)
  BY <1>1, ValueSplit
<1>6. /\ Value(w, 2) \in Nat /\ Value(w, 2) < 4 /\ Value(u, 29) \in Nat
      /\ Value(u, 16) \in Nat /\ Value(Shr(u, 16), 13) \in Nat
  BY <1>2, ValueStep, ValueRange
<1>7. Value(w, 31) = Value(w, 2) + 4 * Value(u, 29)
  BY <1>2, <1>4
<1>8. Value(u, 29) = Value(u, 16) + 65536 * Value(Shr(u, 16), 13)
  BY <1>2, <1>5
<1>9. Value(u, 29) = Signed(w) \div 4 /\ Value(u, 29) < 65536
  BY <1>3, <1>6, <1>7
<1>10. Value(Shr(u, 16), 13) = 0
  BY <1>6, <1>8, <1>9
<1>11. LoHalf(u) = Value(u, 16)
  BY DEF LoHalf
<1> QED BY <1>6, <1>8, <1>9, <1>10, <1>11 DEF u

-----------------------------------------------------------------------------
(* The formats: an instruction word as ten fields that no format splits,   *)
(* which are the digits of its two halves.                                 *)
Part(w, hi, lo) == Value(Field(w, hi, lo), hi - lo + 1)

LEMMA PartDigits ==
  ASSUME NEW w \in Words, NEW hi \in Bits, NEW lo \in 0..hi
  PROVE  /\ Part(w, hi, lo) \in Nat /\ Part(w, hi, lo) < Power(hi - lo + 1)
         /\ Value(w, hi + 1) = Value(w, lo) + Power(lo) * Part(w, hi, lo)
<1>1. hi - lo + 1 \in (hi - lo + 1)..32
  BY DEF Bits
<1> QED BY <1>1, FieldValue DEF Part

LEMMA Digits ==
  ASSUME NEW w \in Words
  PROVE  /\ Part(w, 6, 0) \in 0..127 /\ Part(w, 7, 7) \in 0..1
         /\ Part(w, 11, 8) \in 0..15 /\ Part(w, 14, 12) \in 0..7
         /\ Part(w, 15, 15) \in 0..1 /\ Part(w, 19, 16) \in 0..15
         /\ Part(w, 20, 20) \in 0..1 /\ Part(w, 24, 21) \in 0..15
         /\ Part(w, 30, 25) \in 0..63
         /\ Value(w, 7) = Part(w, 6, 0)
         /\ Value(w, 16) = Part(w, 6, 0) + 128 * Part(w, 7, 7) + 256 * Part(w, 11, 8)
                           + 4096 * Part(w, 14, 12) + 32768 * Part(w, 15, 15)
         /\ Value(Shr(w, 16), 16) = Part(w, 19, 16) + 16 * Part(w, 20, 20)
                                    + 32 * Part(w, 24, 21) + 512 * Part(w, 30, 25)
                                    + 32768 * Digit(w, 31)
         /\ Part(w, 11, 7) = Part(w, 7, 7) + 2 * Part(w, 11, 8)
         /\ Part(w, 19, 15) = Part(w, 15, 15) + 2 * Part(w, 19, 16)
         /\ Part(w, 24, 20) = Part(w, 20, 20) + 2 * Part(w, 24, 21)
         /\ Part(w, 31, 25) = Part(w, 30, 25) + 64 * Digit(w, 31)
         /\ Part(w, 30, 20) = Part(w, 20, 20) + 2 * Part(w, 24, 21) + 32 * Part(w, 30, 25)
         /\ Part(w, 31, 20) = Part(w, 20, 20) + 2 * Part(w, 24, 21) + 32 * Part(w, 30, 25)
                              + 2048 * Digit(w, 31)
         /\ Part(w, 19, 12) = Part(w, 14, 12) + 8 * Part(w, 15, 15) + 16 * Part(w, 19, 16)
<1> DEFINE V(n) == Value(w, n)
<1>1. /\ Power(0) = 1 /\ Power(1) = 2 /\ Power(3) = 8 /\ Power(4) = 16 /\ Power(5) = 32 /\ Power(6) = 64
      /\ Power(7) = 128 /\ Power(8) = 256
  BY DEF Power
<1>2. /\ Power(11) = 2048 /\ Power(12) = 4096 /\ Power(15) = 32768 /\ Power(16) = 65536
      /\ Power(20) = 1048576 /\ Power(21) = 2097152 /\ Power(25) = 33554432
      /\ Power(31) = 2147483648
  BY SMT DEF Power
<1> DEFINE D(hi, lo, p, q) ==
             /\ Part(w, hi, lo) \in Nat /\ Part(w, hi, lo) < p
             /\ V(hi + 1) = V(lo) + q * Part(w, hi, lo)
<1>3. D(6, 0, 128, 1) /\ V(0) = 0
  BY <1>1, PartDigits, ValueStep, SMT DEF Bits
<1>4. D(7, 7, 2, 128) /\ D(11, 7, 32, 128)
  BY <1>1, PartDigits, SMT DEF Bits
<1>5. D(11, 8, 16, 256)
  BY <1>1, PartDigits, SMT DEF Bits
<1>6. D(14, 12, 8, 4096)
  BY <1>1, <1>2, PartDigits, SMT DEF Bits
<1>6a. D(19, 12, 256, 4096)
  BY <1>1, <1>2, PartDigits, SMT DEF Bits
<1>7. D(15, 15, 2, 32768) /\ D(19, 15, 32, 32768)
  BY <1>1, <1>2, PartDigits, SMT DEF Bits
<1>8. D(19, 16, 16, 65536)
  BY <1>1, <1>2, PartDigits, SMT DEF Bits
<1>9. D(20, 20, 2, 1048576) /\ D(24, 20, 32, 1048576)
  BY <1>1, <1>2, PartDigits, SMT DEF Bits
<1>9a. D(30, 20, 2048, 1048576) /\ D(31, 20, 4096, 1048576)
  BY <1>1, <1>2, PartDigits, SMT DEF Bits
<1>10. D(24, 21, 16, 2097152)
  BY <1>1, <1>2, PartDigits, SMT DEF Bits
<1>11. D(30, 25, 64, 33554432) /\ D(31, 25, 128, 33554432)
  BY <1>1, <1>2, PartDigits, SMT DEF Bits
<1>12. /\ V(32) = V(31) + 2147483648 * Digit(w, 31) /\ Digit(w, 31) \in 0..1
       /\ V(31) \in Nat
  BY SignedValue, SMT DEF Digit
<1>13. V(32) = V(16) + 65536 * Value(Shr(w, 16), 16) /\ Value(Shr(w, 16), 16) \in Nat
  <2>1. Value(w, 16 + 16) = Value(w, 16) + Power(16) * Value(Shr(w, 16), 16)
    BY ValueSplit
  <2> QED BY <1>2, <2>1, ValueStep, SMT
<1>14. V(7) \in Nat /\ V(12) \in Nat /\ V(16) \in Nat /\ V(20) \in Nat /\ V(25) \in Nat
  BY ValueStep
<1> HIDE DEF V
<1> DEFINE a == Part(w, 6, 0)
           b == Part(w, 7, 7)
           c == Part(w, 11, 8)
           d == Part(w, 14, 12)
           e == Part(w, 15, 15)
           f == Part(w, 19, 16)
           g == Part(w, 20, 20)
           h == Part(w, 24, 21)
           i == Part(w, 30, 25)
           s == Digit(w, 31)
           p == Part(w, 11, 7)
           q == Part(w, 19, 15)
           r == Part(w, 24, 20)
           t == Part(w, 31, 25)
           u == Part(w, 30, 20)
           v == Part(w, 19, 12)
           x == Part(w, 31, 20)
           H == Value(Shr(w, 16), 16)
<1>15. /\ a \in Nat /\ a < 128 /\ V(7) = a
       /\ b \in Nat /\ b < 2 /\ V(8) = V(7) + 128 * b
       /\ c \in Nat /\ c < 16 /\ V(12) = V(8) + 256 * c
       /\ d \in Nat /\ d < 8 /\ V(15) = V(12) + 4096 * d
       /\ e \in Nat /\ e < 2 /\ V(16) = V(15) + 32768 * e
  BY <1>3, <1>4, <1>5, <1>6, <1>7, SMT
<1>16. /\ f \in Nat /\ f < 16 /\ V(20) = V(16) + 65536 * f
       /\ g \in Nat /\ g < 2 /\ V(21) = V(20) + 1048576 * g
       /\ h \in Nat /\ h < 16 /\ V(25) = V(21) + 2097152 * h
       /\ i \in Nat /\ i < 64 /\ V(31) = V(25) + 33554432 * i
  BY <1>8, <1>9, <1>10, <1>11, SMT
<1>17. s \in 0..1 /\ V(32) = V(31) + 2147483648 * s
  BY <1>12, SMT
<1>18. /\ p \in Nat /\ V(12) = V(7) + 128 * p
       /\ q \in Nat /\ V(20) = V(15) + 32768 * q
       /\ v \in Nat /\ V(20) = V(12) + 4096 * v
  BY <1>4, <1>6a, <1>7, SMT
<1>19. /\ r \in Nat /\ V(25) = V(20) + 1048576 * r
       /\ t \in Nat /\ V(32) = V(25) + 33554432 * t
       /\ u \in Nat /\ V(31) = V(20) + 1048576 * u
       /\ x \in Nat /\ V(32) = V(20) + 1048576 * x
       /\ H \in Nat /\ V(32) = V(16) + 65536 * H
  BY <1>9, <1>9a, <1>11, <1>13, SMT
<1> DEFINE v12 == V(12)
           v16 == V(16)
           v20 == V(20)
           v25 == V(25)
<1> HIDE DEF a, b, c, d, e, f, g, h, i, s, p, q, r, t, u, v, x, H, D
<1>20. /\ a \in 0..127 /\ b \in 0..1 /\ c \in 0..15 /\ d \in 0..7 /\ e \in 0..1
       /\ f \in 0..15 /\ g \in 0..1 /\ h \in 0..15 /\ i \in 0..63 /\ s \in 0..1
  BY <1>15, <1>16, <1>17, SMT
<1>21. V(12) = a + 128 * b + 256 * c
  BY <1>15, SMT
<1>22. V(16) = a + 128 * b + 256 * c + 4096 * d + 32768 * e
  BY <1>15, SMT
<1>23. V(20) = V(12) + 4096 * d + 32768 * e + 65536 * f
  BY <1>14, <1>15, <1>16, SMT
<1>24. V(25) = V(20) + 1048576 * g + 2097152 * h
  BY <1>14, <1>16, SMT
<1>25. H = f + 16 * g + 32 * h + 512 * i + 32768 * s
  <2>1. V(32) = V(16) + 65536 * f + 1048576 * g + 2097152 * h + 33554432 * i + 2147483648 * s
    BY <1>14, <1>16, <1>17, SMT
  <2> QED BY <1>14, <1>19, <1>20, <2>1, SMT
<1>26. p = b + 2 * c /\ q = e + 2 * f
  BY <1>14, <1>15, <1>16, <1>18, SMT
<1>27. r = g + 2 * h
  BY <1>14, <1>16, <1>19, <1>24, SMT
<1>28. t = i + 64 * s
  BY <1>14, <1>16, <1>17, <1>19, SMT
<1>29. u = g + 2 * h + 32 * i
  BY <1>14, <1>16, <1>19, <1>24, SMT
<1>30. x = g + 2 * h + 32 * i + 2048 * s
  BY <1>14, <1>16, <1>17, <1>19, <1>24, SMT
<1>31. v = d + 8 * e + 16 * f
  BY <1>14, <1>18, <1>20, <1>23, SMT
<1>32. /\ Part(w, 6, 0) = a /\ Part(w, 7, 7) = b /\ Part(w, 11, 8) = c
       /\ Part(w, 14, 12) = d /\ Part(w, 15, 15) = e /\ Part(w, 19, 16) = f
       /\ Part(w, 20, 20) = g /\ Part(w, 24, 21) = h /\ Part(w, 30, 25) = i
       /\ Part(w, 11, 7) = p /\ Part(w, 19, 15) = q /\ Part(w, 24, 20) = r
       /\ Part(w, 31, 25) = t /\ Part(w, 30, 20) = u /\ Part(w, 19, 12) = v
       /\ Part(w, 31, 20) = x /\ Digit(w, 31) = s /\ Value(Shr(w, 16), 16) = H
       /\ Value(w, 7) = V(7) /\ Value(w, 16) = V(16)
  BY DEF a, b, c, d, e, f, g, h, i, s, p, q, r, t, u, v, x, H, V
<1>33. V(7) = a
  BY <1>15
<1>34. /\ Part(w, 6, 0) \in 0..127 /\ Part(w, 7, 7) \in 0..1
       /\ Part(w, 11, 8) \in 0..15 /\ Part(w, 14, 12) \in 0..7
       /\ Part(w, 15, 15) \in 0..1 /\ Part(w, 19, 16) \in 0..15
       /\ Part(w, 20, 20) \in 0..1 /\ Part(w, 24, 21) \in 0..15
       /\ Part(w, 30, 25) \in 0..63
       /\ Value(w, 7) = Part(w, 6, 0)
  BY <1>20, <1>32, <1>33
<1>35. Value(w, 16) = Part(w, 6, 0) + 128 * Part(w, 7, 7) + 256 * Part(w, 11, 8)
                      + 4096 * Part(w, 14, 12) + 32768 * Part(w, 15, 15)
  BY <1>22, <1>32, SMT
<1>36. Value(Shr(w, 16), 16) = Part(w, 19, 16) + 16 * Part(w, 20, 20)
                               + 32 * Part(w, 24, 21) + 512 * Part(w, 30, 25)
                               + 32768 * Digit(w, 31)
  BY <1>25, <1>32, SMT
<1>37. /\ Part(w, 11, 7) = Part(w, 7, 7) + 2 * Part(w, 11, 8)
       /\ Part(w, 19, 15) = Part(w, 15, 15) + 2 * Part(w, 19, 16)
       /\ Part(w, 24, 20) = Part(w, 20, 20) + 2 * Part(w, 24, 21)
       /\ Part(w, 31, 25) = Part(w, 30, 25) + 64 * Digit(w, 31)
  BY <1>26, <1>27, <1>28, <1>32, SMT
<1>38. /\ Part(w, 30, 20) = Part(w, 20, 20) + 2 * Part(w, 24, 21) + 32 * Part(w, 30, 25)
       /\ Part(w, 31, 20) = Part(w, 20, 20) + 2 * Part(w, 24, 21) + 32 * Part(w, 30, 25)
                            + 2048 * Digit(w, 31)
  BY <1>29, <1>30, <1>32, SMT
<1>39. Part(w, 19, 12) = Part(w, 14, 12) + 8 * Part(w, 15, 15) + 16 * Part(w, 19, 16)
  BY <1>31, <1>32, SMT
<1> QED BY <1>34, <1>35, <1>36, <1>37, <1>38, <1>39, SMT

-----------------------------------------------------------------------------
(* The immediates as the numbers the formats give them.                    *)
LEMMA FieldIsPart ==
  ASSUME NEW w \in Words, NEW hi \in 0..30, NEW lo \in 0..hi
  PROVE  /\ Field(w, hi, lo) \in Words
         /\ \A i \in Field(w, hi, lo) : i \in Nat /\ i < hi - lo + 1
         /\ Signed(Field(w, hi, lo)) = Part(w, hi, lo)
<1> DEFINE f == Field(w, hi, lo)
           n == hi - lo + 1
<1>1. f \in Words
  BY DEF Field, Shr, Words
<1>2. \A i \in f : i \in Nat /\ i < n
  BY DEF Field, Shr, Words, Bits
<1>3. n \in 0..31
  OBVIOUS
<1> HIDE DEF f, n
<1>4. Signed(f) = Value(f, n)
  BY <1>2, <1>3, SignedSmall
<1> QED BY <1>1, <1>2, <1>4 DEF f, n, Part

LEMMA ShiftedPart ==
  ASSUME NEW w \in Words, NEW hi \in 0..30, NEW lo \in 0..hi, NEW m \in 0..31,
         NEW top \in 0..31, m + (hi - lo + 1) = top
  PROVE  /\ Shl(Field(w, hi, lo), m) \in Words
         /\ \A i \in Shl(Field(w, hi, lo), m) : i \in Nat /\ m <= i /\ i < top
         /\ Signed(Shl(Field(w, hi, lo), m)) = Power(m) * Part(w, hi, lo)
<1> DEFINE f == Field(w, hi, lo)
           n == hi - lo + 1
<1>1. f \in Words /\ \A i \in f : i \in Nat /\ i < n
  BY FieldIsPart
<1>2. n \in 0..(31 - m) /\ m + n = top
  OBVIOUS
<1>3. Part(w, hi, lo) = Value(f, n)
  BY DEF Part
<1> HIDE DEF f, n
<1>4. Signed(Shl(f, m)) = Power(m) * Value(f, n)
  BY <1>1, <1>2, SignedPart
<1>5. Shl(f, m) \in Words /\ \A i \in Shl(f, m) : i \in Nat /\ m <= i /\ i < top
  BY <1>1, <1>2 DEF Shl, Words, Bits
<1>6. Signed(Shl(f, m)) = Power(m) * Part(w, hi, lo)
  BY <1>3, <1>4
<1> QED BY <1>5, <1>6 DEF f

LEMMA FillFrom ==
  ASSUME NEW w, NEW from \in 0..31
  PROVE  /\ SignFill(31 \in w, from) \in Words
         /\ \A i \in SignFill(31 \in w, from) : i \in Nat /\ from <= i
         /\ Signed(SignFill(31 \in w, from)) = -(Power(from) * Digit(w, 31))
<1>1. SignFill(31 \in w, from) \in Words
  BY DEF SignFill, Words
<1>2. \A i \in SignFill(31 \in w, from) : i \in Nat /\ from <= i
  BY DEF SignFill, Bits
<1>3. Power(from) \in Nat
  BY PowerProperties
<1>4. CASE 31 \in w
  <2>1. Signed(SignFill(TRUE, from)) = -Power(from)
    BY SignFillSigned
  <2>2. SignFill(31 \in w, from) = SignFill(TRUE, from)
    BY <1>4 DEF SignFill
  <2>3. Digit(w, 31) = 1
    BY <1>4 DEF Digit
  <2>4. Power(from) * 1 = Power(from)
    BY <1>3
  <2>5. Signed(SignFill(31 \in w, from)) = -(Power(from) * Digit(w, 31))
    BY <2>1, <2>2, <2>3, <2>4
  <2> QED BY <1>1, <1>2, <2>5
<1>5. CASE 31 \notin w
  <2>1. Signed(SignFill(FALSE, from)) = 0
    BY SignFillSigned
  <2>2. SignFill(31 \in w, from) = SignFill(FALSE, from)
    BY <1>5 DEF SignFill
  <2>3. Digit(w, 31) = 0
    BY <1>5 DEF Digit
  <2>4. -(Power(from) * 0) = 0
    BY <1>3
  <2>5. Signed(SignFill(31 \in w, from)) = -(Power(from) * Digit(w, 31))
    BY <2>1, <2>2, <2>3, <2>4
  <2> QED BY <1>1, <1>2, <2>5
<1> QED BY <1>4, <1>5

LEMMA ImmediateI ==
  ASSUME NEW raw \in Words
  PROVE  /\ read_i_immediate(raw) \in Words
         /\ Signed(read_i_immediate(raw)) = Part(raw, 30, 20) - 2048 * Digit(raw, 31)
         /\ 12 \in read_i_immediate(raw) <=> 31 \in raw
<1> DEFINE f == Field(raw, 30, 20)
           s == SignFill(31 \in raw, 11)
<1>1. /\ f \in Words /\ \A i \in f : i \in Nat /\ i < 11
      /\ Signed(f) = Part(raw, 30, 20)
  BY FieldIsPart
<1>2. /\ s \in Words /\ \A i \in s : i \in Nat /\ 11 <= i
      /\ Signed(s) = -(2048 * Digit(raw, 31))
  <2>1. Power(11) = 2048
    BY DEF Power
  <2> QED BY <2>1, FillFrom
<1>3. 12 \in s <=> 31 \in raw
  BY DEF SignFill, Bits
<1>4. read_i_immediate(raw) = f \union s
  BY DEF read_i_immediate
<1> HIDE DEF f, s
<1>5. f \cap s = {} /\ 12 \notin f
  BY <1>1, <1>2
<1>6. Signed(f \union s) = Signed(f) + Signed(s)
  BY <1>5, SignedUnion
<1>7. Part(raw, 30, 20) \in Int /\ 2048 * Digit(raw, 31) \in Int
  <2>1. Part(raw, 30, 20) \in Nat
    BY PartDigits DEF Bits
  <2> QED BY <2>1 DEF Digit
<1> QED BY <1>1, <1>2, <1>3, <1>4, <1>5, <1>6, <1>7 DEF Words

LEMMA ImmediateS ==
  ASSUME NEW raw \in Words
  PROVE  /\ read_s_immediate(raw) \in Words
         /\ Signed(read_s_immediate(raw))
              = Part(raw, 11, 7) + 32 * Part(raw, 30, 25) - 2048 * Digit(raw, 31)
<1> DEFINE e == Field(raw, 11, 7)
           f == Shl(Field(raw, 30, 25), 5)
           s == SignFill(31 \in raw, 11)
<1>0. Power(11) = 2048 /\ Power(5) = 32
  BY DEF Power
<1>1. /\ e \in Words /\ \A i \in e : i \in Nat /\ i < 5
      /\ Signed(e) = Part(raw, 11, 7)
  BY FieldIsPart
<1>2. /\ f \in Words /\ \A i \in f : i \in Nat /\ 5 <= i /\ i < 11
      /\ Signed(f) = 32 * Part(raw, 30, 25)
  <2>1. /\ 30 \in 0..30 /\ 25 \in 0..30 /\ 5 \in 0..31 /\ 11 \in 0..31
        /\ 5 + (30 - 25 + 1) = 11
    OBVIOUS
  <2>2. /\ f \in Words /\ \A i \in f : i \in Nat /\ 5 <= i /\ i < 11
        /\ Signed(f) = Power(5) * Part(raw, 30, 25)
    BY <2>1, ShiftedPart, Zenon
  <2> QED BY <1>0, <2>2, SMT
<1>3. /\ s \in Words /\ \A i \in s : i \in Nat /\ 11 <= i
      /\ Signed(s) = -(2048 * Digit(raw, 31))
  BY <1>0, FillFrom
<1>4. read_s_immediate(raw) = (e \union f) \union s
  BY DEF read_s_immediate
<1> HIDE DEF e, f, s
<1>5. e \cap f = {} /\ (e \union f) \cap s = {}
  BY <1>1, <1>2, <1>3
<1>6. Signed(e \union f) = Signed(e) + Signed(f)
  BY <1>5, SignedUnion
<1>7. Signed((e \union f) \union s) = Signed(e \union f) + Signed(s)
  BY <1>5, SignedUnion
<1>8. Part(raw, 11, 7) \in Int /\ Part(raw, 30, 25) \in Int /\ Digit(raw, 31) \in Int
  BY PartDigits DEF Bits, Digit
<1> QED BY <1>1, <1>2, <1>3, <1>4, <1>6, <1>7, <1>8 DEF Words

LEMMA ImmediateB ==
  ASSUME NEW raw \in Words
  PROVE  /\ read_b_immediate(raw) \in Words
         /\ Signed(read_b_immediate(raw))
              = 2 * Part(raw, 11, 8) + 32 * Part(raw, 30, 25) + 2048 * Part(raw, 7, 7)
                - 4096 * Digit(raw, 31)
<1> DEFINE e == Shl(Field(raw, 11, 8), 1)
           f == Shl(Field(raw, 30, 25), 5)
           g == Shl(Field(raw, 7, 7), 11)
           s == SignFill(31 \in raw, 12)
<1>0. Power(1) = 2 /\ Power(5) = 32 /\ Power(11) = 2048 /\ Power(12) = 4096
  BY DEF Power
<1>1. /\ e \in Words /\ \A i \in e : i \in Nat /\ 1 <= i /\ i < 5
      /\ Signed(e) = 2 * Part(raw, 11, 8)
  <2>1. /\ 11 \in 0..30 /\ 8 \in 0..11 /\ 1 \in 0..31 /\ 5 \in 0..31
        /\ 1 + (11 - 8 + 1) = 5
    OBVIOUS
  <2>2. /\ e \in Words /\ \A i \in e : i \in Nat /\ 1 <= i /\ i < 5
        /\ Signed(e) = Power(1) * Part(raw, 11, 8)
    BY <2>1, ShiftedPart, Zenon
  <2> QED BY <1>0, <2>2, SMT
<1>2. /\ f \in Words /\ \A i \in f : i \in Nat /\ 5 <= i /\ i < 11
      /\ Signed(f) = 32 * Part(raw, 30, 25)
  <2>1. /\ 30 \in 0..30 /\ 25 \in 0..30 /\ 5 \in 0..31 /\ 11 \in 0..31
        /\ 5 + (30 - 25 + 1) = 11
    OBVIOUS
  <2>2. /\ f \in Words /\ \A i \in f : i \in Nat /\ 5 <= i /\ i < 11
        /\ Signed(f) = Power(5) * Part(raw, 30, 25)
    BY <2>1, ShiftedPart, Zenon
  <2> QED BY <1>0, <2>2, SMT
<1>3. /\ g \in Words /\ \A i \in g : i \in Nat /\ 11 <= i /\ i < 12
      /\ Signed(g) = 2048 * Part(raw, 7, 7)
  <2>1. /\ 7 \in 0..30 /\ 7 \in 0..7 /\ 11 \in 0..31 /\ 12 \in 0..31
        /\ 11 + (7 - 7 + 1) = 12
    OBVIOUS
  <2>2. /\ g \in Words /\ \A i \in g : i \in Nat /\ 11 <= i /\ i < 12
        /\ Signed(g) = Power(11) * Part(raw, 7, 7)
    BY <2>1, ShiftedPart, Zenon
  <2> QED BY <1>0, <2>2, SMT
<1>4. /\ s \in Words /\ \A i \in s : i \in Nat /\ 12 <= i
      /\ Signed(s) = -(4096 * Digit(raw, 31))
  BY <1>0, FillFrom
<1>5. read_b_immediate(raw) = ((e \union f) \union g) \union s
  BY DEF read_b_immediate
<1> HIDE DEF e, f, g, s
<1>6. e \cap f = {} /\ (e \union f) \cap g = {} /\ ((e \union f) \union g) \cap s = {}
  BY <1>1, <1>2, <1>3, <1>4
<1>7. Signed(e \union f) = Signed(e) + Signed(f)
  BY <1>6, SignedUnion
<1>8. Signed((e \union f) \union g) = Signed(e \union f) + Signed(g)
  BY <1>6, SignedUnion
<1>9. Signed(((e \union f) \union g) \union s) = Signed((e \union f) \union g) + Signed(s)
  BY <1>6, SignedUnion
<1>10. /\ Part(raw, 11, 8) \in Int /\ Part(raw, 30, 25) \in Int /\ Part(raw, 7, 7) \in Int
       /\ Digit(raw, 31) \in Int
  BY PartDigits DEF Bits, Digit
<1> QED BY <1>1, <1>2, <1>3, <1>4, <1>5, <1>7, <1>8, <1>9, <1>10 DEF Words

LEMMA ImmediateJ ==
  ASSUME NEW raw \in Words
  PROVE  /\ read_j_immediate(raw) \in Words
         /\ Signed(read_j_immediate(raw))
              = 2 * Part(raw, 24, 21) + 32 * Part(raw, 30, 25) + 2048 * Part(raw, 20, 20)
                + 4096 * Part(raw, 19, 12) - 1048576 * Digit(raw, 31)
<1> DEFINE e == Shl(Field(raw, 24, 21), 1)
           f == Shl(Field(raw, 30, 25), 5)
           g == Shl(Field(raw, 20, 20), 11)
           h == Shl(Field(raw, 19, 12), 12)
           s == SignFill(31 \in raw, 20)
<1>0. Power(1) = 2 /\ Power(5) = 32 /\ Power(11) = 2048 /\ Power(12) = 4096
  BY DEF Power
<1>1. /\ e \in Words /\ \A i \in e : i \in Nat /\ 1 <= i /\ i < 5
      /\ Signed(e) = 2 * Part(raw, 24, 21)
  <2>1. /\ 24 \in 0..30 /\ 21 \in 0..24 /\ 1 \in 0..31 /\ 5 \in 0..31
        /\ 1 + (24 - 21 + 1) = 5
    OBVIOUS
  <2>2. /\ e \in Words /\ \A i \in e : i \in Nat /\ 1 <= i /\ i < 5
        /\ Signed(e) = Power(1) * Part(raw, 24, 21)
    BY <2>1, ShiftedPart, Zenon
  <2> QED BY <1>0, <2>2, SMT
<1>2. /\ f \in Words /\ \A i \in f : i \in Nat /\ 5 <= i /\ i < 11
      /\ Signed(f) = 32 * Part(raw, 30, 25)
  <2>1. /\ 30 \in 0..30 /\ 25 \in 0..30 /\ 5 \in 0..31 /\ 11 \in 0..31
        /\ 5 + (30 - 25 + 1) = 11
    OBVIOUS
  <2>2. /\ f \in Words /\ \A i \in f : i \in Nat /\ 5 <= i /\ i < 11
        /\ Signed(f) = Power(5) * Part(raw, 30, 25)
    BY <2>1, ShiftedPart, Zenon
  <2> QED BY <1>0, <2>2, SMT
<1>3. /\ g \in Words /\ \A i \in g : i \in Nat /\ 11 <= i /\ i < 12
      /\ Signed(g) = 2048 * Part(raw, 20, 20)
  <2>1. /\ 20 \in 0..30 /\ 20 \in 0..20 /\ 11 \in 0..31 /\ 12 \in 0..31
        /\ 11 + (20 - 20 + 1) = 12
    OBVIOUS
  <2>2. /\ g \in Words /\ \A i \in g : i \in Nat /\ 11 <= i /\ i < 12
        /\ Signed(g) = Power(11) * Part(raw, 20, 20)
    BY <2>1, ShiftedPart, Zenon
  <2> QED BY <1>0, <2>2, SMT
<1>4. /\ h \in Words /\ \A i \in h : i \in Nat /\ 12 <= i /\ i < 20
      /\ Signed(h) = 4096 * Part(raw, 19, 12)
  <2>1. /\ 19 \in 0..30 /\ 12 \in 0..19 /\ 12 \in 0..31 /\ 20 \in 0..31
        /\ 12 + (19 - 12 + 1) = 20
    OBVIOUS
  <2>2. /\ h \in Words /\ \A i \in h : i \in Nat /\ 12 <= i /\ i < 20
        /\ Signed(h) = Power(12) * Part(raw, 19, 12)
    BY <2>1, ShiftedPart, Zenon
  <2> QED BY <1>0, <2>2, SMT
<1>5. /\ s \in Words /\ \A i \in s : i \in Nat /\ 20 <= i
      /\ Signed(s) = -(1048576 * Digit(raw, 31))
  <2>1. Power(20) = 1048576
    BY SMT DEF Power
  <2> QED BY <2>1, FillFrom, SMT
<1>6. read_j_immediate(raw) = (((e \union f) \union g) \union h) \union s
  BY DEF read_j_immediate
<1> HIDE DEF e, f, g, h, s
<1>7. /\ e \cap f = {} /\ (e \union f) \cap g = {} /\ ((e \union f) \union g) \cap h = {}
      /\ (((e \union f) \union g) \union h) \cap s = {}
  BY <1>1, <1>2, <1>3, <1>4, <1>5, SMT
<1>8. Signed(e \union f) = Signed(e) + Signed(f)
  BY <1>7, SignedUnion
<1>9. Signed((e \union f) \union g) = Signed(e \union f) + Signed(g)
  BY <1>7, SignedUnion
<1>10. Signed(((e \union f) \union g) \union h) = Signed((e \union f) \union g) + Signed(h)
  BY <1>7, SignedUnion
<1>11. Signed((((e \union f) \union g) \union h) \union s)
         = Signed(((e \union f) \union g) \union h) + Signed(s)
  BY <1>7, SignedUnion
<1>12. /\ Part(raw, 24, 21) \in Int /\ Part(raw, 30, 25) \in Int /\ Part(raw, 20, 20) \in Int
       /\ Part(raw, 19, 12) \in Int /\ Digit(raw, 31) \in Int
  BY PartDigits DEF Bits, Digit
<1>13. (((e \union f) \union g) \union h) \union s \in Words
  BY <1>1, <1>2, <1>3, <1>4, <1>5, SMT DEF Words
<1> QED BY <1>1, <1>2, <1>3, <1>4, <1>5, <1>6, <1>8, <1>9, <1>10, <1>11, <1>12, <1>13, SMT

LEMMA Halves ==
  ASSUME NEW w \in Words
  PROVE  /\ Value(w, 16) = Value(w, 8) + 256 * Value(Shr(w, 8), 8)
         /\ Value(Shr(w, 16), 16) = Value(Shr(w, 16), 8) + 256 * Value(Shr(w, 24), 8)
         /\ Shr(w, 0) = w
<1>1. Power(8) = 256
  BY DEF Power
<1>2. \A v \in Words : Value(v, 16) = Value(v, 8) + 256 * Value(Shr(v, 8), 8)
  <2>1. 8 \in 0..32 /\ 8 \in 0..(32 - 8) /\ 8 + 8 = 16
    OBVIOUS
  <2> QED BY <1>1, <2>1, ValueSplit
<1>3. Shr(w, 16) \in Words
  BY DEF Shr, Words
<1>4. Shr(Shr(w, 16), 8) = Shr(w, 24)
  <2>1. \A i \in Bits : i \in Shr(Shr(w, 16), 8) <=> i + 8 \in Shr(w, 16)
    BY <1>3, ShrBit
  <2>2. \A i \in Bits : i \in Shr(w, 24) <=> i + 24 \in w
    BY ShrBit
  <2>3. \A i \in Bits : i + 8 \in Shr(w, 16) <=> i + 24 \in w
    <3>1. \A i \in Bits : i \in Shr(w, 16) <=> i + 16 \in w
      BY ShrBit
    <3>2. \A i \in Bits : (i + 8) + 16 = i + 24 /\ (i + 24 \in w => i + 8 \in Bits)
                          /\ (i + 8 \in Shr(w, 16) => i + 8 \in Bits)
      BY DEF Bits, Words, Shr
    <3> QED BY <3>1, <3>2
  <2>4. Shr(Shr(w, 16), 8) \subseteq Bits /\ Shr(w, 24) \subseteq Bits
    BY DEF Shr
  <2> QED BY <2>1, <2>2, <2>3, <2>4
<1>5. Shr(w, 0) = w
  <2>1. \A i \in Bits : i \in Shr(w, 0) <=> i + 0 \in w
    BY ShrBit
  <2>2. \A i \in Bits : i + 0 = i
    BY DEF Bits
  <2>3. Shr(w, 0) \subseteq Bits /\ w \subseteq Bits
    BY DEF Shr, Words
  <2> QED BY <2>1, <2>2, <2>3
<1> QED BY <1>2, <1>3, <1>4, <1>5

LEMMA ImmediateU ==
  ASSUME NEW raw \in Words
  PROVE  /\ read_upper_immediate(raw) \in Words
         /\ Signed(read_upper_immediate(raw))
              = (Value(Shr(raw, 16), 16) - 65536 * Digit(raw, 31)) * 65536
                + 4096 * (Value(raw, 16) \div 4096)
<1> DEFINE low == raw \cap (0..11)
           up == raw \cap (12..31)
           u == Shr(raw, 16)
<1>1. low \in Words /\ up \in Words /\ u \in Words /\ low \cap up = {} /\ low \union up = raw
  <2>1. \A i \in raw : i \in 0..11 \/ i \in 12..31
    BY DEF Words, Bits
  <2>2. ~\E i \in raw : i \in 0..11 /\ i \in 12..31
    OBVIOUS
  <2>3. u \in Words
    BY DEF Words, Shr
  <2>4. low \in Words /\ up \in Words
    BY DEF Words
  <2>5. low \cap up = {}
    BY <2>2
  <2>6. low \union up = raw
    BY <2>1
  <2> QED BY <2>3, <2>4, <2>5, <2>6
<1>2. Signed(low) = Value(raw, 12)
  <2>1. \A i \in low : i < 12
    OBVIOUS
  <2>2. \A i \in 0..(12 - 1) : i \in low <=> i \in raw
    OBVIOUS
  <2> HIDE DEF low
  <2> QED BY <2>1, <2>2, SignedSmall, ValueAgree
<1>3. 15 \in u <=> 31 \in raw
  <2>1. 15 \in Bits /\ 15 + 16 = 31
    BY DEF Bits
  <2> QED BY <2>1, ShrBit
<1>4. read_upper_immediate(raw) = up
  BY DEF read_upper_immediate
<1> HIDE DEF low, up, u
<1>5. Signed(raw) = Value(raw, 12) + Signed(up)
  BY <1>1, <1>2, SignedUnion
<1>6. /\ Signed(raw) = Value(raw, 31) - 2147483648 * Digit(raw, 31)
      /\ Signed(up) \in Int
  BY SignedValue, SMT
<1>7. Value(raw, 31) = Value(raw, 16) + 65536 * Value(u, 15)
  <2>1. 16 \in 0..32 /\ 15 \in 0..(32 - 16) /\ 16 + 15 = 31
    OBVIOUS
  <2>2. Power(16) = 65536
    BY SMT DEF Power
  <2> QED BY <2>1, <2>2, ValueSplit, SMT DEF u
<1>8. Value(u, 16) = Value(u, 15) + 32768 * Digit(raw, 31)
  <2>1. 15 \in 0..31 /\ 15 + 1 = 16
    OBVIOUS
  <2>2. BitWeight(u, 15) = 32768 * Digit(raw, 31)
    <3>1. Power(15) = 32768
      BY SMT DEF Power
    <3> QED BY <1>3, <3>1, SMT DEF BitWeight, Digit
  <2>3. Value(u, 15 + 1) = Value(u, 15) + BitWeight(u, 15)
    BY <2>1, ValueStep
  <2> QED BY <2>1, <2>2, <2>3, SMT
<1>9. Value(raw, 16) = Value(raw, 12) + 4096 * Value(Shr(raw, 12), 4)
  <2>1. 12 \in 0..32 /\ 4 \in 0..(32 - 12) /\ 12 + 4 = 16
    OBVIOUS
  <2>2. Power(12) = 4096
    BY DEF Power
  <2> QED BY <2>1, <2>2, ValueSplit
<1>10. /\ Value(raw, 12) \in Nat /\ Value(raw, 12) < 4096 /\ Value(Shr(raw, 12), 4) \in Nat
       /\ Value(u, 15) \in Nat /\ Value(raw, 16) \in Nat
  <2>1. Power(12) = 4096
    BY DEF Power
  <2>2. 12 \in 0..32 /\ 4 \in 0..32 /\ 15 \in 0..32 /\ 16 \in 0..32
    OBVIOUS
  <2> QED BY <2>1, <2>2, ValueStep, ValueRange
<1>11. Value(raw, 16) \div 4096 = Value(Shr(raw, 12), 4)
  BY <1>9, <1>10
<1>12. Digit(raw, 31) \in {0, 1}
  BY DEF Digit
<1>13. Value(u, 16) - 65536 * Digit(raw, 31) = Value(u, 15) - 32768 * Digit(raw, 31)
  BY <1>8, <1>10, <1>12, SMT
<1>14. Signed(up) = (Value(u, 15) - 32768 * Digit(raw, 31)) * 65536
                    + 4096 * Value(Shr(raw, 12), 4)
  BY <1>5, <1>6, <1>7, <1>9, <1>10, <1>12, SMT
<1> QED BY <1>1, <1>4, <1>11, <1>13, <1>14, SMT DEF u

LEMMA ShiftAmount ==
  ASSUME NEW raw \in Words
  PROVE  read_shift_immediate(raw) = Part(raw, 24, 20)
<1> DEFINE imm == read_i_immediate(raw)
           f == Field(raw, 24, 20)
<1>1. \A i \in 0..(5 - 1) : i \in Bits /\ i + 20 <= 30 /\ i + 20 <= 24 /\ ~(i >= 11)
  BY DEF Bits
<1>2. \A i \in Bits : i \in Field(raw, 30, 20) <=> i + 20 \in raw /\ i + 20 <= 30
  <2>1. 30 \in Bits /\ 20 \in 0..30
    BY DEF Bits
  <2> QED BY <2>1, FieldBit
<1>3. \A i \in Bits : i \in f <=> i + 20 \in raw /\ i + 20 <= 24
  <2>1. 24 \in Bits /\ 20 \in 0..24
    BY DEF Bits
  <2> QED BY <2>1, FieldBit
<1>4. \A i \in 0..(5 - 1) : i \in imm <=> i \in f
  BY <1>1, <1>2, <1>3 DEF read_i_immediate, SignFill
<1> HIDE DEF imm, f
<1>5. Value(imm, 5) = Value(f, 5)
  BY <1>4, ValueAgree
<1> QED BY <1>5 DEF imm, f, read_shift_immediate, Part

(* The emulator's own way of reading the immediates of lbu, sb and sw.     *)
LEMMA OwnImmediates ==
  ASSUME NEW raw \in Words
  PROVE  /\ sext32_imm12(Imm_11_0(raw)) = read_i_immediate(raw)
         /\ sext32_imm12(Field(raw, 11, 7) \union Shl(Field(raw, 31, 25), 5))
              = read_s_immediate(raw)
<1>1. /\ 31 \in Bits /\ 30 \in Bits /\ 11 \in Bits /\ 20 \in 0..31 /\ 20 \in 0..30 /\ 25 \in 0..31
      /\ 25 \in 0..30 /\ 7 \in 0..11
  BY DEF Bits
<1>2. /\ \A i \in Bits : i \in Field(raw, 31, 20) <=> i + 20 \in raw /\ i + 20 <= 31
      /\ \A i \in Bits : i \in Field(raw, 30, 20) <=> i + 20 \in raw /\ i + 20 <= 30
      /\ \A i \in Bits : i \in Field(raw, 31, 25) <=> i + 25 \in raw /\ i + 25 <= 31
      /\ \A i \in Bits : i \in Field(raw, 30, 25) <=> i + 25 \in raw /\ i + 25 <= 30
      /\ \A i \in Bits : i \in Field(raw, 11, 7) <=> i + 7 \in raw /\ i + 7 <= 11
  BY <1>1, FieldBit
<1>3. \A hi, lo : Field(raw, hi, lo) \subseteq Bits /\ Field(raw, hi, lo) \in Words
  BY DEF Field, Shr, Words
<1>4. \A i \in Bits : i \in SignFill(31 \in raw, 12) <=> 31 \in raw /\ i >= 12
  BY DEF SignFill
<1>5. \A i \in Bits : i \in SignFill(31 \in raw, 11) <=> 31 \in raw /\ i >= 11
  BY DEF SignFill
<1>6. \A i \in Bits : i + 20 = 31 <=> i = 11
  BY DEF Bits
<1>7. sext32_imm12(Imm_11_0(raw)) = read_i_immediate(raw)
  <2> DEFINE x == Field(raw, 31, 20)
             y == Field(raw, 30, 20)
  <2>1. 11 \in x <=> 31 \in raw
    BY <1>1, <1>2
  <2>2. \A i \in Bits : i \in x <=> i \in y \/ (i = 11 /\ 31 \in raw)
    BY <1>2 DEF Bits
  <2>3. SignFill(11 \in x, 12) = SignFill(31 \in raw, 12)
    BY <2>1 DEF SignFill
  <2>4. \A i \in Bits : i >= 11 <=> i >= 12 \/ i = 11
    BY DEF Bits
  <2>5. x \subseteq Bits /\ y \subseteq Bits /\ \A p, from : SignFill(p, from) \subseteq Bits
    BY <1>3 DEF SignFill
  <2> HIDE DEF x, y
  <2>6. x \union SignFill(31 \in raw, 12) = y \union SignFill(31 \in raw, 11)
    BY <1>4, <1>5, <2>2, <2>4, <2>5
  <2> QED BY <2>3, <2>6 DEF x, y, sext32_imm12, Imm_11_0, read_i_immediate
<1>8. sext32_imm12(Field(raw, 11, 7) \union Shl(Field(raw, 31, 25), 5)) = read_s_immediate(raw)
  <2> DEFINE e == Field(raw, 11, 7)
             x == Shl(Field(raw, 31, 25), 5)
             y == Shl(Field(raw, 30, 25), 5)
  <2>1. /\ \A i \in Bits : i \in x <=> i - 5 \in Field(raw, 31, 25)
        /\ \A i \in Bits : i \in y <=> i - 5 \in Field(raw, 30, 25)
    BY <1>3, ShlBit
  <2>2. /\ \A i \in Bits : i \in x <=> i - 5 \in Bits /\ i + 20 \in raw /\ i <= 11
        /\ \A i \in Bits : i \in y <=> i - 5 \in Bits /\ i + 20 \in raw /\ i <= 10
    <3>1. \A i \in Bits : i - 5 \in Bits => (i - 5) + 25 = i + 20
      BY DEF Bits
    <3>2. \A i \in Bits : i - 5 \in Bits => /\ (i - 5) + 25 <= 31 <=> i <= 11
                                            /\ (i - 5) + 25 <= 30 <=> i <= 10
      BY DEF Bits
    <3> QED BY <1>2, <1>3, <2>1, <3>1, <3>2
  <2>3. \A i \in Bits : i \in x <=> i \in y \/ (i = 11 /\ 31 \in raw)
    BY <2>2 DEF Bits
  <2>4. 11 \in e \union x <=> 31 \in raw
    <3>1. 11 \notin e /\ 11 \notin y
      BY <1>1, <1>2, <2>2
    <3> HIDE DEF e, x, y
    <3> QED BY <1>1, <2>3, <3>1
  <2>5. SignFill(11 \in e \union x, 12) = SignFill(31 \in raw, 12)
    BY <2>4 DEF SignFill
  <2>6. \A i \in Bits : i >= 11 <=> i >= 12 \/ i = 11
    BY DEF Bits
  <2>7. /\ x \subseteq Bits /\ y \subseteq Bits /\ e \subseteq Bits
        /\ \A p, from : SignFill(p, from) \subseteq Bits
    BY <1>3 DEF SignFill, Shl
  <2> HIDE DEF e, x, y
  <2>8. (e \union x) \union SignFill(31 \in raw, 12) = (e \union y) \union SignFill(31 \in raw, 11)
    BY <1>4, <1>5, <2>3, <2>6, <2>7
  <2> QED BY <2>5, <2>8 DEF e, x, y, sext32_imm12, read_s_immediate
<1> QED BY <1>7, <1>8

-----------------------------------------------------------------------------
(* Numbers written into fields.                                            *)
LEMMA ModDiv ==
  ASSUME NEW a \in Int, NEW p \in Nat \ {0}, NEW h \in Nat \ {0}
  PROVE  ((a % (p * (2 * h))) \div p) % 2 = (a \div p) % 2
<1> DEFINE d == p * (2 * h)
           Q == a \div d
           r == a % d
           x == r \div p
           t == r % p
<1>1. d \in Nat \ {0}
  OBVIOUS
<1>2. Q \in Int /\ r \in 0..(d - 1) /\ a = d * Q + r
  <2> HIDE DEF d
  <2> QED BY <1>1
<1>3. x \in Int /\ t \in 0..(p - 1) /\ r = p * x + t
  BY <1>2
<1>4. d = p * (2 * h)
  OBVIOUS
<1> HIDE DEF d, Q, r, x, t
<1>5. a = p * (2 * (h * Q) + x) + t
  <2>1. d * Q = p * (2 * (h * Q))
    BY <1>2, <1>4
  <2>2. p * (2 * (h * Q) + x) = p * (2 * (h * Q)) + p * x
    BY <1>2, <1>3
  <2> QED BY <1>1, <1>2, <1>3, <2>1, <2>2
<1>6. 2 * (h * Q) + x \in Int /\ h * Q \in Int
  BY <1>2, <1>3
<1>7. a \div p = 2 * (h * Q) + x
  BY <1>3, <1>5, <1>6, DivMod
<1>8. (2 * (h * Q) + x) % 2 = x % 2
  <2> DEFINE y == h * Q
  <2>1. y \in Int
    BY <1>6
  <2> HIDE DEF y
  <2>2. (2 * y + x) % 2 = x % 2
    BY <1>3, <2>1
  <2> QED BY <2>2 DEF y
<1> QED BY <1>7, <1>8 DEF d, r, x

(* A bit of a number that is cut to a field of some width.                 *)
LEMMA CutBit ==
  ASSUME NEW value \in Int, NEW width \in 1..30
  PROVE  /\ value % Power(width) \in Nat /\ value % Power(width) < Power(width)
         /\ \A i \in 0..31 : i \in FromNat(value % Power(width))
                               <=> i < width /\ (value \div Power(i)) % 2 = 1
<1> DEFINE n == value % Power(width)
<1>1. Power(width) \in Nat \ {0}
  BY PowerProperties
<1>2. n \in Nat /\ n < Power(width)
  BY <1>1
<1> HIDE DEF n
<1>3. ASSUME NEW i \in 0..31, i < width
      PROVE  i \in FromNat(n) <=> (value \div Power(i)) % 2 = 1
  <2>1. i \in 0..30 /\ i \in 0..32 /\ width - i \in 1..30 /\ width - i - 1 \in 0..29
        /\ (width - i - 1) + 1 = width - i /\ width = i + (width - i) /\ width - i \in 0..(32 - i)
    BY <1>3
  <2>2. i \in FromNat(n) <=> (n \div Power(i)) % 2 = 1
    BY <2>1 DEF FromNat, Power
  <2> DEFINE h == Power(width - i - 1)
  <2>3. h \in Nat \ {0} /\ Power(i) \in Nat \ {0} /\ Power(width - i) = 2 * h
    BY <2>1, PowerProperties
  <2>4. Power(width) = Power(i) * (2 * h)
    BY <2>1, <2>3, PowerSum
  <2> HIDE DEF h
  <2>5. ((value % (Power(i) * (2 * h))) \div Power(i)) % 2 = (value \div Power(i)) % 2
    BY <2>3, ModDiv
  <2> QED BY <2>2, <2>4, <2>5 DEF n
<1>4. ASSUME NEW i \in 0..31, ~(i < width) PROVE i \notin FromNat(n)
  <2>1. CASE i = 31
    BY <2>1 DEF FromNat
  <2>2. CASE i # 31
    <3>1. i \in 0..30 /\ i \in 0..32 /\ i - width \in 0..(32 - width) /\ width + (i - width) = i
          /\ width \in 0..32 /\ i - width \in 0..32
      BY <1>4, <2>2
    <3>2. Power(i) = Power(width) * Power(i - width) /\ Power(i - width) \in Nat \ {0}
          /\ Power(i) \in Nat \ {0}
      BY <3>1, PowerSum, PowerProperties
    <3> DEFINE p == Power(i)
               q == Power(i - width)
               e == Power(width)
    <3>3. e <= p
      <4>1. p = e * q /\ q \in Nat \ {0} /\ e \in Nat \ {0}
        BY <1>1, <3>2
      <4> HIDE DEF p, q, e
      <4> QED BY <4>1
    <3>4. p \in Nat \ {0} /\ n < p
      BY <1>1, <1>2, <3>2, <3>3
    <3> HIDE DEF p, q, e
    <3>5. n \div p = 0
      <4> DEFINE m == n
      <4>1. m \in 0..(p - 1) /\ m = p * 0 + m /\ 0 \in Int
        BY <1>2, <3>4
      <4> HIDE DEF m
      <4>2. (p * 0 + m) \div p = 0
        BY <3>4, <4>1, DivMod
      <4> QED BY <4>1, <4>2 DEF m
    <3>6. i \in FromNat(n) <=> (n \div p) % 2 = 1
      BY <3>1 DEF FromNat, Power, p
    <3> QED BY <3>5, <3>6
  <2> QED BY <2>1, <2>2
<1> QED BY <1>2, <1>3, <1>4 DEF n

LEMMA FieldBits ==
  ASSUME NEW value \in Int, NEW width \in 1..30, NEW at \in 0..31, NEW w,
         w = Shl(FromNat(value % Power(width)), at)
  PROVE  /\ w \in Words
         /\ \A i \in Bits : i \in w <=> at <= i /\ i < at + width
                                        /\ (value \div Power(i - at)) % 2 = 1
<1> DEFINE f == FromNat(value % Power(width))
<1>1. w \in Words /\ f \in Words
  BY DEF Shl, FromNat, Words, Bits
<1>2. \A i \in Bits : i \in w <=> i - at \in f
  BY <1>1, ShlBit
<1>3. \A i \in 0..31 : i \in f <=> i < width /\ (value \div Power(i)) % 2 = 1
  BY CutBit
<1> HIDE DEF f
<1>4. ASSUME NEW i \in Bits
      PROVE  i \in w <=> at <= i /\ i < at + width /\ (value \div Power(i - at)) % 2 = 1
  <2>1. CASE at <= i
    <3>1. i - at \in 0..31 /\ (i - at < width <=> i < at + width)
      BY <2>1 DEF Bits
    <3> QED BY <1>2, <1>3, <2>1, <3>1
  <2>2. CASE ~(at <= i)
    <3>1. i - at \notin Bits
      BY <2>2 DEF Bits
    <3> QED BY <1>1, <1>2, <2>2, <3>1 DEF Words
  <2> QED BY <2>1, <2>2
<1> QED BY <1>1, <1>4

(* What is read back from the field that a number was written into.        *)
LEMMA ReadsBack ==
  ASSUME NEW w \in Words, NEW hi \in Bits, NEW lo \in 0..hi, NEW value \in Nat, NEW width \in 1..30,
         width = hi - lo + 1, value < Power(width),
         \A i \in lo..hi : i \in w <=> (value \div Power(i - lo)) % 2 = 1
  PROVE  Value(Field(w, hi, lo), width) = value
<1> DEFINE f == Field(w, hi, lo)
<1>1. \A i \in Bits : i \in f <=> i + lo \in w /\ i + lo <= hi
  BY FieldBit
<1> HIDE DEF f
<1>2. \A i \in 0..(width - 1) : i \in f <=> i \in FromNat(value)
  <2> SUFFICES ASSUME NEW i \in 0..(width - 1) PROVE i \in f <=> i \in FromNat(value)
    OBVIOUS
  <2>1. i \in Bits /\ i + lo <= hi /\ i + lo \in lo..hi /\ (i + lo) - lo = i /\ i \in 0..30
    BY DEF Bits
  <2>2. i \in f <=> (value \div Power(i)) % 2 = 1
    BY <1>1, <2>1
  <2>3. i \in FromNat(value) <=> (value \div Power(i)) % 2 = 1
    BY <2>1 DEF FromNat, Power
  <2> QED BY <2>2, <2>3
<1>3. Value(f, width) = Value(FromNat(value), width)
  BY <1>2, ValueAgree
<1>4. Value(FromNat(value), width) = value % Power(width)
  BY FromNatValue
<1>5. Power(width) \in Nat \ {0}
  BY PowerProperties
<1>6. value % Power(width) = value
  BY <1>5
<1> QED BY <1>3, <1>4, <1>6 DEF f

-----------------------------------------------------------------------------
(* Encoding and decoding: a word that shows a number in a field, and what  *)
(* is read from it there.                                                  *)
Shows(w, value, width, at) ==
  \A i \in Bits : at <= i /\ i < at + width => (i \in w <=> (value \div Power(i - at)) % 2 = 1)

LEMMA PutBits ==
  ASSUME NEW value \in Int, NEW width \in 1..30, NEW at \in 0..31
  PROVE  /\ Put(value, width, at) \in Words
         /\ Shows(Put(value, width, at), value, width, at)
         /\ \A i \in Bits : i \in Put(value, width, at) => at <= i /\ i < at + width
<1> DEFINE w == Put(value, width, at)
<1>1. w = Shl(FromNat(value % Power(width)), at)
  BY DEF Put, Power
<1> HIDE DEF w
<1>2. /\ w \in Words
      /\ \A i \in Bits : i \in w <=> at <= i /\ i < at + width
                                     /\ (value \div Power(i - at)) % 2 = 1
  BY <1>1, FieldBits
<1> QED BY <1>2 DEF Shows, w

LEMMA OpBits ==
  ASSUME NEW op \in 0..127
  PROVE  /\ FromNat(op) \in Words
         /\ \A i \in Bits : i \in FromNat(op) => i < 7
         /\ Value(FromNat(op), 7) = op
<1>1. Power(7) = 128
  BY DEF Power
<1>2. op % Power(7) = op
  BY <1>1
<1>3. \A i \in 0..31 : i \in FromNat(op) => i < 7
  <2>1. op \in Int /\ 7 \in 1..30
    OBVIOUS
  <2>2. \A i \in 0..31 : i \in FromNat(op % Power(7)) => i < 7
    BY <2>1, CutBit
  <2> QED BY <1>2, <2>2
<1>4. Value(FromNat(op), 7) = op
  BY <1>2, FromNatValue
<1> QED BY <1>3, <1>4 DEF FromNat, Words, Bits

LEMMA ShownField ==
  ASSUME NEW w \in Words, NEW width \in 1..12, NEW at \in 0..20, NEW hi, hi = at + width - 1,
         NEW value \in Nat, value < Power(width), Shows(w, value, width, at)
  PROVE  Value(Field(w, hi, at), width) = value
<1>1. hi \in Bits /\ at \in 0..hi /\ width = hi - at + 1 /\ width \in 1..30
  BY DEF Bits
<1>2. \A i \in at..hi : i \in Bits /\ at <= i /\ i < at + width
  BY DEF Bits
<1>3. \A i \in at..hi : i \in w <=> (value \div Power(i - at)) % 2 = 1
  BY <1>2 DEF Shows
<1> QED BY <1>1, <1>3, ReadsBack

LEMMA RegisterField ==
  ASSUME NEW w \in Words, NEW value \in 0..31, NEW at \in {7, 15, 20}, Shows(w, value, 5, at)
  PROVE  Value(Field(w, at + 4, at), 5) = value
<1>1. Power(5) = 32
  BY DEF Power
<1>2. value \in Nat /\ value < Power(5)
  BY <1>1
<1>3. 5 \in 1..12 /\ at \in 0..20 /\ at + 4 = at + 5 - 1
  OBVIOUS
<1> QED BY <1>2, <1>3, ShownField

LEMMA FunctField ==
  ASSUME NEW w \in Words, NEW value \in 0..7, Shows(w, value, 3, 12)
  PROVE  Funct3(w) = value
<1>1. Power(3) = 8
  BY DEF Power
<1>2. value \in Nat /\ value < Power(3)
  BY <1>1
<1>3. 3 \in 1..12 /\ 12 \in 0..20 /\ 14 = 12 + 3 - 1
  OBVIOUS
<1> QED BY <1>2, <1>3, ShownField DEF Funct3

(* An instruction that names a first source, around its other fields.      *)
Outer(i) == (7 <= i /\ i <= 11) \/ 20 <= i
OuterOnly(rest) == \A i \in Bits : i \in rest => Outer(i)
Framed(op, f3, a, rest) == FromNat(op) \union Put(f3, 3, 12) \union Put(a, 5, 15) \union rest

Frames(raw, op, f3, a, rest) ==
  /\ raw \in Words /\ Opcode(raw) = op /\ Funct3(raw) = f3 /\ Rs1(raw) = a
  /\ \A i \in Bits : Outer(i) => (i \in raw <=> i \in rest)

LEMMA CommonFields ==
  ASSUME NEW op \in 0..127, NEW f3 \in 0..7, NEW a \in 0..31, NEW rest \in Words, OuterOnly(rest)
  PROVE  Frames(Framed(op, f3, a, rest), op, f3, a, rest)
<1> DEFINE p == FromNat(op)
           q == Put(f3, 3, 12)
           r == Put(a, 5, 15)
           raw == Framed(op, f3, a, rest)
<1>1. /\ p \in Words /\ Value(p, 7) = op
      /\ \A i \in Bits : i \in p => i < 7
  BY OpBits
<1>2. /\ q \in Words /\ Shows(q, f3, 3, 12)
      /\ \A i \in Bits : i \in q => 12 <= i /\ i < 12 + 3
  <2>1. 3 \in 1..30 /\ 12 \in 0..31 /\ f3 \in Int
    OBVIOUS
  <2> QED BY <2>1, PutBits
<1>3. /\ r \in Words /\ Shows(r, a, 5, 15)
      /\ \A i \in Bits : i \in r => 15 <= i /\ i < 15 + 5
  <2>1. 5 \in 1..30 /\ 15 \in 0..31 /\ a \in Int
    OBVIOUS
  <2> QED BY <2>1, PutBits
<1>4. raw = p \union q \union r \union rest
  BY DEF Framed
<1> HIDE DEF p, q, r, raw
<1>5. raw \in Words
  BY <1>1, <1>2, <1>3, <1>4 DEF Words
<1>6. \A i \in Bits : i \in Int /\ (i \in rest => (7 <= i /\ i <= 11) \/ 20 <= i)
  BY DEF Bits, OuterOnly, Outer
<1>7. \A i \in Bits : i < 7 => (i \in raw <=> i \in p)
  BY <1>1, <1>2, <1>3, <1>4, <1>6
<1>8. \A i \in Bits : 12 <= i /\ i < 12 + 3 => (i \in raw <=> i \in q)
  BY <1>1, <1>2, <1>3, <1>4, <1>6
<1>9. \A i \in Bits : 15 <= i /\ i < 15 + 5 => (i \in raw <=> i \in r)
  BY <1>1, <1>2, <1>3, <1>4, <1>6
<1>10. \A i \in Bits : Outer(i) => (i \in raw <=> i \in rest)
  BY <1>1, <1>2, <1>3, <1>4, <1>6 DEF Outer
<1>11. Opcode(raw) = op
  <2>1. \A i \in 0..(7 - 1) : i \in Bits /\ i < 7
    BY DEF Bits
  <2>2. \A i \in 0..(7 - 1) : i \in raw <=> i \in p
    BY <1>7, <2>1
  <2>3. Value(raw, 7) = Value(p, 7)
    BY <2>2, ValueAgree
  <2> QED BY <1>1, <2>3 DEF Opcode
<1>12. Shows(raw, f3, 3, 12)
  BY <1>2, <1>8 DEF Shows
<1>13. Shows(raw, a, 5, 15)
  BY <1>3, <1>9 DEF Shows
<1>14. Rs1(raw) = a
  BY <1>5, <1>13, RegisterField DEF Rs1
<1>15. Funct3(raw) = f3
  BY <1>5, <1>12, FunctField
<1> QED BY <1>5, <1>10, <1>11, <1>14, <1>15 DEF Frames, raw

(* The numbers that twelve bits hold.                                      *)
Short(n) == -2048 <= n /\ n <= 2047

LEMMA CutBits ==
  \A width \in 1..30, value \in Int :
    \A i \in 0..31 : i \in FromNat(value % Power(width))
                       <=> i < width /\ (value \div Power(i)) % 2 = 1
BY CutBit

LEMMA TwelveBits ==
  ASSUME NEW imm \in Int, Short(imm)
  PROVE  /\ \A i \in 0..31 : i \in FromNat(imm % 2^12)
                               <=> i < 12 /\ (imm \div Power(i)) % 2 = 1
         /\ (imm \div Power(11)) % 2 = 1 <=> imm < 0
<1>2. 12 \in 1..30
  OBVIOUS
<1>3. \A i \in 0..31 : i \in FromNat(imm % Power(12)) <=> i < 12 /\ (imm \div Power(i)) % 2 = 1
  BY <1>2, CutBits
<1>4. Power(12) = 2^12 /\ Power(11) = 2048
  BY DEF Power
<1>5. (imm \div 2048) % 2 = 1 <=> imm < 0
  BY DEF Short
<1>6. (imm \div Power(11)) % 2 = 1 <=> imm < 0
  BY <1>4, <1>5
<1>7. \A i \in 0..31 : i \in FromNat(imm % 2^12) <=> i < 12 /\ (imm \div Power(i)) % 2 = 1
  BY ONLY <1>3, <1>4
<1> QED BY ONLY <1>6, <1>7

LEMMA ShownImmediateI ==
  ASSUME NEW raw \in Words, NEW imm \in Int, Short(imm), Shows(raw, imm, 12, 20)
  PROVE  read_i_immediate(raw) = FromNat(imm % 2^12) \union SignFill(imm < 0, 12)
<1> DEFINE n == FromNat(imm % 2^12)
<1>1. /\ \A i \in 0..31 : i \in n <=> i < 12 /\ (imm \div Power(i)) % 2 = 1
      /\ (imm \div Power(11)) % 2 = 1 <=> imm < 0
  BY TwelveBits
<1>2. \A i \in Bits : i \in Int /\ i \in 0..31
  BY DEF Bits
<1>3. n \subseteq Bits
  BY DEF FromNat, Bits
<1> HIDE DEF n
<1>4. \A i \in 0..11 : i + 20 \in raw <=> i \in n
  <2> SUFFICES ASSUME NEW i \in 0..11 PROVE i + 20 \in raw <=> i \in n
    OBVIOUS
  <2>1. i + 20 \in Bits /\ 20 <= i + 20 /\ i + 20 < 20 + 12 /\ (i + 20) - 20 = i /\ i \in 0..31
        /\ i < 12
    BY DEF Bits
  <2>2. i + 20 \in raw <=> (imm \div Power(i)) % 2 = 1
    BY <2>1 DEF Shows
  <2> QED BY <1>1, <2>1, <2>2
<1>5. 31 \in raw <=> imm < 0
  <2>1. 11 + 20 = 31 /\ 11 \in 0..11 /\ 11 \in 0..31 /\ 11 < 12
    OBVIOUS
  <2> QED BY <1>1, <1>4, <2>1
<1>6. \A i \in Bits : i \in Field(raw, 30, 20) <=> i + 20 \in raw /\ i + 20 <= 30
  <2>1. 30 \in Bits /\ 20 \in 0..30
    BY DEF Bits
  <2> QED BY <2>1, FieldBit
<1>7. ASSUME NEW i \in Bits
      PROVE  i \in read_i_immediate(raw) <=> i \in n \union SignFill(imm < 0, 12)
  <2>1. i \in read_i_immediate(raw) <=> (i + 20 \in raw /\ i + 20 <= 30) \/ (31 \in raw /\ i >= 11)
    BY <1>6 DEF read_i_immediate, SignFill
  <2>2. i \in n \union SignFill(imm < 0, 12) <=> i \in n \/ (imm < 0 /\ i >= 12)
    BY DEF SignFill
  <2>3. CASE i <= 10
    BY <1>2, <1>4, <2>1, <2>2, <2>3
  <2>4. CASE i = 11
    BY <1>4, <1>5, <2>1, <2>2, <2>4
  <2>5. CASE i >= 12
    BY <1>1, <1>2, <1>5, <2>1, <2>2, <2>5
  <2> QED BY <1>2, <2>3, <2>4, <2>5
<1>8. read_i_immediate(raw) \subseteq Bits /\ n \union SignFill(imm < 0, 12) \subseteq Bits
  BY <1>3 DEF read_i_immediate, Field, Shr, SignFill
<1> QED BY <1>7, <1>8 DEF n

IFormat(raw, op, f3, a, d, imm) ==
  /\ Opcode(raw) = op /\ Funct3(raw) = f3 /\ Rs1(raw) = a /\ Rd(raw) = d
  /\ read_i_immediate(raw) = FromNat(imm % 2^12) \union SignFill(imm < 0, 12)

LEMMA FormatI ==
  ASSUME NEW op \in 0..127, NEW f3 \in 0..7, NEW a \in 0..31, NEW d \in 0..31,
         NEW imm \in Int, Short(imm), NEW raw,
         raw = Framed(op, f3, a, Put(d, 5, 7) \union Put(imm, 12, 20))
  PROVE  IFormat(raw, op, f3, a, d, imm)
<1> DEFINE p == Put(d, 5, 7)
           q == Put(imm, 12, 20)
           rest == p \union q
<1>1. /\ p \in Words /\ Shows(p, d, 5, 7)
      /\ \A i \in Bits : i \in p => 7 <= i /\ i < 7 + 5
  <2>1. 5 \in 1..30 /\ 7 \in 0..31 /\ d \in Int
    OBVIOUS
  <2> QED BY <2>1, PutBits
<1>2. /\ q \in Words /\ Shows(q, imm, 12, 20)
      /\ \A i \in Bits : i \in q => 20 <= i /\ i < 20 + 12
  <2>1. 12 \in 1..30 /\ 20 \in 0..31
    OBVIOUS
  <2> QED BY <2>1, PutBits
<1>3. raw = Framed(op, f3, a, rest)
  OBVIOUS
<1>4. rest = p \union q
  OBVIOUS
<1> HIDE DEF p, q, rest
<1>5. \A i \in Bits : i \in Int
  BY DEF Bits
<1>6. rest \in Words /\ OuterOnly(rest)
  <2>1. rest \in Words
    BY <1>1, <1>2, <1>4 DEF Words
  <2>2. \A i \in Bits : i \in rest => (7 <= i /\ i <= 11) \/ 20 <= i
    BY <1>1, <1>2, <1>4, <1>5
  <2> QED BY <2>1, <2>2 DEF OuterOnly, Outer
<1>7. /\ raw \in Words /\ Opcode(raw) = op /\ Funct3(raw) = f3 /\ Rs1(raw) = a
      /\ \A i \in Bits : Outer(i) => (i \in raw <=> i \in rest)
  <2>1. Frames(raw, op, f3, a, rest)
    BY <1>3, <1>6, CommonFields
  <2> QED BY <2>1 DEF Frames
<1>8. Shows(raw, d, 5, 7) /\ Shows(raw, imm, 12, 20)
  <2>1. \A i \in Bits : 7 <= i /\ i < 7 + 5 => (i \in raw <=> i \in p)
    BY <1>2, <1>4, <1>5, <1>7 DEF Outer
  <2>2. \A i \in Bits : 20 <= i /\ i < 20 + 12 => (i \in raw <=> i \in q)
    BY <1>1, <1>4, <1>5, <1>7 DEF Outer
  <2> QED BY <1>1, <1>2, <2>1, <2>2 DEF Shows
<1>9. Rd(raw) = d
  BY <1>7, <1>8, RegisterField DEF Rd
<1>10. read_i_immediate(raw) = FromNat(imm % 2^12) \union SignFill(imm < 0, 12)
  BY <1>7, <1>8, ShownImmediateI
<1> QED BY <1>7, <1>9, <1>10 DEF IFormat

LEMMA FromNatZero == FromNat(0) = {}
<1>1. ASSUME NEW b \in 0..30 PROVE (0 \div Power(b)) % 2 = 0
  <2> DEFINE k == Power(b)
  <2>1. k \in Nat \ {0}
    BY PowerProperties
  <2> HIDE DEF k
  <2>2. 0 \in 0..(k - 1) /\ k * 0 + 0 = 0
    BY <2>1
  <2>3. 0 \div k = 0
    BY <2>1, <2>2, DivMod
  <2> QED BY <2>3 DEF k
<1>2. \A b \in 0..30 : b \in FromNat(0) <=> (0 \div Power(b)) % 2 = 1
  BY DEF FromNat, Power
<1>3. FromNat(0) \subseteq 0..30
  BY DEF FromNat
<1> QED BY <1>1, <1>2, <1>3

LEMMA PutZero == \A width \in 1..30, at \in 0..31 : Put(0, width, at) = {}
<1> SUFFICES ASSUME NEW width \in 1..30, NEW at \in 0..31 PROVE Put(0, width, at) = {}
  OBVIOUS
<1> DEFINE k == Power(width)
<1>1. k \in Nat \ {0}
  BY PowerProperties
<1>2. Put(0, width, at) = Shl(FromNat(0 % k), at)
  BY DEF Put, Power
<1> HIDE DEF k
<1>3. 0 % k = 0
  BY <1>1
<1> QED BY <1>2, <1>3, FromNatZero DEF Shl

LEMMA FormatU ==
  ASSUME NEW op \in 0..127, NEW d \in 0..31, NEW raw, raw = FromNat(op) \union Put(d, 5, 7)
  PROVE  /\ Opcode(raw) = op /\ Rd(raw) = d
         /\ read_upper_immediate(raw) = {}
<1> DEFINE o == FromNat(op)
           p == Put(d, 5, 7)
<1>1. /\ p \in Words /\ Shows(p, d, 5, 7)
      /\ \A i \in Bits : i \in p => 7 <= i /\ i < 7 + 5
  <2>1. 5 \in 1..30 /\ 7 \in 0..31 /\ d \in Int
    OBVIOUS
  <2> QED BY <2>1, PutBits
<1>2. /\ o \in Words /\ Value(o, 7) = op
      /\ \A i \in Bits : i \in o => i < 7
  BY OpBits
<1>3. raw = o \union p
  OBVIOUS
<1> HIDE DEF o, p
<1>4. \A i \in Bits : i \in Int
  BY DEF Bits
<1>5. raw \in Words
  BY <1>1, <1>2, <1>3 DEF Words
<1>6. /\ \A i \in Bits : i < 7 => (i \in raw <=> i \in o)
      /\ \A i \in Bits : 7 <= i => (i \in raw <=> i \in p)
  BY <1>1, <1>2, <1>3, <1>4
<1>7. Opcode(raw) = op
  <2>1. \A i \in 0..(7 - 1) : i \in Bits /\ i < 7
    BY DEF Bits
  <2>2. \A i \in 0..(7 - 1) : i \in raw <=> i \in o
    BY <1>6, <2>1
  <2>3. Value(raw, 7) = Value(o, 7)
    BY <2>2, ValueAgree
  <2> QED BY <1>2, <2>3 DEF Opcode
<1>8. Rd(raw) = d
  <2>1. Shows(raw, d, 5, 7)
    BY <1>1, <1>6 DEF Shows
  <2> QED BY <1>5, <2>1, RegisterField DEF Rd
<1>9. read_upper_immediate(raw) = {}
  <2>1. \A i \in 12..31 : i \in Bits /\ 7 <= i /\ ~(i < 7 + 5)
    BY DEF Bits
  <2>2. \A i \in 12..31 : i \notin raw
    BY <1>1, <1>6, <2>1
  <2> QED BY <2>2 DEF read_upper_immediate
<1> QED BY <1>7, <1>8, <1>9

(* An instruction with two sources, around its other fields.               *)
Around(i) == (7 <= i /\ i <= 11) \/ 25 <= i

SFormat(raw, op, f3, a, b, rest) ==
  /\ raw \in Words /\ Opcode(raw) = op /\ Funct3(raw) = f3 /\ Rs1(raw) = a /\ Rs2(raw) = b
  /\ \A i \in Bits : Around(i) => (i \in raw <=> i \in rest)

LEMMA FormatS ==
  ASSUME NEW op \in 0..127, NEW f3 \in 0..7, NEW a \in 0..31, NEW b \in 0..31,
         NEW rest \in Words, \A i \in Bits : i \in rest => Around(i),
         NEW raw, raw = Framed(op, f3, a, Put(b, 5, 20) \union rest)
  PROVE  SFormat(raw, op, f3, a, b, rest)
<1> DEFINE q == Put(b, 5, 20)
           outer == q \union rest
<1>1. /\ q \in Words /\ Shows(q, b, 5, 20)
      /\ \A i \in Bits : i \in q => 20 <= i /\ i < 20 + 5
  <2>1. 5 \in 1..30 /\ 20 \in 0..31 /\ b \in Int
    OBVIOUS
  <2> QED BY <2>1, PutBits
<1>2. raw = Framed(op, f3, a, outer)
  OBVIOUS
<1>3. outer = q \union rest
  OBVIOUS
<1> HIDE DEF q, outer
<1>4. \A i \in Bits : i \in Int
  BY DEF Bits
<1>5. \A i \in Bits : i \in rest => (7 <= i /\ i <= 11) \/ 25 <= i
  BY DEF Around
<1>6. outer \in Words /\ OuterOnly(outer)
  <2>1. outer \in Words
    BY <1>1, <1>3 DEF Words
  <2>2. \A i \in Bits : i \in outer => (7 <= i /\ i <= 11) \/ 20 <= i
    BY <1>1, <1>3, <1>4, <1>5
  <2> QED BY <2>1, <2>2 DEF OuterOnly, Outer
<1>7. /\ raw \in Words /\ Opcode(raw) = op /\ Funct3(raw) = f3 /\ Rs1(raw) = a
      /\ \A i \in Bits : Outer(i) => (i \in raw <=> i \in outer)
  <2>1. Frames(raw, op, f3, a, outer)
    BY <1>2, <1>6, CommonFields
  <2> QED BY <2>1 DEF Frames
<1>8. Rs2(raw) = b
  <2>1. \A i \in Bits : 20 <= i /\ i < 20 + 5 => (i \in raw <=> i \in q)
    BY <1>3, <1>4, <1>5, <1>7 DEF Outer
  <2>2. Shows(raw, b, 5, 20)
    BY <1>1, <2>1 DEF Shows
  <2> QED BY <1>7, <2>2, RegisterField DEF Rs2
<1>9. \A i \in Bits : Around(i) => (i \in raw <=> i \in rest)
  BY <1>1, <1>3, <1>4, <1>7 DEF Around, Outer
<1> QED BY <1>7, <1>8, <1>9 DEF SFormat

BitSet(imm, i) == (imm \div Power(i)) % 2 = 1

(* The bits of a number whose lowest bits are left out.                    *)
ShowsFrom(w, value, m, width, at) ==
  /\ w \in Words
  /\ \A i \in Bits : i \in w => at <= i /\ i < at + width
  /\ \A i \in Bits : at <= i /\ i < at + width
                       => (i \in w <=> BitSet(value, m + (i - at)))

LEMMA PutQuotient ==
  ASSUME NEW value \in Int, NEW m \in 0..12, NEW width \in 1..12, NEW at \in 0..31,
         NEW w, w = Put(value \div Power(m), width, at)
  PROVE  ShowsFrom(w, value, m, width, at)
<1>1. Power(m) \in Nat \ {0}
  BY PowerProperties
<1>2. PICK x \in Int : x = value \div Power(m)
  BY <1>1
<1>3. /\ w \in Words /\ Shows(w, x, width, at)
      /\ \A i \in Bits : i \in w => at <= i /\ i < at + width
  <2>1. width \in 1..30 /\ w = Put(x, width, at)
    BY <1>2
  <2> QED BY <2>1, PutBits
<1>4. ASSUME NEW i \in Bits, at <= i, i < at + width
      PROVE  x \div Power(i - at) = value \div Power(m + (i - at))
  <2>1. PICK n \in Nat : n = i - at
    BY <1>4 DEF Bits
  <2>2. m \in 0..32 /\ n \in 0..(32 - m) /\ n \in 0..32
    BY <1>4, <2>1 DEF Bits
  <2>3. Power(m + n) = Power(m) * Power(n) /\ Power(n) \in Nat \ {0}
    BY <2>2, PowerSum, PowerProperties
  <2>4. (value \div Power(m)) \div Power(n) = value \div (Power(m) * Power(n))
    BY <1>1, <2>3, DivDiv
  <2> QED BY <1>2, <2>1, <2>3, <2>4
<1> QED BY <1>3, <1>4 DEF Shows, ShowsFrom, BitSet

BranchFields(imm) ==
  Put(imm \div 2, 4, 8) \union Put(imm \div 2^5, 6, 25)
  \union Put(imm \div 2^11, 1, 7) \union Put(imm \div 2^12, 1, 31)

LEMMA BranchBits ==
  ASSUME NEW imm \in Int
  PROVE  /\ BranchFields(imm) \in Words
         /\ \A i \in Bits : i \in BranchFields(imm) => Around(i)
         /\ \A i \in 1..4 : i + 7 \in BranchFields(imm) <=> BitSet(imm, i)
         /\ \A i \in 5..10 : i + 20 \in BranchFields(imm) <=> BitSet(imm, i)
         /\ 7 \in BranchFields(imm) <=> BitSet(imm, 11)
         /\ 31 \in BranchFields(imm) <=> BitSet(imm, 12)
<1>1. Power(1) = 2 /\ Power(5) = 2^5 /\ Power(11) = 2^11 /\ Power(12) = 2^12
  BY DEF Power
<1>2. PICK p : p = Put(imm \div Power(1), 4, 8)
  OBVIOUS
<1>3. PICK q : q = Put(imm \div Power(5), 6, 25)
  OBVIOUS
<1>4. PICK r : r = Put(imm \div Power(11), 1, 7)
  OBVIOUS
<1>5. PICK s : s = Put(imm \div Power(12), 1, 31)
  OBVIOUS
<1>6. PICK w : w = BranchFields(imm)
  OBVIOUS
<1>7. w = p \union q \union r \union s
  BY <1>1, <1>2, <1>3, <1>4, <1>5, <1>6 DEF BranchFields
<1> HIDE <1>2, <1>3, <1>4, <1>5, <1>6
<1>9. /\ p \in Words
      /\ \A i \in Bits : i \in p => 8 <= i /\ i < 8 + 4
      /\ \A i \in Bits : 8 <= i /\ i < 8 + 4 => (i \in p <=> BitSet(imm, 1 + (i - 8)))
  <2>1. 1 \in 0..12 /\ 4 \in 1..12 /\ 8 \in 0..31
    OBVIOUS
  <2>2. ShowsFrom(p, imm, 1, 4, 8)
    BY <1>2, <2>1, PutQuotient
  <2> QED BY <2>2 DEF ShowsFrom
<1>10. /\ q \in Words
       /\ \A i \in Bits : i \in q => 25 <= i /\ i < 25 + 6
       /\ \A i \in Bits : 25 <= i /\ i < 25 + 6 => (i \in q <=> BitSet(imm, 5 + (i - 25)))
  <2>1. 5 \in 0..12 /\ 6 \in 1..12 /\ 25 \in 0..31
    OBVIOUS
  <2>2. ShowsFrom(q, imm, 5, 6, 25)
    BY <1>3, <2>1, PutQuotient
  <2> QED BY <2>2 DEF ShowsFrom
<1>11. /\ r \in Words
       /\ \A i \in Bits : i \in r => 7 <= i /\ i < 7 + 1
       /\ \A i \in Bits : 7 <= i /\ i < 7 + 1 => (i \in r <=> BitSet(imm, 11 + (i - 7)))
  <2>1. 11 \in 0..12 /\ 1 \in 1..12 /\ 7 \in 0..31
    OBVIOUS
  <2>2. ShowsFrom(r, imm, 11, 1, 7)
    BY <1>4, <2>1, PutQuotient
  <2> QED BY <2>2 DEF ShowsFrom
<1>12. /\ s \in Words
       /\ \A i \in Bits : i \in s => 31 <= i /\ i < 31 + 1
       /\ \A i \in Bits : 31 <= i /\ i < 31 + 1 => (i \in s <=> BitSet(imm, 12 + (i - 31)))
  <2>1. 12 \in 0..12 /\ 1 \in 1..12 /\ 31 \in 0..31
    OBVIOUS
  <2>2. ShowsFrom(s, imm, 12, 1, 31)
    BY <1>5, <2>1, PutQuotient
  <2> QED BY <2>2 DEF ShowsFrom
<1>13. \A i \in Bits : i \in Int
  BY DEF Bits
<1>14. w \in Words
  BY <1>7, <1>9, <1>10, <1>11, <1>12 DEF Words
<1>15. \A i \in Bits : i \in w => Around(i)
  BY <1>7, <1>9, <1>10, <1>11, <1>12, <1>13 DEF Around
<1>16. /\ \A i \in Bits : 8 <= i /\ i < 8 + 4 => (i \in w <=> i \in p)
       /\ \A i \in Bits : 25 <= i /\ i < 25 + 6 => (i \in w <=> i \in q)
       /\ \A i \in Bits : i = 7 => (i \in w <=> i \in r)
       /\ \A i \in Bits : i = 31 => (i \in w <=> i \in s)
  BY <1>7, <1>9, <1>10, <1>11, <1>12, <1>13
<1>17. ASSUME NEW i \in 1..4 PROVE i + 7 \in w <=> BitSet(imm, i)
  <2>1. i + 7 \in Bits /\ 8 <= i + 7 /\ i + 7 < 8 + 4 /\ 1 + ((i + 7) - 8) = i
    BY DEF Bits
  <2> QED BY <1>9, <1>16, <2>1
<1>18. ASSUME NEW i \in 5..10 PROVE i + 20 \in w <=> BitSet(imm, i)
  <2>1. i + 20 \in Bits /\ 25 <= i + 20 /\ i + 20 < 25 + 6 /\ 5 + ((i + 20) - 25) = i
    BY DEF Bits
  <2> QED BY <1>10, <1>16, <2>1
<1>19. 7 \in w <=> BitSet(imm, 11)
  <2>1. 7 \in Bits /\ 7 <= 7 /\ 7 < 7 + 1 /\ 11 + (7 - 7) = 11
    BY DEF Bits
  <2> QED BY <1>11, <1>16, <2>1
<1>20. 31 \in w <=> BitSet(imm, 12)
  <2>1. 31 \in Bits /\ 31 <= 31 /\ 31 < 31 + 1 /\ 12 + (31 - 31) = 12
    BY DEF Bits
  <2> QED BY <1>12, <1>16, <2>1
<1> QED BY <1>6, <1>14, <1>15, <1>17, <1>18, <1>19, <1>20

LEMMA BranchNumber ==
  ASSUME NEW imm \in Nat, imm < 4096, imm % 2 = 0
  PROVE  /\ \A i \in 1..11 : i \in FromNat(imm) <=> BitSet(imm, i)
         /\ \A i \in FromNat(imm) : i \in 1..11
         /\ ~BitSet(imm, 12)
<1>1. PICK width \in 1..30 : width = 12
  OBVIOUS
<1>2. Power(width) = 4096 /\ Power(12) = 4096 /\ Power(0) = 1
  BY <1>1 DEF Power
<1>3. imm % Power(width) = imm
  BY <1>2
<1>4. \A i \in 0..31 : i \in FromNat(imm % Power(width))
                         <=> i < width /\ (imm \div Power(i)) % 2 = 1
  BY CutBits
<1>5. \A i \in 0..31 : i \in FromNat(imm) <=> i < 12 /\ BitSet(imm, i)
  BY <1>1, <1>3, <1>4 DEF BitSet
<1>6. ~BitSet(imm, 0)
  <2>1. imm \div 1 = imm
    OBVIOUS
  <2> QED BY <1>2, <2>1 DEF BitSet
<1>7. ~BitSet(imm, 12)
  <2>1. imm \div 4096 = 0
    OBVIOUS
  <2> QED BY <1>2, <2>1 DEF BitSet
<1>8. \A i \in 1..11 : i \in FromNat(imm) <=> BitSet(imm, i)
  BY <1>5
<1>9. \A i \in FromNat(imm) : i \in 1..11
  <2>1. \A i \in FromNat(imm) : i \in 0..31
    BY DEF FromNat
  <2> QED BY <1>5, <1>6, <2>1
<1> QED BY <1>7, <1>8, <1>9

LEMMA ReadsBranch ==
  ASSUME NEW imm \in Nat, imm < 4096, imm % 2 = 0, NEW raw \in Words,
         \A i \in Bits : Around(i) => (i \in raw <=> i \in BranchFields(imm))
  PROVE  read_b_immediate(raw) = FromNat(imm)
<1>1. /\ \A i \in 1..4 : i + 7 \in raw <=> BitSet(imm, i)
      /\ \A i \in 5..10 : i + 20 \in raw <=> BitSet(imm, i)
      /\ 7 \in raw <=> BitSet(imm, 11)
      /\ 31 \in raw <=> BitSet(imm, 12)
  <2>1. /\ \A i \in 1..4 : i + 7 \in BranchFields(imm) <=> BitSet(imm, i)
        /\ \A i \in 5..10 : i + 20 \in BranchFields(imm) <=> BitSet(imm, i)
        /\ 7 \in BranchFields(imm) <=> BitSet(imm, 11)
        /\ 31 \in BranchFields(imm) <=> BitSet(imm, 12)
    BY BranchBits
  <2>2. /\ \A i \in 1..4 : i + 7 \in Bits /\ Around(i + 7)
        /\ \A i \in 5..10 : i + 20 \in Bits /\ Around(i + 20)
        /\ 7 \in Bits /\ Around(7) /\ 31 \in Bits /\ Around(31)
    BY DEF Bits, Around
  <2> QED BY <2>1, <2>2
<1>2. /\ \A i \in 1..11 : i \in FromNat(imm) <=> BitSet(imm, i)
      /\ \A i \in FromNat(imm) : i \in 1..11
      /\ 31 \notin raw
  BY <1>1, BranchNumber
<1> DEFINE e == Field(raw, 11, 8)
           f == Field(raw, 30, 25)
           g == Field(raw, 7, 7)
<1>3. /\ e \in Words /\ \A i \in Bits : i \in e <=> i + 8 \in raw /\ i + 8 <= 11
      /\ f \in Words /\ \A i \in Bits : i \in f <=> i + 25 \in raw /\ i + 25 <= 30
      /\ g \in Words /\ \A i \in Bits : i \in g <=> i + 7 \in raw /\ i + 7 <= 7
  <2>1. /\ 11 \in Bits /\ 8 \in 0..11 /\ 30 \in Bits /\ 25 \in 0..30 /\ 7 \in Bits /\ 7 \in 0..7
        /\ e \in Words /\ f \in Words /\ g \in Words
    BY DEF Bits, Field, Shr, Words
  <2> QED BY <2>1, FieldBit
<1>4. read_b_immediate(raw) = Shl(e, 1) \union Shl(f, 5) \union Shl(g, 11)
  BY <1>2 DEF read_b_immediate, SignFill
<1> HIDE DEF e, f, g
<1>5. /\ \A i \in Bits : i \in Shl(e, 1) <=> i - 1 \in e
      /\ \A i \in Bits : i \in Shl(f, 5) <=> i - 5 \in f
      /\ \A i \in Bits : i \in Shl(g, 11) <=> i - 11 \in g
  BY <1>3, ShlBit
<1>6. ASSUME NEW i \in Bits
      PROVE  /\ i \in Shl(e, 1) <=> i \in 1..4 /\ i + 7 \in raw
             /\ i \in Shl(f, 5) <=> i \in 5..10 /\ i + 20 \in raw
             /\ i \in Shl(g, 11) <=> i = 11 /\ 7 \in raw
  <2>1. e \subseteq Bits /\ f \subseteq Bits /\ g \subseteq Bits
    BY <1>3 DEF Words
  <2>2. i \in Shl(e, 1) <=> i \in 1..4 /\ i + 7 \in raw
    BY <1>3, <1>5, <2>1 DEF Bits
  <2>3. i \in Shl(f, 5) <=> i \in 5..10 /\ i + 20 \in raw
    BY <1>3, <1>5, <2>1 DEF Bits
  <2>4. i \in Shl(g, 11) <=> i = 11 /\ 7 \in raw
    BY <1>3, <1>5, <2>1 DEF Bits
  <2> QED BY <2>2, <2>3, <2>4
<1>7. ASSUME NEW i \in Bits PROVE i \in read_b_immediate(raw) <=> i \in FromNat(imm)
  <2>1. i \in read_b_immediate(raw)
          <=> (i \in 1..4 /\ i + 7 \in raw) \/ (i \in 5..10 /\ i + 20 \in raw)
              \/ (i = 11 /\ 7 \in raw)
    BY <1>4, <1>6
  <2>2. CASE i \in 1..11
    <3>1. i \in 1..4 \/ i \in 5..10 \/ i = 11
      BY <2>2
    <3> QED BY <1>1, <1>2, <2>1, <2>2, <3>1
  <2>3. CASE i \notin 1..11
    BY <1>2, <2>1, <2>3
  <2> QED BY <2>2, <2>3
<1>8. read_b_immediate(raw) \subseteq Bits /\ FromNat(imm) \subseteq Bits
  BY <1>4 DEF Shl, FromNat, Bits
<1> QED BY <1>7, <1>8

(* A distance between instructions.                                        *)
Aligned4(n) == n % 4 = 0
=============================================================================
