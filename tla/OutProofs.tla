----------------------------- MODULE OutProofs -----------------------------
(***************************************************************************)
(* What reserving and writing do to the length of a growable buffer, for   *)
(* every width of a u32 from 4 to 32 bits.                                 *)
(***************************************************************************)
EXTENDS Out, TLAPS

-----------------------------------------------------------------------------
(* Powers of two.  The provers know those of numerals only.                *)
Power(i) == 2^i

Table ==
  {<<0, 1>>, <<1, 2>>, <<2, 4>>, <<3, 8>>, <<4, 16>>, <<5, 32>>,
   <<6, 64>>, <<7, 128>>, <<8, 256>>, <<9, 512>>, <<10, 1024>>,
   <<11, 2048>>, <<12, 4096>>, <<13, 8192>>, <<14, 16384>>,
   <<15, 32768>>, <<16, 65536>>, <<17, 131072>>, <<18, 262144>>,
   <<19, 524288>>, <<20, 1048576>>, <<21, 2097152>>, <<22, 4194304>>,
   <<23, 8388608>>, <<24, 16777216>>, <<25, 33554432>>,
   <<26, 67108864>>, <<27, 134217728>>, <<28, 268435456>>,
   <<29, 536870912>>, <<30, 1073741824>>, <<31, 2147483648>>,
   <<32, 4294967296>>}

LEMMA TableProperties ==
  \A p, q \in Table :
    /\ p[1] <= q[1] => p[2] <= q[2]
    /\ p[1] + 1 = q[1] => q[2] = 2 * p[2]
    /\ p[2] \in Nat \ {0}
    /\ p[1] >= 4 => p[2] >= 16
    /\ p[1] >= 9 => p[2] >= 512
BY DEF Table

LEMMA PowerProperties ==
  ASSUME NEW i \in 0..32, NEW j \in 0..32
  PROVE  /\ Power(i) \in Nat \ {0}
         /\ i <= j => Power(i) <= Power(j)
         /\ i + 1 = j => Power(j) = 2 * Power(i)
         /\ i >= 4 => Power(i) >= 16
         /\ i >= 9 => Power(i) >= 512
<1>1. {<<n, 2^n>> : n \in 0..32} = Table
  BY DEF Table
<1>2. \A n \in 0..32 : <<n, Power(n)>> \in {<<m, 2^m>> : m \in 0..32}
  BY Zenon DEF Power
<1> DEFINE p == <<i, Power(i)>>
           q == <<j, Power(j)>>
<1>3. p \in Table /\ q \in Table
  BY <1>1, <1>2
<1>4. p[1] = i /\ p[2] = Power(i) /\ q[1] = j /\ q[2] = Power(j)
  OBVIOUS
<1> HIDE DEF p, q
<1> QED BY <1>3, <1>4, TableProperties

(* The range of a u32 and its powers of two.                               *)
LEMMA U32Properties ==
  ASSUME Width \in 4..32
  PROVE  /\ U32 \in Nat /\ Half \in Nat /\ U32 >= 16 /\ U32 = 2 * Half
         /\ Width >= 9 => U32 >= 512
         /\ \A p \in Powers : p \in Nat \ {0} /\ p <= Half
<1>1. /\ U32 = Power(Width) /\ Half = Power(Width - 1)
      /\ Powers = {Power(i) : i \in 0..(Width - 1)}
  BY DEF U32, Half, Powers, Power
<1>2. /\ Width \in 0..32 /\ Width - 1 \in 0..32 /\ (Width - 1) + 1 = Width
      /\ Width >= 4
      /\ \A i \in 0..(Width - 1) : i \in 0..32 /\ i <= Width - 1
  OBVIOUS
<1>3. /\ U32 \in Nat /\ Half \in Nat /\ U32 >= 16 /\ U32 = 2 * Half
      /\ Width >= 9 => U32 >= 512
  BY <1>1, <1>2, PowerProperties
<1>4. ASSUME NEW p \in Powers
      PROVE  p \in Nat \ {0} /\ p <= Half
  <2>1. PICK i \in 0..(Width - 1) : p = Power(i)
    BY <1>1
  <2>2. i \in 0..32 /\ Width - 1 \in 0..32 /\ i <= Width - 1
    BY <1>2
  <2> QED BY <2>1, <2>2, <1>1, PowerProperties
<1> QED BY <1>3, <1>4

(* out_resv() returns a buffer of the length asked for, modulo the width;  *)
(* and as long as that is within half the range, with room for it.         *)
LEMMA ReserveProperties ==
  ASSUME Width \in 4..32, NEW out \in Buffer,
         NEW count \in 0..(U32 - 1), NEW new \in Reserve(out, count)
  PROVE  /\ new \in Buffer
         /\ new.len = (out.len + count) % U32
         /\ out.len + count <= Half => new.len = out.len + count
                                         /\ new.len <= new.cap
<1> DEFINE required == (out.len + count) % U32
<1>1. /\ out.len \in Nat /\ out.cap \in Nat /\ out.len < U32 /\ out.cap < U32
      /\ out.at \in {Null} \union Blocks
      /\ out = [len |-> out.len, cap |-> out.cap, at |-> out.at]
  BY U32Properties DEF Buffer
<1>2. required \in Nat /\ required < U32
  <2>1. \A n \in Nat : n % U32 \in Nat /\ n % U32 < U32
    BY U32Properties
  <2>2. out.len + count \in Nat
    BY <1>1
  <2> QED BY <2>1, <2>2
<1>3. out.len + count <= Half => required = out.len + count
  <2>1. \A n, m \in Nat : n < m => n % m = n
    OBVIOUS
  <2>2. /\ out.len + count \in Nat
        /\ out.len + count <= Half => out.len + count < U32
    BY <1>1, U32Properties
  <2> QED BY <2>1, <2>2, U32Properties
<1> HIDE DEF required
<1>4. new \in IF required > out.cap THEN Grown(required, out.at)
             ELSE {[out EXCEPT !.len = required]}
  BY DEF Reserve, required
<1>5. CASE required > out.cap
  <2>1. PICK p \in NextPo2(required), block \in Reallocated(out.at) :
          new = [len |-> required, cap |-> MaxPo2(p, 8), at |-> block]
    BY <1>4, <1>5 DEF Grown
  <2>2. p \in Nat \ {0} /\ p <= Half
    <3>1. p \in Powers \/ p = 1
      BY <2>1 DEF NextPo2
    <3>2. Half >= 8
      BY U32Properties
    <3> QED BY <3>1, <3>2, U32Properties
  <2>3. required <= Half => required <= p
    <3>1. required >= 1
      BY <1>1, <1>2, <1>5
    <3>2. CASE required = 1
      BY <2>2, <3>2
    <3>3. CASE required # 1
      BY <2>1, <3>1, <3>3, <1>2, U32Properties DEF NextPo2
    <3> QED BY <3>2, <3>3
  <2>4. block \in {Null} \union Blocks
    BY <2>1 DEF Reallocated, Blocks
  <2> DEFINE cap == MaxPo2(p, 8)
  <2>5. cap \in 0..(U32 - 1) /\ p <= cap
    BY <2>2, U32Properties DEF MaxPo2
  <2> HIDE DEF cap
  <2>6. new = [len |-> required, cap |-> cap, at |-> block]
    BY <2>1 DEF cap
  <2>7. new \in Buffer
    BY <2>4, <2>5, <2>6, <1>2, U32Properties DEF Buffer
  <2>8. required <= Half => required <= cap
    BY <2>2, <2>3, <2>5, <1>2, U32Properties
  <2> QED BY <2>6, <2>7, <2>8, <1>3 DEF required
<1>6. CASE ~(required > out.cap)
  <2>1. new = [len |-> required, cap |-> out.cap, at |-> out.at]
    BY <1>1, <1>4, <1>6
  <2>2. new \in Buffer
    BY <2>1, <1>1, <1>2, U32Properties DEF Buffer
  <2> QED BY <2>1, <2>2, <1>1, <1>2, <1>3, <1>6 DEF required
<1> QED BY <1>5, <1>6

(* A write that goes well shows that the length did not wrap; and as long  *)
(* as the buffer is within half the range, a write never overruns it.      *)
LEMMA WrittenProperties ==
  ASSUME Width \in 4..32, NEW out \in Buffer,
         NEW count \in 0..(U32 - 1), NEW new \in Reserve(out, count)
  PROVE  /\ Written(new, count) \in {"ok", "segv", "wild"}
         /\ Written(new, count) = "ok" => new.len = out.len + count
         /\ out.len + count <= Half => Written(new, count) # "wild"
<1>1. /\ new \in Buffer /\ new.len = (out.len + count) % U32
      /\ out.len + count <= Half => new.len = out.len + count /\ new.len <= new.cap
  BY ReserveProperties
<1>2. out.len \in Nat /\ out.len < U32 /\ new.len \in Nat
  BY <1>1, U32Properties DEF Buffer
<1>3. new.len = out.len + count \/ new.len < count
  <2>1. CASE out.len + count < U32
    BY <2>1, <1>1, <1>2, U32Properties
  <2>2. CASE out.len + count >= U32
    <3> DEFINE n == out.len + count
               m == U32
    <3>1. n \in Nat /\ m \in Nat /\ m > 0 /\ m <= n /\ n < m + count
      BY <2>2, <1>2, U32Properties
    <3>2. new.len = n % m /\ count < m
      BY <1>1, U32Properties
    <3> HIDE DEF n, m
    <3>3. n % m = n - m
      BY <3>1, <3>2
    <3> QED BY <3>1, <3>2, <3>3
  <2> QED BY <2>1, <2>2, <1>2, U32Properties
<1>4. Written(new, count) = "ok" => count <= new.len
  BY DEF Written
<1> QED BY <1>1, <1>2, <1>3, <1>4 DEF Written
=============================================================================
