------------------------------- MODULE Words -------------------------------
(***************************************************************************)
(* 32-bit words (u32 of common/types.h) as sets of bit positions, so that  *)
(* every operation has exactly the width it has in C: a bit that does not  *)
(* fit is not in the set.                                                  *)
(***************************************************************************)
EXTENDS Integers

Bits  == 0..31
Words == SUBSET Bits
ZeroW == {}

(* A number below 2^31 as a word, and the low bits of a word as a number.  *)
FromNat(n) == {b \in 0..30 : (n \div 2^b) % 2 = 1}
Value(w, bits) == LET sum[i \in 0..bits] ==
                        IF i = 0 THEN 0
                        ELSE sum[i - 1] + IF i - 1 \in w THEN 2^(i - 1) ELSE 0
                  IN sum[bits]
LoHalf(w) == Value(w, 16)

(* The number that a word is in two's complement.                          *)
Signed(w) == IF 31 \in w THEN (Value(w, 31) - 2^30) - 2^30 ELSE Value(w, 31)

(* Shifts, and the field w[hi:lo] moved down to bit 0 (a C bitfield).      *)
Shl(w, n) == {b + n : b \in w} \cap Bits
Shr(w, n) == {b - n : b \in w} \cap Bits
Field(w, hi, lo) == Shr(w \cap (lo..hi), lo)

(* The sign bit and everything above it, when the sign bit is set.         *)
SignFill(sign, from) == {b \in Bits : sign /\ b >= from}

Complement(w) == Bits \ w
Xor(v, w) == (v \ w) \union (w \ v)

(* Bit i receives a carry when some lower bit generates one and every bit  *)
(* in between propagates it.                                               *)
Carries(v, w) ==
  {i \in Bits : \E g \in v \cap w :
                  g < i /\ \A p \in (g + 1)..(i - 1) : p \in v \/ p \in w}
Add(v, w) == Xor(Xor(v, w), Carries(v, w))
Neg(w) == Add(Complement(w), {0})

(* Unsigned and signed less-than: the highest differing bit decides, but   *)
(* for the sign bit it decides the other way.                              *)
ULess(v, w) == \E b \in w \ v : \A c \in (b + 1)..31 : c \in v <=> c \in w
SLess(v, w) == ULess(Xor(v, {31}), Xor(w, {31}))

Bool(p) == IF p THEN {0} ELSE {}
=============================================================================
