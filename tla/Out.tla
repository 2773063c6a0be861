-------------------------------- MODULE Out --------------------------------
(***************************************************************************)
(* The growable buffer of bfc: struct out of bfc/out.h, out_resv() of      *)
(* bfc/out.c and the two functions of common/bit_math.h that choose its    *)
(* capacity, with the wrap of their 32-bit arithmetic.                     *)
(*                                                                         *)
(* The bytes are left to the modules that use a buffer; here a buffer is   *)
(* its length, its capacity and the block of memory it is in.  realloc()   *)
(* may grow the block in place, move it, or fail, which nobody checks:     *)
(* `bytes' is then NULL, and the next write through it ends the process.   *)
(* Two names of blocks are enough to tell a pointer that a move has left   *)
(* behind, since no pointer is held across two reservations.               *)
(*                                                                         *)
(* A definition named Bug... is a plausible mistake in the definition that *)
(* follows it.  No specification uses it: it serves to see that a property *)
(* would notice.                                                           *)
(***************************************************************************)
EXTENDS Integers

CONSTANT Width   \* the bits of a u32: 32, or scaled down, but at least 4

U32    == 2^Width
Powers == {2^i : i \in 0..(Width - 1)}
Half   == 2^(Width - 1)   \* the greatest of them

Null   == 0              \* the block of a buffer that has none
Blocks == 1..2

(* "ZII": a struct out whose members are all zero is an empty buffer.      *)
Empty == [len |-> 0, cap |-> 0, at |-> Null]

Buffer == [len: 0..(U32 - 1), cap: 0..(U32 - 1), at: {Null} \union Blocks]

-----------------------------------------------------------------------------
BugNextPo2Unmasked(val) ==
  IF val = 1 THEN Powers
  ELSE IF val = 0 \/ val > Half THEN {U32}
  ELSE {p \in Powers : p >= val /\ \A q \in Powers : q >= val => p <= q}
BugPreviousPo2(val) ==
  IF val > Half THEN {1}
  ELSE {p \in Powers : p <= val /\ \A q \in Powers : q <= val => q <= p}

(* 1 << ((32 - clz(val - 1)) & 31): the least power of two >= val; but 1   *)
(* for 0 and for what is beyond the greatest power, and, since clz(0) is   *)
(* undefined, any of them for 1.                                           *)
NextPo2(val) ==
  IF val = 1 THEN Powers
  ELSE IF val = 0 \/ val > Half THEN {1}
  ELSE {p \in Powers : p >= val /\ \A q \in Powers : q >= val => p <= q}

(* The top bit of a | b, for powers of two.                                *)
MaxPo2(a, b) == IF a > b THEN a ELSE b

(* realloc(): what may become of the block.                                *)
Reallocated(block) == IF block = Null THEN {Null, 1} ELSE {Null} \union Blocks

Grown(required, block) ==
  {[len |-> required, cap |-> MaxPo2(p, 8), at |-> b] :
     p \in NextPo2(required), b \in Reallocated(block)}

(* out_resv(): the buffers that reserving `count' bytes may lead to.  The  *)
(* reserved bytes are the last `count' of the buffer.                      *)
Reserve(out, count) ==
  LET required == (out.len + count) % U32
  IN IF required > out.cap THEN Grown(required, out.at)
     ELSE {[out EXCEPT !.len = required]}

(* What writing the bytes just reserved does: they are in the block; or it *)
(* is NULL; or they overrun the block, after which C says nothing.         *)
Written(out, count) ==
  IF out.at = Null THEN "segv"
  ELSE IF count <= out.len /\ out.len <= out.cap THEN "ok"
  ELSE "wild"
=============================================================================
