------------------------------- MODULE MCEmit -------------------------------
(* Programs of a few lengths: the least; around the length at which        *)
(* writing the instructions outgrows the 512 bytes of the headers; around  *)
(* those at which a later part of the file is the first to outgrow 1024;   *)
(* of several pages; and, the width of a u32 being scaled down, around     *)
(* those at which the file passes half of what it can count.               *)
EXTENDS EmitLoad

Lengths == {20, 44, 48, 412, 440, 460, 484, 488, 492, 556, 560, 4096, 7000, 7576, 7584, 8192}
=============================================================================
