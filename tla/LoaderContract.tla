--------------------------- MODULE LoaderContract ---------------------------
(***************************************************************************)
(* What a caller of loader_read_elf() may rely on, with none of its        *)
(* stages, cursors and labels: one step, in which the function returns.    *)
(* Either the caller has an image, which is then the only thing still      *)
(* held, or it has nothing and nothing is held.  Any of the system calls   *)
(* may fail, so any file may be refused; the code tells the caller which   *)
(* it was, but for two exceptions that the code has and a caller must know *)
(* of: a file without entrypoint loads although the code is an error, and  *)
(* some errors are printed but return 0 (Silent).                          *)
(***************************************************************************)
EXTENDS Integers, Sequences

VARIABLES
  file,      \* the ELF file, as in module Loader
  returned,  \* whether the function has returned
  code,      \* the code it returned
  mem,       \* whether it filled in the caller's struct loaded_exe
  held       \* what it acquired and did not release

contract == <<file, returned, code, mem, held>>

Has(type) == \E i \in 1..Len(file.phdrs) : file.phdrs[i].type = type
Executable ==
  \E i \in 1..Len(file.phdrs) : /\ file.phdrs[i].type = "LOAD"
                                /\ {"R", "X"} \subseteq file.phdrs[i].flags
Relocates == \E i \in 1..Len(file.shdrs) : file.shdrs[i].type = "RELA"

(* The header and the program headers raise no objection.                  *)
Acceptable ==
  /\ file.ident /\ file.machine /\ file.phentsize # 0
  /\ ~Has("INTERP")

(* No executable code, or a relocation that cannot be mapped: an error on  *)
(* the terminal, 0 to the caller.                                          *)
Silent == Acceptable /\ file.entry # 0 /\ (~Executable \/ Relocates)

-----------------------------------------------------------------------------
Init == returned = FALSE /\ code = 0 /\ mem = FALSE /\ held = {}

Load ==
  /\ Acceptable /\ Executable
  /\ mem' = TRUE /\ held' = {"image"}
  /\ code' = IF file.entry = 0 THEN 1 ELSE 0

Refuse ==
  /\ mem' = FALSE /\ held' = {}
  /\ code' = 1 \/ (code' = 0 /\ Silent)

Return ==
  /\ ~returned /\ returned' = TRUE
  /\ Load \/ Refuse
  /\ UNCHANGED file

Safety == Init /\ [][Return]_contract
Spec == Safety /\ WF_contract(Return)
=============================================================================
