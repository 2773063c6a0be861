------------------------------ MODULE EmitLoad ------------------------------
(***************************************************************************)
(* bfc and the ELF loader of cpu, which meet in the file a.out: bfc writes *)
(* it (EmitElf), and if all of it was written, cpu may load it (Loader).   *)
(* The loader's assumptions about a file are here something to check.      *)
(***************************************************************************)
EXTENDS EmitElf

VARIABLES stage, elf, k, r, found, segms, offs, next, pages, image, patched,
          prot, live, code, exe

L == INSTANCE Loader WITH Files <- {}

loaderVars == <<stage, elf, k, r, found, segms, offs, next, pages, image,
                patched, prot, live, code, exe>>
all == <<emission, loaderVars>>

NoFile == [ident |-> FALSE, machine |-> FALSE, entry |-> 0, phentsize |-> 0,
           phdrs |-> <<>>, shdrs |-> <<>>]

-----------------------------------------------------------------------------
(* The file as the loader reads it: the program headers in their order,    *)
(* section indices from 1, the symbol of a relocation looked up.  Both     *)
(* relocations name _bf_data, which is at the start of .data: the one the  *)
(* lui of the first instruction, the other the addi of the second.         *)
RelaEntries ==
  [i \in 1..2 |-> [offset |-> 4 * (i - 1), shndx |-> Ndx("data") + 1, value |-> 0,
                   type |-> "HI20", addend |-> 0]]

Header(section) ==
  LET s == sections[section] IN
  [type |-> s.type, addr |-> s.addr, info |-> s.info + 1,
   relas |-> IF s.type = "RELA" /\ s.link = Ndx("symtab") THEN RelaEntries
             ELSE <<>>]

OnDisk ==
  [ident |-> TRUE, machine |-> TRUE, entry |-> ehdr.entry, phentsize |-> PhdrSize,
   phdrs |-> <<segments["data"], segments["text"], segments["attributes"]>>,
   shdrs |-> [i \in 1..Len(Order) |-> Header(Order[i])]]

BothInit == Init /\ stage = "idle" /\ elf = NoFile /\ L!Fresh

Writing == Emit /\ UNCHANGED loaderVars

(* cpu is given the file.  (A file without the offset of its section names *)
(* makes the loader's log print a string from anywhere; nothing is said of *)
(* that.)                                                                  *)
HandOver ==
  /\ stage = "idle" /\ phase = "exited" /\ mode = "elf" /\ disk = "whole"
  /\ sections["shstrtab"].offset # Unset
  /\ stage' = "open" /\ elf' = OnDisk
  /\ UNCHANGED <<emission, k, r, found, segms, offs, next, pages, image, patched,
                 prot, live, code, exe>>

Loading == stage # "idle" /\ L!Next /\ UNCHANGED emission

BothNext == Writing \/ HandOver \/ Loading

Spec == BothInit /\ [][BothNext]_all

-----------------------------------------------------------------------------
Tables == {"text", "rela", "symtab", "strtab", "shstrtab"}
FixedSize == 468 + 2 * 12 + 2 * 16 + 19 + 68

(* The type of every variable of the writer, and that its buffers stay     *)
(* buffers whatever is reserved.                                           *)
TypeOK ==
  /\ mode \in {"elf", "raw"} /\ disk \in {"old", "cut", "whole"}
  /\ size \in CodeSizes
  /\ \A b \in Buffers : heap[b] \in O!Buffer
  /\ heap.wrote \in {"ok", "segv", "wild"}
  /\ \A s \in DOMAIN sections : sections[s].offset \in Nat \union {Unset}
  /\ parts \subseteq (Tables \X Nat \X Nat)
  /\ \A n \in names : n[1] \in DOMAIN NameSize /\ n[2] \in Nat

(* Headers: the buffer is never zeroed, so in a finished file every field  *)
(* of every header was assigned; each header's name, offset and size are   *)
(* those of what was really copied for it; and the parts lie inside the    *)
(* file and apart from each other.  The offset of the section names is the *)
(* exception, see emit_stale.                                              *)
Assigned(record) ==
  \A field \in DOMAIN record \ {"flags"} :
    IF field = "type" THEN record.type # "unset" ELSE record[field] # Unset

FileComplete ==
  phase = "free" /\ mode = "elf" =>
    /\ \A s \in DOMAIN segments : Assigned(segments[s])
    /\ Assigned(ehdr)
    /\ \A s \in DOMAIN sections :
         /\ Assigned([sections[s] EXCEPT !.offset = IF s = "shstrtab" THEN 0 ELSE @])
         /\ <<s, sections[s].name>> \in names
    /\ \A s \in Tables \ {"shstrtab"} :
         <<s, sections[s].offset, sections[s].size>> \in parts
    /\ \A p \in parts :
         /\ 468 <= p[2] /\ p[2] + p[3] <= heap["elf"].len
         /\ \A q \in parts : p # q => p[2] + p[3] <= q[2] \/ q[2] + q[3] <= p[2]

(* Growth: as long as all of the file fits into half the range of a u32,   *)
(* the capacity that the rounding to a power of two chooses covers every   *)
(* write, including the first, of one byte, for which it is undefined.     *)
NoOverrunBelowHalf ==
  heap.wrote = "wild" => mode = "elf" /\ size + FixedSize > O!Half

(* Release: whichever way main() returns, each buffer was freed.           *)
Released == phase = "exited" => \A b \in Buffers : heap[b].at = O!Null

(* What bfc writes is what the loader asks for: segments in order and      *)
(* disjoint, sections that exist, alignments that are powers of two; and   *)
(* nothing in it makes the loader refuse it, so that only a system call    *)
(* that fails can.                                                         *)
OwesTheLoader == stage = "open" => elf \in L!ElfFile /\ L!WellFormed(elf)

NeverRefused ==
  [][(stage \in {"ident", "scan", "reloc"}) =>
       stage' \notin {"clean_mapped", "clean_segments_list", "clean_mapped_exe"}]_all

(* The loader puts what bfc compiled where bfc meant it: the entrypoint is *)
(* at the first instruction, on pages that may be executed; the tape is at *)
(* address 0, where the code without its relocations looks for it, is all  *)
(* zeroes and may be written; and no relocation changes an instruction.    *)
LoadsWhatWasEmitted ==
  exe.mem =>
    /\ \A b \in 0..(size - 1) : image[exe.entrypoint + b] = InsnsBegin + b
    /\ \A p \in L!PagesOf(exe.entrypoint, size) : prot[p] = {"R", "X"}
    /\ \A b \in 0..(TapeSize - 1) : image[b] = L!Zero
    /\ \A p \in L!PagesOf(0, TapeSize) : prot[p] = {"R", "W"}
    /\ patched = {}

-----------------------------------------------------------------------------
(* What the code says of itself and does not do.                           *)

(* "segments & sections defined as macros since `elf.bytes` might change,  *)
(* hence the binding isn't recomputed": every assignment through them      *)
(* reaches the buffer as it is then.                                       *)
SectionsReachTheFile ==
  phase = "free" /\ mode = "elf" => \A s \in DOMAIN sections : Assigned(sections[s])
=============================================================================
