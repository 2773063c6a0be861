------------------------------- MODULE Loader -------------------------------
(***************************************************************************)
(* The ELF loader of the emulator: loader_read_elf() of loader.c and the   *)
(* helpers it calls.  It maps the file, checks its identity, collects the  *)
(* PT_LOAD segments, lays them out in one anonymous mapping, copies them,  *)
(* applies the relocations, protects the pages and fills in the caller's   *)
(* struct loaded_exe.  Every early exit is a goto into a chain of clean-up *)
(* labels; the labels are values of `stage', so that what each exit has    *)
(* released, and which code it returns, is what the C program does.        *)
(*                                                                         *)
(* Data abstraction: the ELF file is a record (ElfFile); a relocation      *)
(* carries the section and value of the symbol its r_info names; a byte of *)
(* the memory image is Zero or the index of the file byte it was copied    *)
(* from, and the bits that relocations OR into the image are kept apart,   *)
(* in `patched'.                                                           *)
(*                                                                         *)
(* A definition named Bug... is a plausible mistake in the definition that *)
(* follows it.  No specification uses it: it serves to see that a property *)
(* would notice.                                                           *)
(***************************************************************************)
EXTENDS Integers, Sequences, FiniteSets

CONSTANTS
  Files,     \* the ELF files the loader may be given
  PageSize   \* sysconf(_SC_PAGESIZE)

Unset == -1  \* a field of a C struct that nothing has assigned yet
Zero  == -1  \* a zero byte of the memory image

Flags == SUBSET {"R", "W", "X"}

(* The fields of an Elf32_Phdr that the loader reads.                      *)
Phdr == [type: {"LOAD", "INTERP", "OTHER"}, vaddr: Nat, memsz: Nat,
         filesz: Nat, offset: Nat, align: Nat, flags: Flags]

Rela == [offset: Nat, shndx: Nat, value: Nat, type: {"HI20", "OTHER"},
         addend: Nat]

(* An Elf32_Shdr; `info' and `relas' mean something for SHT_RELA only.     *)
Shdr == [type: {"RELA", "OTHER"}, addr: Nat, info: Nat, relas: Seq(Rela)]

ElfFile == [ident: BOOLEAN, machine: BOOLEAN, entry: Nat, phentsize: Nat,
            phdrs: Seq(Phdr), shdrs: Seq(Shdr)]

Loadable(f) == {i \in 1..Len(f.phdrs) : f.phdrs[i].type = "LOAD"}

PowersOfTwo == {2^n : n \in 0..30}

(* What an ELF file owes the loader: PT_LOAD segments in ascending order   *)
(* of address and disjoint ("Since the segments are stored in order"), no  *)
(* more bytes in the file than in memory, alignments that are powers of    *)
(* two, section indices that exist.  Two assert()s are part of it: the     *)
(* entries of a relocation table have their size, and addresses are so     *)
(* small that no sum of them reaches 2^32.                                 *)
WellFormed(f) ==
  /\ \A i \in Loadable(f) :
       /\ f.phdrs[i].filesz <= f.phdrs[i].memsz
       /\ f.phdrs[i].align \in {0} \union PowersOfTwo
  /\ \A i, j \in Loadable(f) :
       i < j => f.phdrs[i].vaddr + f.phdrs[i].memsz <= f.phdrs[j].vaddr
  /\ \A i \in 1..Len(f.shdrs) : f.shdrs[i].type = "RELA" =>
       /\ f.shdrs[i].info \in 1..Len(f.shdrs)
       /\ \A r \in 1..Len(f.shdrs[i].relas) :
            f.shdrs[i].relas[r].shndx \in 1..Len(f.shdrs)

ASSUME PageSizeAssumption == PageSize \in PowersOfTwo
ASSUME FilesAssumption == \A f \in Files : f \in ElfFile /\ WellFormed(f)

VARIABLES
  stage,    \* where loader_read_elf() is: a phase of it or a clean-up label
  elf,      \* the file being loaded
  k,        \* the loop cursor: program header, segment, section or page
  r,        \* the inner loop cursor over the relocations of a section
  found,    \* found_any_exec_segment
  segms,    \* memory_segms: the program headers collected, in list order
  offs,     \* mem_offset of the segments laid out so far
  next,     \* next_segment_offset, then full_memory_image_size
  pages,    \* the page descriptors, in list order
  image,    \* the content of the memory image
  patched,  \* <<offset, bit>>: bit ORed into the word at offset
  prot,     \* the protection of each page of the image
  live,     \* what has been acquired and not yet released
  code,     \* the value loader_read_elf() will return
  exe       \* the caller's struct loaded_exe

vars == <<stage, elf, k, r, found, segms, offs, next, pages, image, patched,
          prot, live, code, exe>>

layoutVars == <<found, segms, offs, next, pages>>
imageVars  == <<image, patched, prot>>

Stages == {"open", "ident", "scan", "layout", "map", "copy", "reloc",
           "protect", "clean_mapped_exe", "clean_pages_list",
           "clean_segments_list", "clean_mapped", "clean_none"}

-----------------------------------------------------------------------------
(* The next multiple of a: what (v + (a - 1)) & ~(a - 1) computes for a    *)
(* power of two a.                                                         *)
AlignUp(v, a) == ((v + (a - 1)) \div a) * a

Segment(i) == segms[i]
LastPage == Len(pages)
FullSize == next

(* The pages of the mapping that the byte range [off, off + size) touches. *)
PagesOf(off, size) ==
  {p \in 0..((FullSize - 1) \div PageSize) :
     size > 0 /\ p * PageSize < off + size /\ off < (p + 1) * PageSize}

(* find_offset_for_section(): the segment whose addresses hold addr; there *)
(* is at most one, since segments are disjoint.                            *)
Covers(i, addr) ==
  /\ Segment(i).vaddr <= addr
  /\ addr < Segment(i).vaddr + Segment(i).memsz

Mappable(addr) == \E i \in 1..Len(segms) : Covers(i, addr)

FindOffset(addr) ==
  LET i == CHOOSE i \in 1..Len(segms) : Covers(i, addr)
  IN offs[i] + (addr - Segment(i).vaddr)

(* result & ~((1ul << 20) - 1): the bits R_RISCV_HI20 ORs into the word.   *)
Hi20(result) == {b \in 20..31 : ((result \div 2^20) \div 2^(b - 20)) % 2 = 1}

-----------------------------------------------------------------------------
(* The local variables at the call.                                        *)
Fresh ==
  /\ k = 1 /\ r = 1
  /\ found = FALSE /\ segms = <<>> /\ offs = <<>> /\ next = 0 /\ pages = <<>>
  /\ image = <<>> /\ patched = {} /\ prot = <<>>
  /\ live = {} /\ code = 0
  /\ exe = [mem |-> FALSE, mem_count |-> Unset, entrypoint |-> Unset]

Init == stage = "open" /\ elf \in Files /\ Fresh

BugOpenFailureUnmaps ==
  /\ stage = "open"
  /\ \/ stage' = "ident" /\ live' = {"file"} /\ code' = code
     \/ stage' = "clean_mapped" /\ code' = 1 /\ live' = live
  /\ UNCHANGED <<elf, k, r, layoutVars, imageVars, exe>>

(* mmap_file(): fstat() or mmap() may fail.                                *)
Open ==
  /\ stage = "open"
  /\ \/ stage' = "ident" /\ live' = {"file"} /\ code' = code
     \/ stage' = "clean_none" /\ code' = 1 /\ live' = live
  /\ UNCHANGED <<elf, k, r, layoutVars, imageVars, exe>>

(* The checks of the ELF header.  A missing entrypoint sets the code but   *)
(* does not leave; a wrong e_phentsize is only refused when it is 0.       *)
CheckHeader ==
  /\ stage = "ident"
  /\ IF ~elf.ident \/ ~elf.machine \/ elf.phentsize = 0
     THEN stage' = "clean_mapped" /\ code' = 1
     ELSE stage' = "scan" /\ code' = IF elf.entry = 0 THEN 1 ELSE code
  /\ UNCHANGED <<elf, k, r, layoutVars, imageVars, live, exe>>

(* One program header: add_segment() for PT_LOAD, refusal of PT_INTERP.    *)
ScanHeader ==
  /\ stage = "scan" /\ k <= Len(elf.phdrs)
  /\ LET ph == elf.phdrs[k] IN
     /\ segms' = IF ph.type = "LOAD" THEN Append(segms, ph) ELSE segms
     /\ found' = (found \/ (ph.type = "LOAD" /\ {"R", "X"} \subseteq ph.flags))
     /\ live' = IF ph.type = "LOAD" THEN live \union {"segments"} ELSE live
     /\ IF ph.type = "INTERP"
        THEN stage' = "clean_segments_list" /\ code' = 1
        ELSE UNCHANGED <<stage, code>>
  /\ k' = k + 1
  /\ UNCHANGED <<elf, r, offs, next, pages, imageVars, exe>>

(* The end of the scan.  A file without executable segment leaves with the *)
(* code it had; a file with one starts the layout with its first segment.  *)
EndScan ==
  /\ stage = "scan" /\ k > Len(elf.phdrs)
  /\ IF ~found
     THEN /\ stage' = "clean_segments_list"
          /\ UNCHANGED <<k, offs, next, pages, live, code>>
     ELSE IF Segment(1).align > PageSize
     THEN /\ stage' = "clean_segments_list" /\ code' = 1
          /\ UNCHANGED <<k, offs, next, pages, live>>
     ELSE /\ stage' = "layout" /\ k' = 2
          /\ next' = Segment(1).memsz /\ offs' = <<0>>
          /\ pages' = <<[offset |-> 0, size |-> Unset, flags |-> Segment(1).flags]>>
          /\ live' = live \union {"pages"} /\ code' = code
  /\ UNCHANGED <<elf, r, found, segms, imageVars, exe>>

-----------------------------------------------------------------------------
(* Where segment k goes, given next_segment_offset: advance by the part of *)
(* the gap between the segments that exceeds curr_distance, align to       *)
(* p_align, and to a page if a page descriptor with other flags begins.    *)
Gap(i) == Segment(i).vaddr - Segment(i - 1).vaddr - Segment(i - 1).memsz
CurrDistance(i) == next - offs[i - 1]
BugGapUnguarded(i) == next + (Gap(i) - CurrDistance(i))
AfterGap(i) == IF CurrDistance(i) < Gap(i)
               THEN next + (Gap(i) - CurrDistance(i))
               ELSE next
BugAlignTwoForgotten(i) == IF Segment(i).align > 2
                           THEN AlignUp(AfterGap(i), Segment(i).align)
                           ELSE AfterGap(i)
Aligned(i) == IF Segment(i).align >= 2
              THEN AlignUp(AfterGap(i), Segment(i).align)
              ELSE AfterGap(i)
BugNewPageFromHead(i) == Segment(i).flags # pages[1].flags
NewPage(i) == Segment(i).flags # pages[LastPage].flags
BugOffsetInsidePage(i) == Aligned(i)
SegmentOffset(i) == IF NewPage(i) THEN AlignUp(Aligned(i), PageSize)
                    ELSE Aligned(i)

BugPageEndSwapped(end) ==
  [pages EXCEPT ![LastPage].size = pages[LastPage].offset - end]
BugPageEndAbsolute(end) == [pages EXCEPT ![LastPage].size = end]

(* set_page_end() on the current page descriptor.                          *)
SetPageEnd(end) == [pages EXCEPT ![LastPage].size = end - pages[LastPage].offset]

LayoutSegment ==
  /\ stage = "layout" /\ k <= Len(segms)
  /\ LET off == SegmentOffset(k) IN
     /\ offs' = Append(offs, off)
     /\ next' = off + Segment(k).memsz
     /\ pages' = IF NewPage(k)
                 THEN Append(SetPageEnd(off), [offset |-> off, size |-> Unset,
                                               flags |-> Segment(k).flags])
                 ELSE pages
     /\ exe' = IF Covers(k, elf.entry)
               THEN [exe EXCEPT !.entrypoint =
                                  (elf.entry - Segment(k).vaddr) + off]
               ELSE exe
  /\ k' = k + 1
  /\ UNCHANGED <<stage, elf, r, found, segms, imageVars, live, code>>

EndLayout ==
  /\ stage = "layout" /\ k > Len(segms)
  /\ pages' = SetPageEnd(next)
  /\ stage' = "map"
  /\ UNCHANGED <<elf, k, r, found, segms, offs, next, imageVars, live, code, exe>>

(* The anonymous mapping of the image; mapping nothing is an error.        *)
MapImage ==
  /\ stage = "map"
  /\ \/ /\ FullSize > 0
        /\ image' = [o \in 0..(FullSize - 1) |-> Zero]
        /\ prot' = [p \in 0..((FullSize - 1) \div PageSize) |-> {"R", "W"}]
        /\ live' = live \union {"image"} /\ stage' = "copy" /\ k' = 1
        /\ code' = code
     \/ /\ code' = 1 /\ stage' = "clean_pages_list"
        /\ UNCHANGED <<image, prot, live, k>>
  /\ UNCHANGED <<elf, r, layoutVars, patched, exe>>

BugCopyMemsz ==
  /\ stage = "copy" /\ k <= Len(segms)
  /\ LET ph == Segment(k)
         InMemory == offs[k]..(offs[k] + ph.memsz - 1)
     IN image' = [o \in DOMAIN image |->
                    IF o \in InMemory THEN ph.offset + (o - offs[k])
                    ELSE image[o]]
  /\ k' = k + 1
  /\ UNCHANGED <<stage, elf, r, layoutVars, patched, prot, live, code, exe>>

(* memcpy() of the file bytes, memset() of the rest of the segment.        *)
CopySegment ==
  /\ stage = "copy" /\ k <= Len(segms)
  /\ LET ph == Segment(k)
         InFile == offs[k]..(offs[k] + ph.filesz - 1)
         Rest   == (offs[k] + ph.filesz)..(offs[k] + ph.memsz - 1)
     IN image' = [o \in DOMAIN image |->
                    IF o \in InFile THEN ph.offset + (o - offs[k])
                    ELSE IF o \in Rest THEN Zero
                    ELSE image[o]]
  /\ k' = k + 1
  /\ UNCHANGED <<stage, elf, r, layoutVars, patched, prot, live, code, exe>>

EndCopy ==
  /\ stage = "copy" /\ k > Len(segms)
  /\ stage' = "reloc" /\ k' = 1 /\ r' = 1
  /\ UNCHANGED <<elf, layoutVars, imageVars, live, code, exe>>

-----------------------------------------------------------------------------
Section(i) == elf.shdrs[i]
IsRela(i) == Section(i).type = "RELA"
PatchesMappable(i) == Mappable(Section(Section(i).info).addr)
SymbolMappable(rela) == Mappable(Section(rela.shndx).addr)
SymbolAddress(rela) == FindOffset(Section(rela.shndx).addr) + rela.value
PatchAt(i, rela) == FindOffset(Section(Section(i).info).addr) + rela.offset
Result(rela) == SymbolAddress(rela) + rela.addend

BugSectionAgain ==
  /\ stage = "reloc" /\ k <= Len(elf.shdrs)
  /\ IsRela(k) => PatchesMappable(k) /\ r > Len(Section(k).relas)
  /\ r' = 1
  /\ UNCHANGED <<stage, elf, k, layoutVars, imageVars, live, code, exe>>

(* The section is no relocation table, or its table is exhausted.          *)
NextSection ==
  /\ stage = "reloc" /\ k <= Len(elf.shdrs)
  /\ IsRela(k) => PatchesMappable(k) /\ r > Len(Section(k).relas)
  /\ k' = k + 1 /\ r' = 1
  /\ UNCHANGED <<stage, elf, layoutVars, imageVars, live, code, exe>>

BugUnmappableKeepsImage ==
  /\ stage = "reloc" /\ k <= Len(elf.shdrs)
  /\ IsRela(k) /\ ~PatchesMappable(k)
  /\ stage' = "clean_pages_list"
  /\ UNCHANGED <<elf, k, r, layoutVars, imageVars, live, code, exe>>

(* The table patches a section outside the image: leave, code as it is.    *)
UnmappableSection ==
  /\ stage = "reloc" /\ k <= Len(elf.shdrs)
  /\ IsRela(k) /\ ~PatchesMappable(k)
  /\ stage' = "clean_mapped_exe"
  /\ UNCHANGED <<elf, k, r, layoutVars, imageVars, live, code, exe>>

(* One Elf32_Rela: patch the instruction, or refuse.  A symbol outside the *)
(* image leaves the code as it is, an unknown type sets it.                *)
Relocate ==
  /\ stage = "reloc" /\ k <= Len(elf.shdrs)
  /\ IsRela(k) /\ PatchesMappable(k) /\ r <= Len(Section(k).relas)
  /\ LET rela == Section(k).relas[r] IN
     \/ /\ ~SymbolMappable(rela)
        /\ stage' = "clean_mapped_exe"
        /\ UNCHANGED <<r, patched, code>>
     \/ /\ SymbolMappable(rela) /\ rela.type # "HI20"
        /\ stage' = "clean_mapped_exe" /\ code' = 1
        /\ UNCHANGED <<r, patched>>
     \/ /\ SymbolMappable(rela) /\ rela.type = "HI20"
        /\ patched' = patched \union
             ({PatchAt(k, rela)} \X Hi20(Result(rela)))
        /\ r' = r + 1
        /\ UNCHANGED <<stage, code>>
  /\ UNCHANGED <<elf, k, layoutVars, image, prot, live, exe>>

EndReloc ==
  /\ stage = "reloc" /\ k > Len(elf.shdrs)
  /\ stage' = "protect" /\ k' = 1
  /\ UNCHANGED <<elf, r, layoutVars, imageVars, live, code, exe>>

BugProtectFailureForgotten ==
  /\ stage = "protect" /\ k <= Len(pages)
  /\ LET page == pages[k] IN
     \/ /\ prot' = [p \in DOMAIN prot |->
                      IF p \in PagesOf(page.offset, page.size)
                      THEN page.flags ELSE prot[p]]
        /\ k' = k + 1
        /\ UNCHANGED <<stage, code>>
     \/ /\ code' = code /\ stage' = "clean_mapped_exe"
        /\ UNCHANGED <<k, prot>>
  /\ UNCHANGED <<elf, r, layoutVars, image, patched, live, exe>>

(* mprotect() of one page descriptor.                                      *)
ProtectPage ==
  /\ stage = "protect" /\ k <= Len(pages)
  /\ LET page == pages[k] IN
     \/ /\ prot' = [p \in DOMAIN prot |->
                      IF p \in PagesOf(page.offset, page.size)
                      THEN page.flags ELSE prot[p]]
        /\ k' = k + 1
        /\ UNCHANGED <<stage, code>>
     \/ /\ code' = 1 /\ stage' = "clean_mapped_exe"
        /\ UNCHANGED <<k, prot>>
  /\ UNCHANGED <<elf, r, layoutVars, image, patched, live, exe>>

(* The image is complete: fill in the caller's struct and keep the image.  *)
Finish ==
  /\ stage = "protect" /\ k > Len(pages)
  /\ exe' = [mem |-> TRUE, mem_count |-> FullSize,
             entrypoint |-> elf.entry - Segment(1).vaddr]
  /\ stage' = "clean_pages_list"
  /\ UNCHANGED <<elf, k, r, layoutVars, imageVars, live, code>>

-----------------------------------------------------------------------------
(* The clean-up labels, each falling through to the next one.              *)
CleanUp(label, resource, nextLabel) ==
  /\ stage = label
  /\ live' = live \ {resource}
  /\ stage' = nextLabel
  /\ UNCHANGED <<elf, k, r, layoutVars, imageVars, code, exe>>

CleanMappedExe    == CleanUp("clean_mapped_exe", "image", "clean_pages_list")
CleanPagesList    == CleanUp("clean_pages_list", "pages", "clean_segments_list")
CleanSegmentsList == CleanUp("clean_segments_list", "segments", "clean_mapped")
CleanMapped       == CleanUp("clean_mapped", "file", "clean_none")

Next ==
  \/ Open \/ CheckHeader \/ ScanHeader \/ EndScan
  \/ LayoutSegment \/ EndLayout \/ MapImage \/ CopySegment \/ EndCopy
  \/ NextSection \/ UnmappableSection \/ Relocate \/ EndReloc
  \/ ProtectPage \/ Finish
  \/ CleanMappedExe \/ CleanPagesList \/ CleanSegmentsList \/ CleanMapped

(* A sequential function: it runs until it returns.                        *)
Spec == Init /\ [][Next]_vars /\ WF_vars(Next)

-----------------------------------------------------------------------------
Segments == 1..Len(segms)
Laid == 1..Len(offs)
Mapped == stage \in {"copy", "reloc", "protect"}
BeforeLayout == stage \in {"open", "ident", "scan"}

(* The type of every variable; which of them are still unset follows from  *)
(* the stage.                                                              *)
PageDescr == [offset: Nat, size: Nat \union {Unset}, flags: Flags]

ControlTypes ==
  /\ stage \in Stages
  /\ elf \in ElfFile /\ WellFormed(elf)
  /\ k \in Nat \ {0} /\ r \in Nat \ {0}
LayoutTypes ==
  /\ found \in BOOLEAN
  /\ segms \in Seq(Phdr)
  /\ offs \in Seq(Nat)
  /\ next \in Nat
  /\ pages \in Seq(PageDescr)
ImageTypes ==
  /\ \A o \in DOMAIN image : image[o] \in Nat \union {Zero}
  /\ \A p \in DOMAIN prot : prot[p] \in Flags
  /\ patched \subseteq Nat \X (0..31)
ResultTypes ==
  /\ live \subseteq {"file", "segments", "pages", "image"}
  /\ code \in {0, 1}
  /\ exe \in [mem: BOOLEAN, mem_count: Nat \union {Unset}, entrypoint: Int]

TypeOK == ControlTypes /\ LayoutTypes /\ ImageTypes /\ ResultTypes

(* Layout: the segments keep their order in the image, no two overlap, and *)
(* the image is as long as the last of them needs.                         *)
SegmentsApart ==
  \A i \in Laid :
    /\ offs[i] + segms[i].memsz <= next
    /\ \A j \in Laid : i < j => offs[i] + segms[i].memsz <= offs[j]

(* Layout: the p_align of every segment survives the later alignment of    *)
(* its offset to a page (the first segment is checked against the page).   *)
AlignmentHonoured ==
  \A i \in Laid : segms[i].align >= 2 => offs[i] % segms[i].align = 0

(* Layout: the page descriptors begin on pages and tile the image without  *)
(* hole or overlap, so that mprotect() sees every byte exactly once; only  *)
(* the last one is open, and only while the layout goes on.                *)
PageEnd(p) == IF p < LastPage THEN pages[p + 1].offset ELSE next

PagesTile ==
  \A p \in 1..LastPage :
    /\ pages[p].offset % PageSize = 0
    /\ p = 1 => pages[p].offset = 0
    /\ pages[p].offset <= PageEnd(p)
    /\ pages[p].size = IF p = LastPage /\ stage = "layout" THEN Unset
                      ELSE PageEnd(p) - pages[p].offset

(* Layout: every segment lies within one page descriptor, which asks for   *)
(* the segment's own protection.                                           *)
SegmentsOnTheirPages ==
  \A i \in Laid : \E p \in 1..LastPage :
    /\ pages[p].flags = segms[i].flags
    /\ pages[p].offset <= offs[i]
    /\ offs[i] + segms[i].memsz <= PageEnd(p)

(* Copy: after the copy of a segment its bytes in the image are those of   *)
(* the file followed by zeroes, and copying a later segment leaves them.   *)
Copied == IF stage = "copy" THEN 1..(k - 1)
          ELSE IF stage \in {"reloc", "protect"} \/ exe.mem THEN Segments
          ELSE {}

ImageFaithful ==
  \A i \in Copied : \A b \in 0..(segms[i].memsz - 1) :
    image[offs[i] + b] = IF b < segms[i].filesz THEN segms[i].offset + b
                         ELSE Zero

(* Protection: in an image handed to the caller each page that holds a     *)
(* byte of a segment has exactly the permissions that segment asked for.   *)
ProtectedAsAsked ==
  exe.mem => \A i \in Segments : \A p \in PagesOf(offs[i], segms[i].memsz) :
               prot[p] = segms[i].flags

(* Release: when the function returns, the goto chain has released all it  *)
(* had acquired, save an image that the caller got; and an error leaves    *)
(* the caller nothing, unless it is the missing entrypoint, which the      *)
(* loader reports and then goes on from.                                   *)
ResourcesReleased ==
  stage = "clean_none" =>
    /\ live = IF exe.mem THEN {"image"} ELSE {}
    /\ code # 0 /\ elf.entry # 0 => ~exe.mem

(* Order: an acquired resource is one that the rest of the goto chain will *)
(* release, and a label never releases what was not acquired: munmap() of  *)
(* an uninitialised `memory' would unmap something else.                   *)
Releases(resource) ==
  \/ stage = "clean_mapped_exe" /\ resource = "image"
  \/ stage = "clean_pages_list" /\ resource = "pages"
  \/ stage = "clean_mapped" /\ resource = "file"

OnlyReleasesAcquired ==
  \A resource \in {"image", "pages", "file"} :
    Releases(resource) => resource \in live

(* The loader keeps its contract: seen from outside, its stages are one    *)
(* step, which comes eventually, whatever the file and whichever call      *)
(* fails, and after which the caller has an image of an acceptable file,   *)
(* or nothing is held; and the code says which, but for what the contract  *)
(* excepts.                                                                *)
Returned == stage = "clean_none"

Contract == INSTANCE LoaderContract WITH
              file <- elf,
              returned <- Returned,
              code <- IF Returned THEN code ELSE 0,
              mem <- Returned /\ exe.mem,
              held <- IF Returned THEN live ELSE {}

KeepsContract == Contract!Spec

-----------------------------------------------------------------------------
(* What the code says of itself and does not do.                           *)

(* "This file dosen't have any executable code!" and "can't be mapped to   *)
(* the memory image!" are errors: a loader that returns 0 has loaded.      *)
SuccessMeansLoaded == stage = "clean_none" /\ code = 0 => exe.mem

(* "Ensure we patch the entrypoint so that it's correctly based on our     *)
(* offset": the entrypoint is where its segment was put.                   *)
EntrypointFollowsSegment ==
  exe.mem => \A i \in Segments : Covers(i, elf.entry) =>
               exe.entrypoint = offs[i] + (elf.entry - segms[i].vaddr)

(* R_RISCV_HI20 patches a `lui', whose immediate is imm_31_12: the bits of *)
(* the symbol's address from 12 up are in the patched word.  (Only for     *)
(* addresses whose low part is below 2^11, where rounding changes nothing.)*)
RelocatesHi20 ==
  stage = "protect" =>
    \A i \in 1..Len(elf.shdrs) : IsRela(i) =>
      \A j \in 1..Len(Section(i).relas) :
        LET rela == Section(i).relas[j] IN
        Result(rela) % 2^12 < 2^11 =>
          \A b \in 12..30 : (Result(rela) \div 2^b) % 2 = 1 =>
            <<PatchAt(i, rela), b>> \in patched
=============================================================================
