------------------------------ MODULE EmitElf ------------------------------
(***************************************************************************)
(* The back end of bfc: main() of bfc.c after compile_stdin(), that is     *)
(* emit_elf() and emit_raw().  The ELF file is built in one growable       *)
(* buffer, its headers reserved first and filled in as the parts of the    *)
(* file are appended, and three further buffers hold the tables of names   *)
(* and symbols until they are copied into the file.                        *)
(*                                                                         *)
(* An action is one block of emit_elf(): its reservations in order, the    *)
(* copies into them, the header fields it assigns, the buffers it frees.   *)
(* A reserved byte has no value until it is assigned (nothing zeroes the   *)
(* buffer): a header field is Unset.  Of a part of the file the model      *)
(* keeps where it is; of the fields, those that a reader of the file       *)
(* follows.  Addresses are far below 2^32 and plain numbers; only the      *)
(* lengths of buffers, in module Out, have a width.                        *)
(*                                                                         *)
(* A definition named Bug... is a plausible mistake in the definition that *)
(* follows it.  No specification uses it: it serves to see that a property *)
(* would notice.                                                           *)
(***************************************************************************)
EXTENDS Integers, Sequences

CONSTANTS
  Width,     \* the bits of a u32, see module Out
  PageSize,  \* sysconf(_SC_PAGESIZE)
  CodeSizes  \* the lengths of the compiled program, in bytes

O == INSTANCE Out

(* The headers of the file, of 468 bytes, can be counted.                  *)
ASSUME WidthAssumption == Width \in 9..32

(* A program fits into its buffer; main() has compiled it by now, into     *)
(* five instructions at least, which it begins and ends every program with.*)
ASSUME SizesAssumption == CodeSizes \subseteq 20..O!Half

(* A page is at most as large as the address of the data, DataAddr: so     *)
(* that this address is at the beginning of a page.                        *)
ASSUME EmitPageAssumption == PageSize \in {2^n : n \in 0..16}

VARIABLES
  mode,      \* "elf" or "raw", of main()
  phase,     \* where main() is
  size,      \* insns.len: how much code there is
  heap,      \* the buffers, and how the last write to one of them went
  sections,  \* the section headers in the buffer
  segments,  \* the program headers
  ehdr,      \* the ELF header
  parts,     \* <<section, offset, size>>: what was copied into the buffer
  names,     \* <<section, offset>>: where shstrtab holds a section's name
  disk       \* a.out: "old", "cut" short, or "whole"

emission == <<mode, phase, size, heap, sections, segments, ehdr, parts, names,
              disk>>

Unset == -1

Buffers == {"insns", "elf", "shstrtab", "strtab", "symtab"}

(* The sections in the order of their indices, which begin at 0.           *)
Order == <<"null", "data", "text", "rela", "symtab", "strtab", "shstrtab",
           "attributes">>
Ndx(section) == (CHOOSE i \in 1..Len(Order) : Order[i] = section) - 1

(* strlen(name) + 1 of their names, ".rela.text" and so on.                *)
NameSize == [null |-> 1, text |-> 6, data |-> 6, attributes |-> 18, rela |-> 11,
             symtab |-> 8, strtab |-> 8, shstrtab |-> 10]

EhdrSize == 52
PhdrSize == 32
ShdrSize == 40
SymSize  == 16
RelaSize == 2 * 12
DataName == 9     \* "_bf_data"
EntryName == 10   \* "_bf_entry"

TapeSize == 3 * 1024
DataAddr == 65536

(* insns_begin_virt: the page after the data.                              *)
BugTextAddrRoundedDown == ((DataAddr + TapeSize) \div PageSize) * PageSize
BugTextAddrUnaligned == DataAddr + TapeSize
TextAddr == ((DataAddr + TapeSize + (PageSize - 1)) \div PageSize) * PageSize

NoSection == [name |-> Unset, type |-> "unset", addr |-> Unset, offset |-> Unset,
              size |-> Unset, link |-> Unset, info |-> Unset]
NoSegment == [type |-> "unset", vaddr |-> Unset, memsz |-> Unset, filesz |-> Unset,
              offset |-> Unset, align |-> Unset, flags |-> {}]

-----------------------------------------------------------------------------
Init ==
  /\ mode \in {"elf", "raw"} /\ phase = "headers"
  /\ size \in CodeSizes
  /\ heap = [b \in Buffers \union {"wrote"} |->
               CASE b = "wrote" -> "ok"
                 [] b = "insns" -> [len |-> size, cap |-> size, at |-> 1]
                 [] OTHER -> O!Empty]
  /\ sections = [s \in DOMAIN NameSize |-> NoSection]
  /\ segments = [s \in {"data", "text", "attributes"} |-> NoSegment]
  /\ ehdr = [entry |-> Unset, shstrndx |-> Unset, shoff |-> Unset, phoff |-> Unset]
  /\ parts = {} /\ names = {} /\ disk = "old"

-----------------------------------------------------------------------------
(* Reserve bytes of a buffer; reserve and write them.  A write that fails  *)
(* is the last: no action goes on after it.                                *)
Reserve(h, b, count) == {[h EXCEPT ![b] = o] : o \in O!Reserve(h[b], count)}

Write(h, b, count) ==
  IF h.wrote # "ok" THEN {h}
  ELSE {[h EXCEPT ![b] = o, !.wrote = O!Written(o, count)] :
          o \in O!Reserve(h[b], count)}

Free(h, b) == [h EXCEPT ![b] = O!Empty]

BugDestroyForgets(h, b) == IF h.wrote = "ok" /\ b # "strtab" THEN Free(h, b) ELSE h

(* out_destroy(), once the last write has gone well.                       *)
Destroy(h, b) == IF h.wrote = "ok" THEN Free(h, b) ELSE h

(* out_write_index() returns where the bytes go: the length before.        *)
BugIndexAfter(b, count) == heap[b].len + count
Index(b, count) == heap[b].len

At(from, to) ==
  /\ phase = from /\ heap.wrote = "ok"
  /\ phase' = to
  /\ UNCHANGED <<mode, size>>

(* strtab_add(&shstrtab, ...): its index is what sh_name is set to.        *)
Named(section) ==
  names' = names \union {<<section, Index("shstrtab", NameSize[section])>>}

Section(section, type, addr, offset, length, link, info) ==
  [name |-> Index("shstrtab", NameSize[section]), type |-> type, addr |-> addr,
   offset |-> offset, size |-> length, link |-> link, info |-> info]

Part(section, offset, length) == parts' = parts \union {<<section, offset, length>>}

-----------------------------------------------------------------------------
(* main(): the raw mode writes the instructions as they are.               *)
ChooseRaw ==
  /\ mode = "raw" /\ At("headers", "file")
  /\ UNCHANGED <<heap, sections, segments, ehdr, parts, names, disk>>

(* The headers are reserved, and nothing is written yet.                   *)
ReserveHeaders ==
  /\ mode = "elf" /\ At("headers", "insns")
  /\ \E h1 \in Reserve(heap, "elf", EhdrSize) :
       \E h2 \in Reserve(h1, "elf", 3 * PhdrSize) :
         heap' \in Reserve(h2, "elf", Len(Order) * ShdrSize)
  /\ UNCHANGED <<sections, segments, ehdr, parts, names, disk>>

WriteInsns ==
  /\ At("insns", "null")
  /\ heap' \in Write(heap, "elf", size)
  /\ Part("text", Index("elf", size), size)
  /\ UNCHANGED <<sections, segments, ehdr, names, disk>>

(* insns_begin_elf, and what follows the instructions.                     *)
InsnsBegin == EhdrSize + 3 * PhdrSize + Len(Order) * ShdrSize
InsnsEnd   == InsnsBegin + size

NullSection ==
  /\ At("null", "text")
  /\ heap' \in Write(heap, "shstrtab", NameSize["null"])
  /\ sections' = [sections EXCEPT !["null"] = Section("null", "OTHER", 0, 0, 0, 0, 0)]
  /\ Named("null")
  /\ UNCHANGED <<segments, ehdr, parts, disk>>

TextSection ==
  /\ At("text", "data")
  /\ heap' \in Write(heap, "shstrtab", NameSize["text"])
  /\ sections' = [sections EXCEPT !["text"] =
                    Section("text", "OTHER", TextAddr, InsnsBegin, size, 0, 0)]
  /\ segments' = [segments EXCEPT !["text"] =
       [type |-> "LOAD", vaddr |-> TextAddr, memsz |-> size, filesz |-> size,
        offset |-> InsnsBegin, align |-> PageSize, flags |-> {"R", "X"}]]
  /\ Named("text")
  /\ UNCHANGED <<ehdr, parts, disk>>

DataSection ==
  /\ At("data", "attributes")
  /\ heap' \in Write(heap, "shstrtab", NameSize["data"])
  /\ sections' = [sections EXCEPT !["data"] =
                    Section("data", "OTHER", DataAddr, InsnsEnd, TapeSize, 0, 0)]
  /\ segments' = [segments EXCEPT !["data"] =
       [type |-> "LOAD", vaddr |-> DataAddr, memsz |-> TapeSize, filesz |-> 0,
        offset |-> InsnsEnd, align |-> PageSize, flags |-> {"R", "W"}]]
  /\ Named("data")
  /\ UNCHANGED <<ehdr, parts, disk>>

(* emit_riscv_attributes() emits nothing.                                  *)
Attributes ==
  /\ At("attributes", "rela")
  /\ heap' \in Write(heap, "shstrtab", NameSize["attributes"])
  /\ sections' = [sections EXCEPT !["attributes"] =
                    Section("attributes", "OTHER", 0, heap["elf"].len, 0, 0, 0)]
  /\ segments' = [segments EXCEPT !["attributes"] =
       [type |-> "OTHER", vaddr |-> 0, memsz |-> 0, filesz |-> 0,
        offset |-> heap["elf"].len, align |-> 1, flags |-> {"R"}]]
  /\ Named("attributes")
  /\ UNCHANGED <<ehdr, parts, disk>>

BugLinkInfoSwapped ==
  /\ At("rela", "entry")
  /\ \E h1 \in Write(heap, "symtab", SymSize) :
       \E h2 \in Write(h1, "strtab", DataName) :
         \E h3 \in Write(h2, "elf", RelaSize) :
           heap' \in Write(h3, "shstrtab", NameSize["rela"])
  /\ sections' = [sections EXCEPT !["rela"] =
       Section("rela", "RELA", 0, Index("elf", RelaSize), RelaSize,
               Ndx("text"), Ndx("symtab"))]
  /\ Part("rela", heap["elf"].len, RelaSize) /\ Named("rela")
  /\ UNCHANGED <<segments, ehdr, disk>>

(* The symbol of the data and the two relocations against it.              *)
Relocations ==
  /\ At("rela", "entry")
  /\ \E h1 \in Write(heap, "symtab", SymSize) :
       \E h2 \in Write(h1, "strtab", DataName) :
         \E h3 \in Write(h2, "elf", RelaSize) :
           heap' \in Write(h3, "shstrtab", NameSize["rela"])
  /\ sections' = [sections EXCEPT !["rela"] =
       Section("rela", "RELA", 0, Index("elf", RelaSize), RelaSize,
               Ndx("symtab"), Ndx("text"))]
  /\ Part("rela", heap["elf"].len, RelaSize) /\ Named("rela")
  /\ UNCHANGED <<segments, ehdr, disk>>

EntrySymbol ==
  /\ At("entry", "symtab")
  /\ \E h \in Write(heap, "symtab", SymSize) :
       heap' \in Write(h, "strtab", EntryName)
  /\ UNCHANGED <<sections, segments, ehdr, parts, names, disk>>

(* A finished table is copied into the file, described and freed.          *)
CopyTable(table, link, info) ==
  LET length == heap[table].len IN
  /\ \E h1 \in Write(heap, "elf", length) :
       \E h2 \in Write(h1, "shstrtab", NameSize[table]) :
         heap' = Destroy(h2, table)
  /\ sections' = [sections EXCEPT ![table] =
       Section(table, "OTHER", 0, Index("elf", length), length, link, info)]
  /\ Part(table, heap["elf"].len, length) /\ Named(table)
  /\ UNCHANGED <<segments, ehdr, disk>>

SymbolTable == At("symtab", "strtab") /\ CopyTable("symtab", Ndx("strtab"), 2)
StringTable == At("strtab", "shstrtab") /\ CopyTable("strtab", 0, 0)

(* The table of section names, to which its own name is added first.  The  *)
(* C expression `sections[shstrtab_shdr].sh_offset = out_write_index(...)' *)
(* may compute the address of the field before the call, which may move    *)
(* the buffer, or after it: the order is unspecified.  Stored through the  *)
(* old address, the offset is not in the file.                             *)
NameTable ==
  /\ At("shstrtab", "ehdr")
  /\ \E named \in Write(heap, "shstrtab", NameSize["shstrtab"]) :
       LET length == named["shstrtab"].len IN
       \E h \in Write(named, "elf", length), callFirst \in BOOLEAN :
         LET stored == callFirst \/ h["elf"].at = heap["elf"].at IN
         /\ heap' = Destroy(h, "shstrtab")
         /\ sections' = [sections EXCEPT !["shstrtab"] =
              Section("shstrtab", "OTHER", 0,
                      IF stored THEN Index("elf", length) ELSE Unset, length, 0, 0)]
         /\ Part("shstrtab", heap["elf"].len, length)
  /\ Named("shstrtab")
  /\ UNCHANGED <<segments, ehdr, disk>>

ElfHeader ==
  /\ At("ehdr", "file")
  /\ ehdr' = [entry |-> TextAddr, shstrndx |-> Ndx("shstrtab"),
              phoff |-> EhdrSize, shoff |-> EhdrSize + 3 * PhdrSize]
  /\ UNCHANGED <<heap, sections, segments, parts, names, disk>>

(* emit_raw(): open() truncates a.out, or fails; write() writes all of it, *)
(* or less.  Neither failure is reported to the caller.                    *)
EmitRaw ==
  /\ At("file", "free")
  /\ disk' \in {"old", "cut", "whole"}
  /\ UNCHANGED <<heap, sections, segments, ehdr, parts, names>>

(* The file's buffer, if there is one, then the instructions.              *)
FreeBuffers ==
  /\ At("free", "exited")
  /\ heap' = Destroy(Destroy(heap, "elf"), "insns")
  /\ UNCHANGED <<sections, segments, ehdr, parts, names, disk>>

Emit ==
  \/ ChooseRaw \/ ReserveHeaders \/ WriteInsns \/ NullSection \/ TextSection
  \/ DataSection \/ Attributes \/ Relocations \/ EntrySymbol \/ SymbolTable
  \/ StringTable \/ NameTable \/ ElfHeader \/ EmitRaw \/ FreeBuffers
=============================================================================
