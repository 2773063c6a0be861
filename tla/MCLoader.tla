------------------------------ MODULE MCLoader ------------------------------
(* Small ELF files for Loader, on pages of PageSize bytes.                 *)
EXTENDS Loader, SequencesExt

RX == {"R", "X"}
RW == {"R", "W"}

(* A segment before it has an address: `gap' bytes after the previous one. *)
(* One byte of each non-empty segment is not in the file.                  *)
Piece(gaps, sizes, aligns, flags) ==
  [gap: gaps, memsz: sizes, align: aligns, flags: flags]

Base == 4    \* the address of the first segment

Address(pieces, i) ==
  Base + FoldLeft(LAMBDA sum, p : sum + p.gap + p.memsz, 0,
                  SubSeq(pieces, 1, i - 1)) + pieces[i].gap

Load(pieces, i) ==
  [type |-> "LOAD", vaddr |-> Address(pieces, i), memsz |-> pieces[i].memsz,
   filesz |-> IF pieces[i].memsz > 1 THEN pieces[i].memsz - 1
              ELSE pieces[i].memsz,
   offset |-> 100 * i, align |-> pieces[i].align, flags |-> pieces[i].flags]

Loads(pieces) == [i \in 1..Len(pieces) |-> Load(pieces, i)]

File(entry, phdrs, shdrs) ==
  [ident |-> TRUE, machine |-> TRUE, entry |-> entry, phentsize |-> 32,
   phdrs |-> phdrs, shdrs |-> shdrs]

(* Three segments: every combination of touching and distant, small and    *)
(* page-sized, aligned to nothing, half a page and two pages, executable   *)
(* or writable.  The entrypoint is in the first one.                       *)
LayoutFiles ==
  {File(Base, Loads(<<a, b, c>>), <<>>) :
     a \in Piece({0}, {3, 4}, {0, 4}, {RX, RW}),
     b \in Piece({0, 5}, {0, 3, 4}, {0, 2, 8}, {RX, RW}),
     c \in Piece({0, 5}, {3}, {0, 8}, {RX, RW})}

-----------------------------------------------------------------------------
(* Data at 4..6, text at 7..10: what bfc writes, in small.                 *)
Two == Loads(<<[gap |-> 0, memsz |-> 3, align |-> 0, flags |-> RW],
               [gap |-> 0, memsz |-> 4, align |-> 4, flags |-> RX]>>)

Interp == [Two[1] EXCEPT !.type = "INTERP"]
Note   == [Two[1] EXCEPT !.type = "OTHER"]
Empty  == [Two[2] EXCEPT !.memsz = 0, !.filesz = 0]

Plain(addr) == [type |-> "OTHER", addr |-> addr, info |-> 0, relas |-> <<>>]
RelaTable(info, relas) ==
  [type |-> "RELA", addr |-> 0, info |-> info, relas |-> relas]

(* Section 1 is .data, 2 is .text, 3 is in no segment, 4 relocates.        *)
Sections(info, relas) ==
  <<Plain(4), Plain(7), Plain(0), RelaTable(info, relas)>>

HeaderFiles ==
  {[File(7, Two, <<>>) EXCEPT !.ident = i, !.machine = m, !.entry = e,
                              !.phentsize = s] :
     i, m \in BOOLEAN, e \in {0, 7}, s \in {0, 32}}
  \union {File(e, phdrs, <<>>) : e \in {0, 4},
            phdrs \in {<<>>, <<Two[1]>>, <<Note>>, <<Two[1], Interp, Two[2]>>,
                       <<Interp>>, <<Note, Two[1], Two[2]>>, <<Empty>>,
                       <<[Two[2] EXCEPT !.align = 8]>>}}

Relocations ==
  [offset: {0, 1}, shndx: {1, 2, 3}, value: {0, 2^12, 2^20, 3 * 2^20},
   type: {"HI20", "OTHER"}, addend: {0}]

RelocFiles ==
  {File(7, Two, Sections(info, relas)) :
     info \in {2, 3}, relas \in TupleOf(Relocations, 1) \union TupleOf(
       {x \in Relocations : x.value # 2^12 /\ x.offset = 0}, 2)}
  \union {File(7, Two, Sections(2, <<>>))}

FailureFiles == HeaderFiles \union RelocFiles

AllFiles == LayoutFiles \union FailureFiles

=============================================================================
