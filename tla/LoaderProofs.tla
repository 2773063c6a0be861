---------------------------- MODULE LoaderProofs ----------------------------
(***************************************************************************)
(* Proofs about Loader, for every page size and every set of ELF files.    *)
(*                                                                         *)
(* The argument: TypeOK is inductive together with ControlInv, which ties  *)
(* the loop cursors to the sequences they index.  On top of it LayoutInv   *)
(* (segments apart, pages tile, segments on their pages) is inductive, and *)
(* so is LiveInv, which says of each stage what the function holds and     *)
(* what it will return; ResourcesReleased and OnlyReleasesAcquired follow. *)
(* And the loader implements its contract (that it returns at all is       *)
(* left to TLC): ContractInv says what the stages so far have established  *)
(* of the file, and what each label of the goto chain may be reached with. *)
(*                                                                         *)
(* What the loader puts into the image (alignment, bytes, protections)     *)
(* rests on the layout and on LiveInv.  Alignments and the page size are   *)
(* powers of two, so that of two of them the smaller divides the greater,  *)
(* and rounding up to one undoes no rounding to the other (AlignInv).  The *)
(* page descriptors are in order (PagesOrdered), and a descriptor begins   *)
(* on a page, so that no two share one; segments are in order too.  Hence  *)
(* what one iteration of the loop that copies, or of the one that          *)
(* protects, has written, the later ones leave alone (ImageInv).           *)
(***************************************************************************)
EXTENDS Loader, SequenceTheorems, TLAPS

(* What the control point says of the cursors and the lists.               *)
ControlInv ==
  /\ BeforeLayout => offs = <<>> /\ pages = <<>>
  /\ found => segms # <<>>
  /\ Len(offs) <= Len(segms)
  /\ stage = "layout" => /\ k \in 2..(Len(segms) + 1)
                         /\ Len(offs) = k - 1
                         /\ pages # <<>>
  /\ stage \in {"map", "copy", "reloc", "protect"} =>
       Len(offs) = Len(segms) /\ segms # <<>>

TypeInv == TypeOK /\ ControlInv

(* The segments of a file are program headers.                             *)
LEMMA FileTypes ==
  ASSUME TypeOK
  PROVE  /\ elf.phdrs \in Seq(Phdr) /\ elf.shdrs \in Seq(Shdr)
         /\ elf.entry \in Nat
BY DEF TypeOK, ControlTypes, ElfFile

(* Aligning goes up, by less than the alignment.                           *)
LEMMA AlignUpBounds ==
  ASSUME NEW v \in Nat, NEW a \in Nat \ {0}
  PROVE  /\ AlignUp(v, a) \in Nat
         /\ v <= AlignUp(v, a) /\ AlignUp(v, a) < v + a
<1> DEFINE q == (v + (a - 1)) \div a
           m == (v + (a - 1)) % a
<1>1. v + (a - 1) \in Nat /\ q \in Nat /\ m \in 0..(a - 1)
  BY SMT
<1>2. v + (a - 1) = a * q + m
  BY SMT
<1>3. a * q = q * a /\ q * a \in Nat
  BY <1>1, SMT
<1> QED BY <1>1, <1>2, <1>3, SMT DEF AlignUp

(* An aligned offset is a multiple of the alignment.                       *)
LEMMA AlignUpMultiple ==
  ASSUME NEW v \in Nat, NEW a \in Nat \ {0}
  PROVE  AlignUp(v, a) % a = 0
<1> DEFINE q == (v + (a - 1)) \div a
<1>1. q \in Nat
  BY SMT
<1>2. \A n \in Nat : (n * a) % a = 0
  BY SMT
<1> QED BY <1>1, <1>2 DEF AlignUp

LEMMA PageSizeNat == PageSize \in Nat \ {0}
BY PageSizeAssumption, SMT DEF PowersOfTwo

(* Where LayoutSegment puts segment k: not before the end of the segments  *)
(* already laid out, and on a page if a new page descriptor begins there.  *)
LEMMA OffsetBounds ==
  ASSUME TypeInv, stage = "layout", k <= Len(segms)
  PROVE  /\ SegmentOffset(k) \in Nat
         /\ next <= SegmentOffset(k)
         /\ NewPage(k) => SegmentOffset(k) % PageSize = 0
<1>1. /\ k \in 1..Len(segms) /\ k - 1 \in 1..Len(segms)
      /\ k - 1 \in 1..Len(offs)
  BY DEF TypeInv, TypeOK, ControlTypes, LayoutTypes, ControlInv
<1>2. /\ segms[k] \in Phdr /\ segms[k - 1] \in Phdr
      /\ offs[k - 1] \in Nat /\ next \in Nat
  BY <1>1 DEF TypeInv, TypeOK, LayoutTypes
<1>3. Gap(k) \in Int /\ CurrDistance(k) \in Int
  <2>1. /\ segms[k].vaddr \in Nat
        /\ segms[k - 1].vaddr \in Nat /\ segms[k - 1].memsz \in Nat
    BY <1>2 DEF Phdr
  <2> QED BY <1>2, <2>1 DEF Gap, CurrDistance, Segment
<1>4. AfterGap(k) \in Nat /\ next <= AfterGap(k)
  BY <1>2, <1>3 DEF AfterGap
<1>5. Aligned(k) \in Nat /\ AfterGap(k) <= Aligned(k)
  <2>1. Segment(k).align \in Nat
    BY <1>2 DEF Segment, Phdr
  <2>2. CASE Segment(k).align >= 2
    <3>1. Segment(k).align \in Nat \ {0}
      BY <2>1, <2>2
    <3>2. Aligned(k) = AlignUp(AfterGap(k), Segment(k).align)
      BY <2>2 DEF Aligned
    <3> QED BY <3>1, <3>2, <1>4, AlignUpBounds
  <2>3. CASE ~(Segment(k).align >= 2)
    BY <2>3, <1>4 DEF Aligned
  <2> QED BY <2>2, <2>3
<1>6. CASE NewPage(k)
  <2>1. SegmentOffset(k) = AlignUp(Aligned(k), PageSize)
    BY <1>6 DEF SegmentOffset
  <2>2. SegmentOffset(k) \in Nat /\ Aligned(k) <= SegmentOffset(k)
    BY <2>1, <1>5, PageSizeNat, AlignUpBounds
  <2>3. SegmentOffset(k) % PageSize = 0
    BY <2>1, <1>5, PageSizeNat, AlignUpMultiple
  <2> QED BY <2>2, <2>3, <1>2, <1>4, <1>5
<1>7. CASE ~NewPage(k)
  BY <1>7, <1>2, <1>4, <1>5 DEF SegmentOffset
<1> QED BY <1>6, <1>7

-----------------------------------------------------------------------------
(* find_offset_for_section() returns an offset.                            *)
LEMMA FindOffsetNat ==
  ASSUME TypeInv, Len(offs) = Len(segms), NEW addr \in Nat, Mappable(addr)
  PROVE  FindOffset(addr) \in Nat
<1> DEFINE i == CHOOSE i \in 1..Len(segms) : Covers(i, addr)
<1>1. i \in 1..Len(segms) /\ Covers(i, addr)
  BY DEF Mappable
<1>2. segms[i].vaddr \in Nat /\ offs[i] \in Nat
  <2>1. segms[i] \in Phdr /\ offs[i] \in Nat
    BY <1>1 DEF TypeInv, TypeOK, LayoutTypes
  <2> QED BY <2>1 DEF Phdr
<1>3. segms[i].vaddr <= addr
  BY <1>1 DEF Covers, Segment
<1>4. FindOffset(addr) = offs[i] + (addr - segms[i].vaddr)
  BY DEF FindOffset, Segment
<1> QED BY <1>2, <1>3, <1>4

(* What a relocation patches is a bit of a word of the image.              *)
LEMMA PatchTypes ==
  ASSUME TypeInv, Len(offs) = Len(segms), k <= Len(elf.shdrs), IsRela(k),
         PatchesMappable(k), r <= Len(Section(k).relas)
  PROVE  /\ PatchAt(k, Section(k).relas[r]) \in Nat
         /\ \A n \in Int : Hi20(n) \subseteq 0..31
<1>1. /\ k \in 1..Len(elf.shdrs) /\ elf.shdrs \in Seq(Shdr)
      /\ r \in Nat \ {0} /\ WellFormed(elf)
  BY FileTypes DEF TypeInv, TypeOK, ControlTypes
<1>2. Section(k) \in Shdr
  BY <1>1 DEF Section
<1>3. Section(k).info \in 1..Len(elf.shdrs)
  BY <1>1 DEF WellFormed, IsRela, Section
<1>4. Section(Section(k).info).addr \in Nat
  <2>1. Section(Section(k).info) \in Shdr
    BY <1>1, <1>3 DEF Section
  <2> QED BY <2>1 DEF Shdr
<1>5. FindOffset(Section(Section(k).info).addr) \in Nat
  BY <1>4, FindOffsetNat DEF PatchesMappable
<1>6. Section(k).relas[r].offset \in Nat
  <2>1. Section(k).relas \in Seq(Rela)
    BY <1>2 DEF Shdr
  <2>2. Section(k).relas[r] \in Rela
    BY <2>1, <1>1
  <2> QED BY <2>2 DEF Rela
<1>7. PatchAt(k, Section(k).relas[r]) \in Nat
  BY <1>5, <1>6 DEF PatchAt
<1>8. \A n \in Int : Hi20(n) \subseteq 0..31
  BY DEF Hi20
<1> QED BY <1>7, <1>8

LEMMA TypeInit == Init => TypeInv
<1> SUFFICES ASSUME Init PROVE TypeInv
  OBVIOUS
<1>1. ControlTypes
  BY FilesAssumption DEF Init, Fresh, ControlTypes, Stages
<1>2. LayoutTypes
  BY EmptySeq DEF Init, Fresh, LayoutTypes
<1>3. ImageTypes
  <2>1. DOMAIN image = {} /\ DOMAIN prot = {}
    BY DEF Init, Fresh
  <2>2. patched \subseteq Nat \X (0..31)
    BY DEF Init, Fresh
  <2> QED BY <2>1, <2>2 DEF ImageTypes
<1>4. ResultTypes
  BY DEF Init, Fresh, ResultTypes, Unset
<1>5. ControlInv
  BY DEF Init, Fresh, ControlInv, BeforeLayout
<1> QED BY <1>1, <1>2, <1>3, <1>4, <1>5 DEF TypeInv, TypeOK

-----------------------------------------------------------------------------
(* The elements of the layout are what they should be.                     *)
LEMMA SegmentTypes ==
  ASSUME TypeInv
  PROVE  /\ Len(segms) \in Nat /\ Len(offs) \in Nat /\ Len(pages) \in Nat
         /\ \A i \in 1..Len(segms) :
              /\ segms[i] \in Phdr
              /\ segms[i].vaddr \in Nat /\ segms[i].memsz \in Nat
              /\ segms[i].offset \in Nat /\ segms[i].flags \in Flags
         /\ \A i \in 1..Len(offs) : offs[i] \in Nat
         /\ \A p \in 1..Len(pages) :
              /\ pages[p] \in PageDescr
              /\ pages[p].offset \in Nat /\ pages[p].flags \in Flags
<1>1. segms \in Seq(Phdr) /\ offs \in Seq(Nat) /\ pages \in Seq(PageDescr)
  BY DEF TypeInv, TypeOK, LayoutTypes
<1>2. Len(segms) \in Nat /\ Len(offs) \in Nat /\ Len(pages) \in Nat
  BY <1>1
<1>3. \A i \in 1..Len(segms) : segms[i] \in Phdr
  BY <1>1, ElementOfSeq
<1>4. \A i \in 1..Len(offs) : offs[i] \in Nat
  BY <1>1, ElementOfSeq
<1>5. \A p \in 1..Len(pages) : pages[p] \in PageDescr
  BY <1>1, ElementOfSeq
<1>6. \A ph \in Phdr : /\ ph.vaddr \in Nat /\ ph.memsz \in Nat
                       /\ ph.offset \in Nat /\ ph.flags \in Flags
  BY DEF Phdr
<1>7. \A pd \in PageDescr : pd.offset \in Nat /\ pd.flags \in Flags
  BY DEF PageDescr
<1> QED BY <1>2, <1>3, <1>4, <1>5, <1>6, <1>7

(* set_page_end() keeps every descriptor but the size of the last one.     *)
LEMMA SetPageEndProperties ==
  ASSUME TypeInv, pages # <<>>, NEW end \in Nat, pages[LastPage].offset <= end
  PROVE  /\ SetPageEnd(end) \in Seq(PageDescr)
         /\ Len(SetPageEnd(end)) = Len(pages)
         /\ \A p \in 1..Len(pages) :
              /\ SetPageEnd(end)[p].offset = pages[p].offset
              /\ SetPageEnd(end)[p].flags = pages[p].flags
              /\ SetPageEnd(end)[p].size =
                   IF p = LastPage THEN end - pages[p].offset ELSE pages[p].size
<1>1. pages \in Seq(PageDescr)
  BY DEF TypeInv, TypeOK, LayoutTypes
<1>2. LastPage \in 1..Len(pages)
  BY <1>1, EmptySeq DEF LastPage
<1> DEFINE new == [pages[LastPage] EXCEPT !.size = end - pages[LastPage].offset]
<1>3. pages[LastPage] \in PageDescr
  BY <1>1, <1>2, ElementOfSeq
<1>4. /\ new \in PageDescr
      /\ new.offset = pages[LastPage].offset /\ new.flags = pages[LastPage].flags
      /\ new.size = end - pages[LastPage].offset
  BY <1>3 DEF PageDescr
<1>5. SetPageEnd(end) = [pages EXCEPT ![LastPage] = new]
  BY <1>1, <1>2, <1>3 DEF SetPageEnd, PageDescr
<1> HIDE DEF new
<1> QED BY <1>1, <1>2, <1>4, <1>5, ExceptSeq

-----------------------------------------------------------------------------
LayoutInv == SegmentsApart /\ PagesTile /\ SegmentsOnTheirPages

Inv == TypeInv /\ LayoutInv

AfterLayout == stage \in {"map", "copy", "reloc", "protect"}

(* An action outside the layout phase leaves the layout as it was.         *)
LEMMA Quiet ==
  ASSUME Inv, UNCHANGED layoutVars, stage # "layout", stage' # "layout",
         BeforeLayout' => BeforeLayout, AfterLayout' => AfterLayout
  PROVE  LayoutTypes' /\ ControlInv' /\ LayoutInv'
<1>1. LayoutTypes'
  BY DEF Inv, TypeInv, TypeOK, LayoutTypes, layoutVars
<1>2. ControlInv'
  BY DEF Inv, TypeInv, ControlInv, layoutVars, BeforeLayout, AfterLayout
<1>3. SegmentsApart'
  BY DEF Inv, LayoutInv, SegmentsApart, Laid, layoutVars
<1>4. PagesTile'
  BY DEF Inv, LayoutInv, PagesTile, PageEnd, LastPage, layoutVars
<1>5. SegmentsOnTheirPages'
  BY DEF Inv, LayoutInv, SegmentsOnTheirPages, PageEnd, LastPage, Laid, layoutVars
<1> QED BY <1>1, <1>2, <1>3, <1>4, <1>5 DEF LayoutInv

(* Collecting a program header: nothing is laid out yet.                   *)
LEMMA ScanStep == Inv /\ ScanHeader => Inv'
<1> SUFFICES ASSUME Inv, ScanHeader PROVE Inv'
  OBVIOUS
<1>1. k \in 1..Len(elf.phdrs) /\ elf.phdrs[k] \in Phdr /\ segms \in Seq(Phdr)
  BY FileTypes DEF Inv, TypeInv, TypeOK, ControlTypes, LayoutTypes, ScanHeader
<1>2. segms' \in Seq(Phdr) /\ Len(segms) <= Len(segms') /\ (found' => segms' # <<>>)
  <2>1. found => segms # <<>>
    BY DEF Inv, TypeInv, ControlInv
  <2>2. Len(segms) \in Nat
    BY <1>1
  <2>3. CASE elf.phdrs[k].type = "LOAD"
    <3>1. segms' = Append(segms, elf.phdrs[k])
      BY <2>3 DEF ScanHeader
    <3> QED BY <3>1, <1>1, <2>2, AppendProperties
  <2>4. CASE elf.phdrs[k].type # "LOAD"
    <3>1. segms' = segms /\ found' = found
      BY <2>4 DEF Inv, TypeInv, TypeOK, LayoutTypes, ScanHeader
    <3> QED BY <3>1, <1>1, <2>1, <2>2
  <2> QED BY <2>3, <2>4
<1>3. offs' = <<>> /\ pages' = <<>> /\ offs = <<>> /\ pages = <<>> /\ next' = next
  BY DEF Inv, TypeInv, ControlInv, BeforeLayout, ScanHeader
<1>4. ControlTypes'
  BY DEF Inv, TypeInv, TypeOK, ControlTypes, Stages, ScanHeader
<1>5. LayoutTypes'
  BY <1>2, <1>3 DEF Inv, TypeInv, TypeOK, LayoutTypes, ScanHeader
<1>6. ImageTypes'
  BY DEF Inv, TypeInv, TypeOK, ImageTypes, imageVars, ScanHeader
<1>7. ResultTypes'
  BY DEF Inv, TypeInv, TypeOK, ResultTypes, ScanHeader
<1>8. stage' \in {"scan", "clean_segments_list"}
  BY DEF ScanHeader
<1>9. ControlInv'
  BY <1>2, <1>3, <1>8, EmptySeq DEF ControlInv, BeforeLayout
<1>10. LayoutInv'
  BY <1>3, EmptySeq
  DEF LayoutInv, SegmentsApart, PagesTile, SegmentsOnTheirPages, Laid, LastPage
<1> QED BY <1>4, <1>5, <1>6, <1>7, <1>9, <1>10 DEF Inv, TypeInv, TypeOK

(* The first segment opens the layout, on the first page descriptor.       *)
LEMMA EndScanStep == Inv /\ EndScan => Inv'
<1> SUFFICES ASSUME Inv, EndScan PROVE Inv'
  OBVIOUS
<1>1. ControlTypes'
  BY DEF Inv, TypeInv, TypeOK, ControlTypes, Stages, EndScan
<1>2. ImageTypes'
  BY DEF Inv, TypeInv, TypeOK, ImageTypes, imageVars, EndScan
<1>3. ResultTypes'
  BY DEF Inv, TypeInv, TypeOK, ResultTypes, EndScan
<1>4. CASE stage' = "clean_segments_list"
  <2>1. UNCHANGED layoutVars /\ stage = "scan"
    BY <1>4 DEF EndScan, layoutVars
  <2> QED BY <2>1, <1>1, <1>2, <1>3, <1>4, Quiet
          DEF Inv, TypeInv, TypeOK, BeforeLayout, AfterLayout
<1>5. CASE stage' = "layout"
  <2> DEFINE page == [offset |-> 0, size |-> Unset, flags |-> segms[1].flags]
  <2>1. /\ k' = 2 /\ next' = segms[1].memsz /\ offs' = <<0>> /\ pages' = <<page>>
        /\ UNCHANGED <<found, segms>> /\ found
    BY <1>5 DEF EndScan, Segment
  <2>2. 1 \in 1..Len(segms) /\ segms \in Seq(Phdr)
    BY <2>1, EmptySeq DEF Inv, TypeInv, TypeOK, LayoutTypes, ControlInv
  <2>3. segms[1].memsz \in Nat /\ segms[1].flags \in Flags
    BY <2>2, SegmentTypes DEF Inv
  <2>4. page \in PageDescr
    BY <2>3 DEF PageDescr
  <2>5. /\ pages' \in Seq(PageDescr) /\ Len(pages') = 1 /\ pages'[1] = page
        /\ offs' \in Seq(Nat) /\ Len(offs') = 1 /\ offs'[1] = 0 /\ pages' # <<>>
    BY <2>1, <2>4
  <2> HIDE DEF page
  <2>6. LayoutTypes'
    BY <2>1, <2>2, <2>3, <2>5 DEF LayoutTypes, Inv, TypeInv, TypeOK
  <2>7. ControlInv'
    BY <1>5, <2>1, <2>2, <2>5 DEF ControlInv, BeforeLayout, Inv, TypeInv
  <2>8. SegmentsApart'
    BY <2>1, <2>3, <2>5 DEF SegmentsApart, Laid
  <2>9. page.offset = 0 /\ page.size = Unset /\ page.flags = segms[1].flags
    BY DEF page
  <2>10. 0 % PageSize = 0
    BY PageSizeNat
  <2>11. PagesTile'
    BY <1>5, <2>1, <2>3, <2>5, <2>9, <2>10 DEF PagesTile, PageEnd, LastPage
  <2>12. SegmentsOnTheirPages'
    BY <2>1, <2>3, <2>5, <2>9 DEF SegmentsOnTheirPages, PageEnd, LastPage, Laid
  <2> QED BY <1>1, <1>2, <1>3, <2>6, <2>7, <2>8, <2>11, <2>12
          DEF Inv, TypeInv, TypeOK, LayoutInv
<1> QED BY <1>4, <1>5 DEF EndScan

(* Laying out a segment: OffsetBounds says that it goes after the others   *)
(* and, if it needs other permissions, on a page of its own; the           *)
(* descriptor it closes then ends where the new one begins.                *)
LEMMA LayoutStep == Inv /\ LayoutSegment => Inv'
<1> SUFFICES ASSUME Inv, LayoutSegment PROVE Inv'
  OBVIOUS
<1> DEFINE off == SegmentOffset(k)
           n == Len(offs)
<1>1. /\ stage = "layout" /\ stage' = "layout" /\ k <= Len(segms)
      /\ k' = k + 1 /\ UNCHANGED <<segms, found>>
      /\ offs' = Append(offs, off) /\ next' = off + segms[k].memsz
  BY DEF LayoutSegment, Segment
<1>2. /\ n = k - 1 /\ k \in 1..Len(segms) /\ n \in Nat /\ pages # <<>>
      /\ k \in 2..(Len(segms) + 1)
  BY <1>1 DEF Inv, TypeInv, TypeOK, ControlTypes, LayoutTypes, ControlInv
<1>3. /\ segms[k].memsz \in Nat /\ segms[k].vaddr \in Nat
      /\ segms[k].flags \in Flags /\ next \in Nat
  BY <1>2, SegmentTypes DEF Inv, TypeInv, TypeOK, LayoutTypes
<1>4. off \in Nat /\ next <= off /\ (NewPage(k) => off % PageSize = 0)
  BY <1>1, OffsetBounds DEF Inv
<1> HIDE DEF off
<1>0. /\ next' = off + segms[k].memsz /\ next' \in Nat
      /\ off <= next' /\ next <= next'
  BY <1>1, <1>3, <1>4
<1>5. /\ offs' \in Seq(Nat) /\ Len(offs') = k
      /\ \A i \in 1..n : offs'[i] = offs[i]
      /\ offs'[k] = off
  BY <1>1, <1>2, <1>4, AppendProperties DEF Inv, TypeInv, TypeOK, LayoutTypes
<1>6. LastPage \in 1..Len(pages) /\ Len(pages) \in Nat
  BY <1>2, EmptySeq DEF Inv, TypeInv, TypeOK, LayoutTypes, LastPage
<1>7. pages[LastPage].offset <= off
  <2>1. pages[LastPage].offset <= next
    BY <1>6 DEF Inv, LayoutInv, PagesTile, PageEnd
  <2>2. pages[LastPage].offset \in Nat
    BY <1>6, SegmentTypes DEF Inv
  <2> QED BY <2>1, <2>2, <1>3, <1>4
<1>8. ControlTypes' /\ ImageTypes'
  BY <1>1 DEF LayoutSegment, Inv, TypeInv, TypeOK, ControlTypes, ImageTypes, imageVars
<1>9. ResultTypes'
  <2>1. exe \in [mem: BOOLEAN, mem_count: Nat \union {Unset}, entrypoint: Int]
    BY DEF Inv, TypeInv, TypeOK, ResultTypes
  <2>2. (elf.entry - segms[k].vaddr) + off \in Int
    BY <1>3, <1>4, FileTypes DEF Inv, TypeInv
  <2>3. exe' \in {exe, [exe EXCEPT !.entrypoint = (elf.entry - segms[k].vaddr) + off]}
    BY DEF LayoutSegment, Segment, off
  <2>4. exe' \in [mem: BOOLEAN, mem_count: Nat \union {Unset}, entrypoint: Int]
    BY <2>1, <2>2, <2>3
  <2> QED BY <2>4 DEF LayoutSegment, Inv, TypeInv, TypeOK, ResultTypes
<1>16. \A i \in 1..n : /\ offs'[i] = offs[i]
                       /\ offs[i] + segms[i].memsz <= next
                       /\ offs[i] \in Nat /\ segms[i].memsz \in Nat
  <2>1. \A i \in 1..n : offs[i] \in Nat /\ segms[i].memsz \in Nat
    BY <1>2, SegmentTypes DEF Inv
  <2>2. \A i \in 1..n : offs[i] + segms[i].memsz <= next
    BY DEF Inv, LayoutInv, SegmentsApart, Laid
  <2> QED BY <2>1, <2>2, <1>5
<1>10. SegmentsApart'
  <2>1. \A i \in 1..n : /\ offs[i] \in Nat /\ segms[i].memsz \in Nat
                        /\ offs[i] + segms[i].memsz <= next
    BY <1>16
  <2>2. \A i, j \in 1..n : i < j => offs[i] + segms[i].memsz <= offs[j]
    BY DEF Inv, LayoutInv, SegmentsApart, Laid
  <2>3. \A i \in 1..k : i \in 1..n \/ i = k
    BY <1>2
  <2>4. ASSUME NEW i \in 1..k
        PROVE  offs'[i] + segms[i].memsz <= next'
    <3>1. CASE i \in 1..n
      <4>1. offs'[i] = offs[i] /\ offs[i] + segms[i].memsz <= next
            /\ offs[i] \in Nat /\ segms[i].memsz \in Nat
        BY <3>1, <1>5, <2>1
      <4> QED BY <4>1, <1>0, <1>3
    <3>2. CASE i = k
      BY <3>2, <1>1, <1>5, <1>3, <1>4
    <3> QED BY <3>1, <3>2, <2>3
  <2>5. ASSUME NEW i \in 1..k, NEW j \in 1..k, i < j
        PROVE  offs'[i] + segms[i].memsz <= offs'[j]
    <3>1. i \in 1..n
      BY <2>5, <1>2
    <3>2. offs'[i] = offs[i] /\ offs[i] + segms[i].memsz <= next
          /\ offs[i] \in Nat /\ segms[i].memsz \in Nat
      BY <3>1, <1>5, <2>1
    <3>3. CASE j \in 1..n
      BY <3>1, <3>2, <3>3, <2>2, <2>5, <1>5
    <3>4. CASE j = k
      BY <3>2, <3>4, <1>3, <1>4, <1>5
    <3> QED BY <3>3, <3>4, <2>3
  <2> QED BY <2>4, <2>5, <1>1, <1>5 DEF SegmentsApart, Laid
<1> DEFINE closed == SetPageEnd(off)
           page == [offset |-> off, size |-> Unset, flags |-> segms[k].flags]
<1>11. page \in PageDescr /\ page.offset = off /\ page.size = Unset
       /\ page.flags = segms[k].flags
  BY <1>3, <1>4 DEF PageDescr
<1>12. /\ closed \in Seq(PageDescr) /\ Len(closed) = LastPage
       /\ \A p \in 1..LastPage :
            /\ closed[p].offset = pages[p].offset
            /\ closed[p].flags = pages[p].flags
            /\ closed[p].size = IF p = LastPage THEN off - pages[p].offset
                               ELSE pages[p].size
  BY <1>2, <1>4, <1>7, SetPageEndProperties DEF Inv, LastPage
<1>13. pages' = IF NewPage(k) THEN Append(closed, page) ELSE pages
  BY DEF LayoutSegment, Segment, off
<1> HIDE DEF closed, page
<1>14. CASE NewPage(k)
  <2>1. /\ pages' \in Seq(PageDescr) /\ pages' # <<>>
        /\ Len(pages') = LastPage + 1 /\ pages'[LastPage + 1] = page
        /\ \A p \in 1..LastPage : pages'[p] = closed[p]
    BY <1>14, <1>11, <1>12, <1>13, AppendProperties
  <2>2. LastPage' = LastPage + 1 /\ LastPage \in Nat \ {0}
    BY <2>1, <1>6 DEF LastPage
  <2>3. \A p \in 1..(LastPage + 1) : p = LastPage + 1 => PageEnd(p)' = next'
    BY <2>2 DEF PageEnd
  <2>4. \A p \in 1..LastPage :
          PageEnd(p)' = IF p = LastPage THEN off ELSE PageEnd(p)
    BY <2>1, <2>2, <1>11, <1>12 DEF PageEnd
  <2>5. LayoutTypes'
    BY <2>1, <1>1, <1>3, <1>4, <1>5 DEF LayoutTypes, Inv, TypeInv, TypeOK
  <2>6. ControlInv'
    BY <2>1, <1>1, <1>2, <1>5 DEF ControlInv, BeforeLayout, Inv, TypeInv
  <2>7. ASSUME NEW p \in 1..(LastPage + 1)
        PROVE  /\ pages'[p].offset % PageSize = 0
               /\ p = 1 => pages'[p].offset = 0
               /\ pages'[p].offset <= PageEnd(p)'
               /\ pages'[p].size = IF p = LastPage + 1 THEN Unset
                                  ELSE PageEnd(p)' - pages'[p].offset
    <3>1. CASE p = LastPage + 1
      BY <3>1, <2>1, <2>2, <2>3, <1>0, <1>4, <1>11, <1>14
    <3>2. CASE p \in 1..LastPage
      <4>1. /\ pages'[p].offset = pages[p].offset
            /\ pages'[p].size = IF p = LastPage THEN off - pages[p].offset
                               ELSE pages[p].size
        BY <3>2, <2>1, <1>12
      <4>2. /\ pages[p].offset % PageSize = 0
            /\ p = 1 => pages[p].offset = 0
            /\ pages[p].offset <= PageEnd(p)
            /\ p # LastPage => pages[p].size = PageEnd(p) - pages[p].offset
        BY <3>2 DEF Inv, LayoutInv, PagesTile
      <4> QED BY <4>1, <4>2, <3>2, <2>2, <2>4, <1>7
    <3> QED BY <3>1, <3>2, <2>2
  <2>8. PagesTile'
    BY <2>2, <2>7, <1>1 DEF PagesTile
  <2>9. ASSUME NEW i \in 1..k
        PROVE  \E p \in 1..(LastPage + 1) :
                 /\ pages'[p].flags = segms[i].flags
                 /\ pages'[p].offset <= offs'[i]
                 /\ offs'[i] + segms[i].memsz <= PageEnd(p)'
    <3>1. CASE i = k
      <4>1. PICK p \in 1..(LastPage + 1) : p = LastPage + 1
        BY <2>2
      <4>2. /\ pages'[p].flags = segms[i].flags
            /\ pages'[p].offset <= offs'[i]
            /\ offs'[i] + segms[i].memsz <= PageEnd(p)'
        BY <4>1, <3>1, <2>1, <2>2, <2>3, <1>0, <1>4, <1>5, <1>11
      <4> QED BY <4>2
    <3>2. CASE i \in 1..n
      <4>1. PICK p \in 1..LastPage :
              /\ pages[p].flags = segms[i].flags
              /\ pages[p].offset <= offs[i]
              /\ offs[i] + segms[i].memsz <= PageEnd(p)
        BY <3>2 DEF Inv, LayoutInv, SegmentsOnTheirPages, Laid
      <4>2. /\ offs'[i] = offs[i]
            /\ offs[i] + segms[i].memsz <= next
            /\ offs[i] \in Nat /\ segms[i].memsz \in Nat
        BY <3>2, <1>16
      <4>3. offs[i] + segms[i].memsz <= PageEnd(p)'
        BY <4>1, <4>2, <2>4, <1>3, <1>4
      <4>4. pages'[p].flags = pages[p].flags /\ pages'[p].offset = pages[p].offset
        BY <2>1, <1>12
      <4> QED BY <4>1, <4>2, <4>3, <4>4, <2>2
    <3> QED BY <3>1, <3>2, <1>2
  <2>10. SegmentsOnTheirPages'
    BY <2>2, <2>9, <1>1, <1>5 DEF SegmentsOnTheirPages, Laid
  <2> QED BY <1>8, <1>9, <1>10, <2>5, <2>6, <2>8, <2>10
          DEF Inv, TypeInv, TypeOK, LayoutInv
<1>15. CASE ~NewPage(k)
  <2>1. pages' = pages /\ pages[LastPage].flags = segms[k].flags
    BY <1>13, <1>15 DEF NewPage, Segment
  <2>2. LastPage' = LastPage /\ LastPage \in Nat \ {0}
    BY <2>1, <1>6 DEF LastPage
  <2>3. \A p \in 1..LastPage :
          PageEnd(p)' = IF p = LastPage THEN next' ELSE PageEnd(p)
    BY <2>1, <2>2 DEF PageEnd
  <2>4. PageEnd(LastPage) = next /\ next <= next' /\ next' \in Nat
    BY <2>2, <1>1, <1>3, <1>4 DEF PageEnd
  <2>5. LayoutTypes'
    BY <2>1, <1>1, <1>3, <1>4, <1>5 DEF LayoutTypes, Inv, TypeInv, TypeOK
  <2>6. ControlInv'
    BY <2>1, <1>1, <1>2, <1>5 DEF ControlInv, BeforeLayout, Inv, TypeInv
  <2>7. ASSUME NEW p \in 1..LastPage
        PROVE  /\ pages[p].offset % PageSize = 0
               /\ p = 1 => pages[p].offset = 0
               /\ pages[p].offset <= PageEnd(p)'
               /\ pages[p].size = IF p = LastPage THEN Unset
                                 ELSE PageEnd(p)' - pages[p].offset
    <3>1. /\ pages[p].offset % PageSize = 0
          /\ p = 1 => pages[p].offset = 0
          /\ pages[p].offset <= PageEnd(p)
          /\ pages[p].size = IF p = LastPage THEN Unset
                            ELSE PageEnd(p) - pages[p].offset
      BY <1>1 DEF Inv, LayoutInv, PagesTile
    <3>2. pages[p].offset \in Nat
      BY SegmentTypes DEF Inv, LastPage
    <3> QED BY <3>1, <3>2, <2>3, <2>4, <1>3
  <2>8. PagesTile'
    BY <2>1, <2>2, <2>7, <1>1 DEF PagesTile
  <2>9. ASSUME NEW i \in 1..k
        PROVE  \E p \in 1..LastPage :
                 /\ pages[p].flags = segms[i].flags
                 /\ pages[p].offset <= offs'[i]
                 /\ offs'[i] + segms[i].memsz <= PageEnd(p)'
    <3>1. CASE i = k
      <4>1. PICK p \in 1..LastPage : p = LastPage
        BY <2>2
      <4>2. /\ pages[p].flags = segms[i].flags
            /\ pages[p].offset <= offs'[i]
            /\ offs'[i] + segms[i].memsz <= PageEnd(p)'
        BY <4>1, <3>1, <2>1, <2>2, <2>3, <1>0, <1>4, <1>5, <1>7
      <4> QED BY <4>2
    <3>2. CASE i \in 1..n
      <4>1. PICK p \in 1..LastPage :
              /\ pages[p].flags = segms[i].flags
              /\ pages[p].offset <= offs[i]
              /\ offs[i] + segms[i].memsz <= PageEnd(p)
        BY <3>2 DEF Inv, LayoutInv, SegmentsOnTheirPages, Laid
      <4>2. /\ offs'[i] = offs[i]
            /\ offs[i] + segms[i].memsz <= next
            /\ offs[i] \in Nat /\ segms[i].memsz \in Nat
        BY <3>2, <1>16
      <4>3. offs[i] + segms[i].memsz <= PageEnd(p)'
        BY <4>1, <4>2, <2>3, <2>4, <1>3
      <4> QED BY <4>1, <4>2, <4>3
    <3> QED BY <3>1, <3>2, <1>2
  <2>10. SegmentsOnTheirPages'
    BY <2>1, <2>2, <2>9, <1>1, <1>5 DEF SegmentsOnTheirPages, Laid
  <2> QED BY <1>8, <1>9, <1>10, <2>5, <2>6, <2>8, <2>10
          DEF Inv, TypeInv, TypeOK, LayoutInv
<1> QED BY <1>14, <1>15

(* Closing the last page descriptor at the end of the image.               *)
LEMMA EndLayoutStep == Inv /\ EndLayout => Inv'
<1> SUFFICES ASSUME Inv, EndLayout PROVE Inv'
  OBVIOUS
<1>1. /\ stage = "layout" /\ stage' = "map" /\ k > Len(segms)
      /\ pages' = SetPageEnd(next)
      /\ UNCHANGED <<elf, k, r, found, segms, offs, next, imageVars, live, code, exe>>
  BY DEF EndLayout
<1>2. /\ pages # <<>> /\ Len(offs) = Len(segms) /\ next \in Nat
      /\ segms # <<>>
  BY <1>1, SegmentTypes
  DEF Inv, TypeInv, TypeOK, ControlTypes, LayoutTypes, ControlInv
<1>3. LastPage \in 1..Len(pages) /\ Len(pages) \in Nat
  BY <1>2, EmptySeq DEF Inv, TypeInv, TypeOK, LayoutTypes, LastPage
<1>4. PageEnd(LastPage) = next /\ pages[LastPage].offset <= next
  BY <1>3 DEF Inv, LayoutInv, PagesTile, PageEnd
<1>5. /\ pages' \in Seq(PageDescr) /\ Len(pages') = Len(pages)
      /\ \A p \in 1..Len(pages) :
           /\ pages'[p].offset = pages[p].offset
           /\ pages'[p].flags = pages[p].flags
           /\ pages'[p].size = IF p = LastPage THEN next - pages[p].offset
                              ELSE pages[p].size
  BY <1>1, <1>2, <1>4, SetPageEndProperties DEF Inv
<1>6. LastPage' = LastPage /\ LastPage = Len(pages)
  BY <1>5 DEF LastPage
<1>7. \A p \in 1..Len(pages) : PageEnd(p)' = PageEnd(p)
  BY <1>1, <1>3, <1>5, <1>6 DEF PageEnd
<1>8. ControlTypes' /\ ImageTypes' /\ ResultTypes'
  BY <1>1 DEF Inv, TypeInv, TypeOK, ControlTypes, Stages, ImageTypes, imageVars,
              ResultTypes
<1>9. LayoutTypes'
  BY <1>1, <1>5 DEF Inv, TypeInv, TypeOK, LayoutTypes
<1>10. pages' # <<>>
  BY <1>3, <1>5, EmptySeq
<1>11. ControlInv'
  BY <1>1, <1>2, <1>10 DEF Inv, TypeInv, ControlInv, BeforeLayout
<1>12. SegmentsApart'
  BY <1>1 DEF Inv, LayoutInv, SegmentsApart, Laid
<1>13. ASSUME NEW p \in 1..Len(pages)
       PROVE  /\ pages'[p].offset % PageSize = 0
              /\ p = 1 => pages'[p].offset = 0
              /\ pages'[p].offset <= PageEnd(p)'
              /\ pages'[p].size = PageEnd(p)' - pages'[p].offset
  <2>1. /\ pages[p].offset % PageSize = 0
        /\ p = 1 => pages[p].offset = 0
        /\ pages[p].offset <= PageEnd(p)
        /\ p # LastPage => pages[p].size = PageEnd(p) - pages[p].offset
    BY <1>6 DEF Inv, LayoutInv, PagesTile
  <2> QED BY <2>1, <1>4, <1>5, <1>7
<1>14. PagesTile'
  BY <1>1, <1>6, <1>13 DEF PagesTile
<1>15. SegmentsOnTheirPages'
  <2>1. \A i \in Laid : \E p \in 1..LastPage :
          /\ pages'[p].flags = segms[i].flags
          /\ pages'[p].offset <= offs[i]
          /\ offs[i] + segms[i].memsz <= PageEnd(p)'
    BY <1>5, <1>6, <1>7 DEF Inv, LayoutInv, SegmentsOnTheirPages
  <2> QED BY <2>1, <1>1, <1>6 DEF SegmentsOnTheirPages, Laid
<1> QED BY <1>8, <1>9, <1>11, <1>12, <1>14, <1>15
        DEF Inv, TypeInv, TypeOK, LayoutInv

-----------------------------------------------------------------------------
(* The actions that leave the layout alone, grouped by the kind of state   *)
(* they change.                                                            *)
LEMMA ControlSteps ==
  Inv /\ (Open \/ CheckHeader \/ EndCopy \/ NextSection \/ UnmappableSection
         \/ EndReloc \/ Finish \/ CleanMappedExe \/ CleanPagesList
         \/ CleanSegmentsList \/ CleanMapped) => Inv'
<1> SUFFICES ASSUME Inv,
                    Open \/ CheckHeader \/ EndCopy \/ NextSection
                    \/ UnmappableSection \/ EndReloc \/ Finish \/ CleanMappedExe
                    \/ CleanPagesList \/ CleanSegmentsList \/ CleanMapped
             PROVE  Inv'
  OBVIOUS
<1> USE DEF Inv, TypeInv, TypeOK
<1>1. UNCHANGED layoutVars /\ UNCHANGED imageVars /\ UNCHANGED elf
  BY DEF Open, CheckHeader, EndCopy, NextSection, UnmappableSection, EndReloc,
         Finish, CleanMappedExe, CleanPagesList, CleanSegmentsList, CleanMapped,
         CleanUp
<1>2. /\ stage # "layout" /\ stage' # "layout"
      /\ BeforeLayout' => BeforeLayout
      /\ AfterLayout' => AfterLayout
      /\ stage' \in Stages
  BY DEF Open, CheckHeader, EndCopy, NextSection, UnmappableSection, EndReloc,
         Finish, CleanMappedExe, CleanPagesList, CleanSegmentsList, CleanMapped,
         CleanUp, BeforeLayout, AfterLayout, Stages, ControlTypes
<1>3. k' \in Nat \ {0} /\ r' \in Nat \ {0}
  BY DEF Open, CheckHeader, EndCopy, NextSection, UnmappableSection, EndReloc,
         Finish, CleanMappedExe, CleanPagesList, CleanSegmentsList, CleanMapped,
         CleanUp, ControlTypes
<1>4. ControlTypes'
  BY <1>1, <1>2, <1>3 DEF ControlTypes
<1>5. ImageTypes'
  BY <1>1 DEF ImageTypes, imageVars
<1>6. code' \in {0, 1} /\ live' \subseteq {"file", "segments", "pages", "image"}
  BY DEF Open, CheckHeader, EndCopy, NextSection, UnmappableSection, EndReloc,
         Finish, CleanMappedExe, CleanPagesList, CleanSegmentsList, CleanMapped,
         CleanUp, ResultTypes
<1>7. exe' \in [mem: BOOLEAN, mem_count: Nat \union {Unset}, entrypoint: Int]
  <2>1. CASE Finish
    <3>1. segms # <<>> /\ next \in Nat /\ segms \in Seq(Phdr)
      BY <2>1 DEF Finish, ControlInv, LayoutTypes
    <3>2. segms[1].vaddr \in Nat /\ elf.entry \in Nat
      BY <3>1, EmptySeq, SegmentTypes, FileTypes
    <3>3. exe' = [mem |-> TRUE, mem_count |-> next,
                  entrypoint |-> elf.entry - segms[1].vaddr]
      BY <2>1 DEF Finish, FullSize, Segment
    <3> QED BY <3>1, <3>2, <3>3
  <2>2. CASE ~Finish
    BY <2>2 DEF Open, CheckHeader, EndCopy, NextSection, UnmappableSection,
         EndReloc, CleanMappedExe, CleanPagesList, CleanSegmentsList,
         CleanMapped, CleanUp, ResultTypes
  <2> QED BY <2>1, <2>2
<1>8. LayoutTypes' /\ ControlInv' /\ LayoutInv'
  BY <1>1, <1>2, Quiet
<1> QED BY <1>4, <1>5, <1>6, <1>7, <1>8 DEF ResultTypes

(* Mapping and copying: the bytes of the image.                            *)
LEMMA ImageSteps == Inv /\ (MapImage \/ CopySegment) => Inv'
<1> SUFFICES ASSUME Inv, MapImage \/ CopySegment PROVE Inv'
  OBVIOUS
<1> USE DEF Inv, TypeInv, TypeOK
<1>1. UNCHANGED <<layoutVars, patched, elf, r, exe>>
  BY DEF MapImage, CopySegment
<1>2. /\ stage # "layout" /\ stage' # "layout"
      /\ ~BeforeLayout'
      /\ AfterLayout' => AfterLayout
      /\ stage' \in Stages
  BY DEF MapImage, CopySegment, BeforeLayout, AfterLayout, Stages, ControlTypes
<1>3. k' \in Nat \ {0}
  BY DEF MapImage, CopySegment, ControlTypes
<1>4. ControlTypes'
  BY <1>1, <1>2, <1>3 DEF ControlTypes
<1>5. ResultTypes'
  BY <1>1 DEF MapImage, CopySegment, ResultTypes
<1>6. /\ \A o \in DOMAIN image' : image'[o] \in Nat \union {Zero}
      /\ \A p \in DOMAIN prot' : prot'[p] \in Flags
  <2>1. CASE MapImage
    <3>1. CASE UNCHANGED <<image, prot>>
      BY <3>1 DEF ImageTypes
    <3>2. CASE ~UNCHANGED <<image, prot>>
      <4>1. /\ image' = [o \in 0..(FullSize - 1) |-> Zero]
            /\ prot' = [p \in 0..((FullSize - 1) \div PageSize) |-> {"R", "W"}]
        BY <2>1, <3>2 DEF MapImage
      <4>2. {"R", "W"} \in Flags
        BY DEF Flags
      <4> QED BY <4>1, <4>2
    <3> QED BY <3>1, <3>2
  <2>2. CASE CopySegment
    <3>1. /\ stage = "copy" /\ k \in 1..Len(segms) /\ Len(offs) = Len(segms)
          /\ prot' = prot
      BY <2>2 DEF CopySegment, ControlTypes, ControlInv, LayoutTypes
    <3>2. offs[k] \in Nat /\ segms[k].offset \in Nat
      BY <3>1, SegmentTypes
    <3>3. \A o \in offs[k]..(offs[k] + segms[k].filesz - 1) :
            segms[k].offset + (o - offs[k]) \in Nat
      BY <3>2
    <3> DEFINE InFile == offs[k]..(offs[k] + segms[k].filesz - 1)
               Rest == (offs[k] + segms[k].filesz)..(offs[k] + segms[k].memsz - 1)
    <3>4. image' = [o \in DOMAIN image |->
                      IF o \in InFile THEN segms[k].offset + (o - offs[k])
                      ELSE IF o \in Rest THEN Zero
                      ELSE image[o]]
      BY <2>2 DEF CopySegment, Segment
    <3>5. \A o \in InFile : segms[k].offset + (o - offs[k]) \in Nat
      BY <3>3
    <3> HIDE DEF InFile, Rest
    <3> QED BY <3>1, <3>4, <3>5 DEF ImageTypes
  <2> QED BY <2>1, <2>2
<1>7. ImageTypes'
  BY <1>1, <1>6 DEF ImageTypes
<1>8. LayoutTypes' /\ ControlInv' /\ LayoutInv'
  BY <1>1, <1>2, Quiet
<1> QED BY <1>4, <1>5, <1>7, <1>8

(* Relocating and protecting.                                              *)
LEMMA PatchSteps == Inv /\ (Relocate \/ ProtectPage) => Inv'
<1> SUFFICES ASSUME Inv, Relocate \/ ProtectPage PROVE Inv'
  OBVIOUS
<1> USE DEF Inv, TypeInv, TypeOK
<1>1. UNCHANGED <<layoutVars, image, elf, live, exe>>
  BY DEF Relocate, ProtectPage
<1>2. /\ stage # "layout" /\ stage' # "layout"
      /\ ~BeforeLayout'
      /\ AfterLayout' => AfterLayout
      /\ stage' \in Stages
  BY DEF Relocate, ProtectPage, BeforeLayout, AfterLayout, Stages, ControlTypes
<1>3. k' \in Nat \ {0} /\ r' \in Nat \ {0}
  BY DEF Relocate, ProtectPage, ControlTypes
<1>4. ControlTypes'
  BY <1>1, <1>2, <1>3 DEF ControlTypes
<1>5. ResultTypes'
  BY <1>1 DEF Relocate, ProtectPage, ResultTypes
<1>6. patched' \subseteq Nat \X (0..31)
  <2>1. patched \subseteq Nat \X (0..31)
    BY DEF ImageTypes
  <2>2. CASE Relocate /\ patched' # patched
    <3> DEFINE rela == Section(k).relas[r]
    <3>1. /\ k <= Len(elf.shdrs) /\ IsRela(k) /\ PatchesMappable(k)
          /\ r <= Len(Section(k).relas) /\ stage = "reloc"
          /\ patched' = patched \union ({PatchAt(k, rela)} \X Hi20(Result(rela)))
      BY <2>2 DEF Relocate
    <3>2. Len(offs) = Len(segms)
      BY <3>1 DEF ControlInv
    <3>3. PatchAt(k, rela) \in Nat /\ Hi20(Result(rela)) \subseteq 0..31
      BY <3>1, <3>2, PatchTypes DEF Hi20
    <3> HIDE DEF rela
    <3> QED BY <3>1, <3>3, <2>1
  <2>3. CASE ~(Relocate /\ patched' # patched)
    BY <2>1, <2>3 DEF ProtectPage, layoutVars
  <2> QED BY <2>2, <2>3
<1>7. \A p \in DOMAIN prot' : prot'[p] \in Flags
  <2>1. CASE Relocate
    BY <2>1 DEF Relocate, ImageTypes
  <2>2. CASE ProtectPage /\ prot' # prot
    <3>1. k \in 1..Len(pages)
      BY <2>2 DEF ProtectPage, ControlTypes, LastPage, LayoutTypes
    <3>2. pages[k].flags \in Flags
      BY <3>1, SegmentTypes
    <3> QED BY <3>2, <2>2 DEF ProtectPage, ImageTypes
  <2>3. CASE ProtectPage /\ prot' = prot
    BY <2>3 DEF ImageTypes
  <2> QED BY <2>1, <2>2, <2>3
<1>8. ImageTypes'
  BY <1>1, <1>6, <1>7 DEF ImageTypes
<1>9. LayoutTypes' /\ ControlInv' /\ LayoutInv'
  BY <1>1, <1>2, Quiet
<1> QED BY <1>4, <1>5, <1>8, <1>9

-----------------------------------------------------------------------------
LEMMA InvInit == Init => Inv
<1> SUFFICES ASSUME Init PROVE Inv
  OBVIOUS
<1>1. TypeInv
  BY TypeInit
<1>2. offs = <<>> /\ pages = <<>> /\ Len(<<>>) = 0
  BY EmptySeq DEF Init, Fresh
<1>3. LayoutInv
  BY <1>2 DEF LayoutInv, SegmentsApart, PagesTile, SegmentsOnTheirPages, Laid,
              LastPage
<1> QED BY <1>1, <1>3 DEF Inv

LEMMA InvStutter == Inv /\ UNCHANGED vars => Inv'
BY DEF Inv, TypeInv, TypeOK, ControlTypes, LayoutTypes, ImageTypes, ResultTypes,
       ControlInv, BeforeLayout, LayoutInv, SegmentsApart, PagesTile,
       SegmentsOnTheirPages, Laid, LastPage, PageEnd, vars, layoutVars, imageVars

(* Inv is an invariant of the loader.                                      *)
THEOREM LoaderInv == Spec => []Inv
<1>1. Inv /\ [Next]_vars => Inv'
  BY ScanStep, EndScanStep, LayoutStep, EndLayoutStep, ControlSteps, ImageSteps,
     PatchSteps, InvStutter DEF Next
<1> QED BY InvInit, <1>1, PTL DEF Spec

(* Every variable of the loader has its type, for every file.              *)
THEOREM LoaderTypeOK == Spec => []TypeOK
<1>1. Inv => TypeOK
  BY DEF Inv, TypeInv
<1> QED BY LoaderInv, <1>1, PTL

(* The layout: whatever the segments' sizes, gaps, alignments and flags,   *)
(* no two of them overlap in the image.                                    *)
THEOREM LoaderSegmentsApart == Spec => []SegmentsApart
<1>1. Inv => SegmentsApart
  BY DEF Inv, LayoutInv
<1> QED BY LoaderInv, <1>1, PTL

(* The page descriptors tile the image, each beginning on a page.          *)
THEOREM LoaderPagesTile == Spec => []PagesTile
<1>1. Inv => PagesTile
  BY DEF Inv, LayoutInv
<1> QED BY LoaderInv, <1>1, PTL

(* Every segment lies within a page descriptor with the segment's flags.   *)
THEOREM LoaderSegmentsOnTheirPages == Spec => []SegmentsOnTheirPages
<1>1. Inv => SegmentsOnTheirPages
  BY DEF Inv, LayoutInv
<1> QED BY LoaderInv, <1>1, PTL

-----------------------------------------------------------------------------
(* What each stage holds and will return.  `segments' is not tied to a     *)
(* stage: the list is empty until the first PT_LOAD.                       *)
Running == {"open", "ident", "scan", "layout", "map", "copy", "reloc", "protect"}
HoldsImage == {"copy", "reloc", "protect", "clean_mapped_exe"}
HoldsPages == {"layout", "map", "copy", "reloc", "protect", "clean_mapped_exe",
               "clean_pages_list"}
HoldsNoSegments == {"open", "ident", "clean_mapped", "clean_none"}
HoldsNoFile == {"open", "clean_none"}

LiveInv ==
  /\ stage \in Stages
  /\ live \subseteq {"file", "segments", "pages", "image"}
  /\ "file" \in live <=> stage \notin HoldsNoFile
  /\ "pages" \in live <=> stage \in HoldsPages
  /\ stage \in HoldsNoSegments => "segments" \notin live
  /\ stage \in Running \union {"clean_mapped_exe"} => exe.mem = FALSE
  /\ stage \in HoldsImage => "image" \in live
  /\ stage \notin HoldsImage => ("image" \in live <=> exe.mem)
  /\ stage \in Running /\ elf.entry # 0 => code = 0
  /\ code # 0 /\ elf.entry # 0 => ~exe.mem

LEMMA LiveInit == Init => LiveInv
BY DEF Init, Fresh, LiveInv, Stages, HoldsNoFile, HoldsPages, HoldsNoSegments, Running,
       HoldsImage

LEMMA LiveNext == LiveInv /\ [Next]_vars => LiveInv'
<1> SUFFICES ASSUME LiveInv, [Next]_vars PROVE LiveInv'
  OBVIOUS
<1> USE DEF LiveInv, Stages, HoldsNoFile, HoldsPages, HoldsNoSegments, Running,
            HoldsImage
<1>1. CASE Open
  BY <1>1 DEF Open
<1>2. CASE CheckHeader
  BY <1>2 DEF CheckHeader
<1>3. CASE ScanHeader
  BY <1>3 DEF ScanHeader
<1>4. CASE EndScan
  BY <1>4 DEF EndScan
<1>5. CASE LayoutSegment
  BY <1>5 DEF LayoutSegment
<1>6. CASE EndLayout
  BY <1>6 DEF EndLayout
<1>7. CASE MapImage
  BY <1>7 DEF MapImage
<1>8. CASE CopySegment \/ EndCopy
  BY <1>8 DEF CopySegment, EndCopy
<1>9. CASE NextSection \/ UnmappableSection \/ EndReloc
  BY <1>9 DEF NextSection, UnmappableSection, EndReloc
<1>10. CASE Relocate
  BY <1>10 DEF Relocate
<1>11. CASE ProtectPage
  BY <1>11 DEF ProtectPage
<1>12. CASE Finish
  BY <1>12 DEF Finish
<1>13. CASE CleanMappedExe
  BY <1>13 DEF CleanMappedExe, CleanUp
<1>14. CASE CleanPagesList
  BY <1>14 DEF CleanPagesList, CleanUp
<1>15. CASE CleanSegmentsList
  BY <1>15 DEF CleanSegmentsList, CleanUp
<1>16. CASE CleanMapped
  BY <1>16 DEF CleanMapped, CleanUp
<1>17. CASE UNCHANGED vars
  BY <1>17 DEF vars
<1> QED BY <1>1, <1>2, <1>3, <1>4, <1>5, <1>6, <1>7, <1>8, <1>9, <1>10, <1>11,
           <1>12, <1>13, <1>14, <1>15, <1>16, <1>17 DEF Next

THEOREM LoaderLive == Spec => []LiveInv
BY LiveInit, LiveNext, PTL DEF Spec

(* No label of the goto chain releases what was not acquired.              *)
THEOREM LoaderOnlyReleasesAcquired == Spec => []OnlyReleasesAcquired
<1>1. LiveInv => OnlyReleasesAcquired
  BY DEF LiveInv, OnlyReleasesAcquired, Releases, HoldsImage, HoldsPages, HoldsNoFile
<1> QED BY LoaderLive, <1>1, PTL

(* The function returns with everything released but the caller's image,   *)
(* and an error other than the missing entrypoint gives the caller none.   *)
THEOREM LoaderResourcesReleased == Spec => []ResourcesReleased
<1>1. LiveInv => ResourcesReleased
  BY DEF LiveInv, ResourcesReleased, HoldsImage, HoldsPages, HoldsNoFile,
         HoldsNoSegments
<1> QED BY LoaderLive, <1>1, PTL

-----------------------------------------------------------------------------
(* The loader implements its contract (the part of it that is safety).     *)
HeaderOK == elf.ident /\ elf.machine /\ elf.phentsize # 0
Good     == Contract!Acceptable /\ Contract!Executable
Answer   == IF elf.entry = 0 THEN 1 ELSE 0

(* What the scan has seen in the first n program headers.                  *)
Scanned(n) ==
  /\ found <=> \E i \in 1..n : /\ elf.phdrs[i].type = "LOAD"
                               /\ {"R", "X"} \subseteq elf.phdrs[i].flags
  /\ \A i \in 1..n : elf.phdrs[i].type # "INTERP"

Past == {"layout", "map", "copy", "reloc", "protect"}
Exits == {"clean_mapped_exe", "clean_pages_list", "clean_segments_list",
          "clean_mapped", "clean_none"}

ContractInv ==
  /\ stage \in {"open", "ident"} => code = 0 /\ k = 1 /\ found = FALSE
  /\ stage \in {"scan"} \union Past => HeaderOK /\ code = Answer
  /\ stage = "scan" => k \in 1..(Len(elf.phdrs) + 1) /\ Scanned(k - 1)
  /\ stage \in Past => Good
  /\ exe.mem => Good /\ code = Answer
  /\ stage \in Exits /\ ~exe.mem => code = 1 \/ (code = 0 /\ Contract!Silent)

LEMMA ContractInit == Init => ContractInv
BY DEF Init, Fresh, ContractInv, Past, Exits

LEMMA ScanContract == TypeInv /\ LiveInv /\ ContractInv /\ ScanHeader => ContractInv'
<1> SUFFICES ASSUME TypeInv, LiveInv, ContractInv, ScanHeader PROVE ContractInv'
  OBVIOUS
<1> DEFINE n == Len(elf.phdrs)
<1>1. k \in 1..n /\ k' = k + 1 /\ n \in Nat /\ UNCHANGED elf /\ UNCHANGED exe
  BY DEF ScanHeader, ContractInv, TypeInv, TypeOK, ControlTypes, ElfFile
<1>2. HeaderOK /\ code = Answer /\ Scanned(k - 1) /\ stage = "scan" /\ ~exe.mem
  BY DEF ScanHeader, ContractInv, LiveInv, Running
<1>3. 1..k = 1..(k - 1) \union {k}
  BY <1>1
<1>4. found' <=> \E i \in 1..k : /\ elf.phdrs[i].type = "LOAD"
                                 /\ {"R", "X"} \subseteq elf.phdrs[i].flags
  BY <1>2, <1>3 DEF Scanned, ScanHeader
<1>5. CASE elf.phdrs[k].type = "INTERP"
  BY <1>1, <1>2, <1>5 DEF ScanHeader, ContractInv, Past, Exits
<1>6. CASE elf.phdrs[k].type # "INTERP"
  <2>1. stage' = "scan" /\ code' = code
    BY <1>2, <1>6 DEF ScanHeader
  <2>2. \A i \in 1..k : elf.phdrs[i].type # "INTERP"
    BY <1>2, <1>3, <1>6 DEF Scanned
  <2>3. Scanned(k - 1)'
    BY <1>1, <1>4, <2>2 DEF Scanned
  <2>4. k' \in 1..(n + 1)
    BY <1>1
  <2> QED
    BY <1>1, <1>2, <2>1, <2>3, <2>4 DEF ContractInv, Past, Exits, HeaderOK, Answer
<1> QED BY <1>5, <1>6

LEMMA EndScanContract == TypeInv /\ LiveInv /\ ContractInv /\ EndScan => ContractInv'
<1> SUFFICES ASSUME TypeInv, LiveInv, ContractInv, EndScan PROVE ContractInv'
  OBVIOUS
<1> DEFINE n == Len(elf.phdrs)
<1>1. k = n + 1 /\ n \in Nat
  BY DEF EndScan, ContractInv, TypeInv, TypeOK, ControlTypes, ElfFile
<1>2. HeaderOK /\ code = Answer /\ Scanned(n) /\ ~exe.mem
  BY <1>1 DEF EndScan, ContractInv, LiveInv, Running
<1>3. Contract!Acceptable /\ (found <=> Contract!Executable)
  BY <1>2 DEF Scanned, HeaderOK, Contract!Acceptable, Contract!Has, Contract!Executable
<1>4. CASE ~found
  <2>1. stage' = "clean_segments_list" /\ UNCHANGED <<elf, code, exe>>
    BY <1>4 DEF EndScan
  <2>2. code = 1 \/ (code = 0 /\ Contract!Silent)
    BY <1>2, <1>3, <1>4 DEF Answer, Contract!Silent
  <2> QED
    BY <1>2, <2>1, <2>2 DEF ContractInv, Past, Exits, Contract!Silent,
       Contract!Acceptable, Contract!Has, Contract!Executable, Contract!Relocates
<1>5. CASE found
  <2>1. Good
    BY <1>3, <1>5 DEF Good
  <2>2. UNCHANGED <<elf, exe>>
    BY DEF EndScan
  <2>3. Good' /\ HeaderOK' /\ Answer' = Answer
    BY <1>2, <2>1, <2>2 DEF Good, HeaderOK, Answer, Contract!Acceptable,
       Contract!Has, Contract!Executable
  <2>4. \/ stage' = "clean_segments_list" /\ code' = 1
        \/ stage' = "layout" /\ code' = code
    BY <1>5 DEF EndScan
  <2> QED
    BY <1>2, <2>2, <2>3, <2>4 DEF ContractInv, Past, Exits
<1> QED BY <1>4, <1>5
(* The steps that neither scan nor learn anything of the file.             *)
LEMMA OtherContract ==
  ASSUME TypeInv, LiveInv, ContractInv,
         \/ Open \/ CheckHeader \/ LayoutSegment \/ EndLayout \/ MapImage
         \/ CopySegment \/ EndCopy \/ NextSection \/ UnmappableSection
         \/ Relocate \/ EndReloc \/ ProtectPage \/ Finish
         \/ CleanMappedExe \/ CleanPagesList \/ CleanSegmentsList \/ CleanMapped
  PROVE  ContractInv'
<1>0. elf' = elf
  BY DEF Open, CheckHeader, LayoutSegment, EndLayout, MapImage, CopySegment,
     EndCopy, NextSection, UnmappableSection, Relocate, EndReloc, ProtectPage,
     Finish, CleanMappedExe, CleanPagesList, CleanSegmentsList, CleanMapped,
     CleanUp
<1>1. /\ HeaderOK' <=> HeaderOK
      /\ Good' <=> Good
      /\ Contract!Silent' <=> Contract!Silent
      /\ Answer' = Answer
  BY <1>0 DEF HeaderOK, Good, Answer, Contract!Silent, Contract!Acceptable,
     Contract!Executable, Contract!Has, Contract!Relocates
<1>2. Answer \in {0, 1} /\ (Answer = 0 <=> elf.entry # 0)
  BY DEF Answer
<1> USE DEF ContractInv, Past, Exits
<1>3. CASE Open
  <2>1. code = 0 /\ k = 1 /\ ~found /\ ~exe.mem
    BY <1>3 DEF Open, LiveInv, Running
  <2>2. UNCHANGED <<k, found, exe>>
    BY <1>3 DEF Open, layoutVars
  <2>3. \/ stage' = "ident" /\ code' = code
        \/ stage' = "clean_none" /\ code' = 1
    BY <1>3 DEF Open
  <2> QED BY <2>1, <2>2, <2>3
<1>4. CASE CheckHeader
  <2>1. code = 0 /\ k = 1 /\ ~found /\ ~exe.mem
    BY <1>4 DEF CheckHeader, LiveInv, Running
  <2>2. CASE HeaderOK
    <3>1. stage' = "scan" /\ code' = Answer /\ k' = 1 /\ ~found' /\ ~exe'.mem
      BY <1>4, <2>1, <2>2 DEF CheckHeader, HeaderOK, Answer, layoutVars
    <3>2. Scanned(0)'
      BY <3>1 DEF Scanned
    <3>3. elf'.phdrs = elf.phdrs /\ Len(elf.phdrs) \in Nat
      BY <1>0 DEF TypeInv, TypeOK, ControlTypes, ElfFile
    <3> QED BY <1>1, <2>2, <3>1, <3>2, <3>3
  <2>3. CASE ~HeaderOK
    BY <1>4, <2>1, <2>3 DEF CheckHeader, HeaderOK
  <2> QED BY <2>2, <2>3
<1>5. CASE LayoutSegment \/ EndLayout
  BY <1>1, <1>5 DEF LayoutSegment, EndLayout, LiveInv, Running
<1>6. CASE MapImage \/ CopySegment \/ EndCopy
  BY <1>1, <1>6 DEF MapImage, CopySegment, EndCopy, LiveInv, Running
<1>7. CASE NextSection \/ EndReloc
  BY <1>1, <1>7 DEF NextSection, EndReloc
<1>8. CASE UnmappableSection \/ Relocate
  <2>1. k \in 1..Len(elf.shdrs) /\ elf.shdrs[k].type = "RELA" /\ stage = "reloc"
    BY <1>8 DEF UnmappableSection, Relocate, IsRela, Section, TypeInv, TypeOK,
       ControlTypes, ElfFile
  <2>2. Good /\ HeaderOK /\ code = Answer /\ ~exe.mem
    BY <2>1 DEF LiveInv, Running
  <2>3. code = 1 \/ (code = 0 /\ Contract!Silent)
    BY <1>2, <2>1, <2>2 DEF Contract!Silent, Contract!Relocates, Good
  <2>4. exe' = exe
    BY <1>8 DEF UnmappableSection, Relocate
  <2>5. \/ stage' = "clean_mapped_exe" /\ code' \in {code, 1}
        \/ stage' = "reloc" /\ code' = code
    BY <1>8, <2>1 DEF UnmappableSection, Relocate
  <2> QED BY <1>1, <2>2, <2>3, <2>4, <2>5
<1>10. CASE ProtectPage
  BY <1>1, <1>10 DEF ProtectPage, LiveInv, Running
<1>11. CASE Finish
  BY <1>1, <1>11 DEF Finish
<1>12. CASE CleanMappedExe \/ CleanPagesList \/ CleanSegmentsList \/ CleanMapped
  BY <1>1, <1>12 DEF CleanMappedExe, CleanPagesList, CleanSegmentsList,
     CleanMapped, CleanUp
<1> QED BY <1>3, <1>4, <1>5, <1>6, <1>7, <1>8, <1>10, <1>11, <1>12

LEMMA ContractNext == TypeInv /\ LiveInv /\ ContractInv /\ [Next]_vars => ContractInv'
<1>1. ContractInv /\ UNCHANGED vars => ContractInv'
  BY DEF vars, ContractInv, HeaderOK, Good, Answer, Scanned, Contract!Silent,
     Contract!Acceptable, Contract!Executable, Contract!Has, Contract!Relocates
<1> QED BY <1>1, ScanContract, EndScanContract, OtherContract DEF Next

THEOREM LoaderContractInv == Spec => []ContractInv
<1>1. Inv => TypeInv
  BY DEF Inv
<1> QED BY <1>1, ContractInit, ContractNext, LoaderInv, LoaderLive, PTL DEF Spec

-----------------------------------------------------------------------------
(* Every step of the loader is, seen through the mapping, nothing, or the  *)
(* one step of the contract.                                               *)
LEMMA ContractStep ==
  LiveInv' /\ ContractInv' /\ [Next]_vars => [Contract!Return]_(Contract!contract)
<1> SUFFICES ASSUME LiveInv', ContractInv', [Next]_vars
             PROVE  [Contract!Return]_(Contract!contract)
  OBVIOUS
<1>1. elf' = elf
  BY DEF Next, vars, Open, CheckHeader, ScanHeader, EndScan, LayoutSegment,
     EndLayout, MapImage, CopySegment, EndCopy, NextSection, UnmappableSection,
     Relocate, EndReloc, ProtectPage, Finish, CleanMappedExe, CleanPagesList,
     CleanSegmentsList, CleanMapped, CleanUp
<1>2. Returned => UNCHANGED vars
  BY DEF Returned, Next, Open, CheckHeader, ScanHeader, EndScan, LayoutSegment,
     EndLayout, MapImage, CopySegment, EndCopy, NextSection, UnmappableSection,
     Relocate, EndReloc, ProtectPage, Finish, CleanMappedExe, CleanPagesList,
     CleanSegmentsList, CleanMapped, CleanUp
<1>3. CASE Returned
  BY <1>2, <1>3 DEF vars, Contract!contract, Returned
<1>4. CASE ~Returned /\ ~Returned'
  <2>1. /\ (IF Returned THEN code ELSE 0)' = (IF Returned THEN code ELSE 0)
        /\ (Returned /\ exe.mem)' = (Returned /\ exe.mem)
        /\ (IF Returned THEN live ELSE {})' = (IF Returned THEN live ELSE {})
        /\ Returned' = Returned
    BY <1>4 DEF Returned
  <2> QED BY <1>1, <2>1 DEF Contract!contract
<1>5. CASE ~Returned /\ Returned'
  <2>1. live' = IF exe'.mem THEN {"image"} ELSE {}
    BY <1>5 DEF LiveInv, Returned, HoldsImage, HoldsPages, HoldsNoFile,
       HoldsNoSegments
  <2>2. CASE exe'.mem
    <3>1. Contract!Acceptable /\ Contract!Executable /\ code' = Answer
      BY <1>1, <2>2 DEF ContractInv, Good, Answer, Contract!Acceptable,
         Contract!Executable, Contract!Has
    <3> QED
      BY <1>1, <1>5, <2>1, <2>2, <3>1 DEF Contract!Return, Contract!Load, Answer
  <2>3. CASE ~exe'.mem
    <3>1. code' = 1 \/ (code' = 0 /\ Contract!Silent)
      BY <1>1, <1>5, <2>3 DEF ContractInv, Exits, Returned, Contract!Silent,
         Contract!Acceptable, Contract!Executable, Contract!Has, Contract!Relocates
    <3> QED
      BY <1>1, <1>5, <2>1, <2>3, <3>1 DEF Contract!Return, Contract!Refuse
  <2> QED BY <2>2, <2>3
<1> QED BY <1>3, <1>4, <1>5

(* For every set of files and page size: whatever a file holds and         *)
(* whichever calls fail, what the caller sees is what the contract allows. *)
THEOREM LoaderImplementsContract == Spec => Contract!Safety
<1>1. Init => Contract!Init
  BY DEF Init, Fresh, Contract!Init, Returned
<1> QED
  BY <1>1, ContractStep, LoaderContractInv, LoaderLive, PTL
  DEF Spec, Contract!Safety

-----------------------------------------------------------------------------
(* The powers of two, one by one.                                          *)
Powers == {1, 2, 4, 8, 16, 32, 64, 128, 256, 512, 1024, 2048, 4096, 8192, 16384,
           32768, 65536, 131072, 262144, 524288, 1048576, 2097152, 4194304,
           8388608, 16777216, 33554432, 67108864, 134217728, 268435456,
           536870912, 1073741824}

(* Of two powers of two the smaller divides the greater.                   *)
LEMMA PowersDivide ==
  /\ PowersOfTwo \subseteq Nat \ {0}
  /\ \A a, b \in PowersOfTwo : a <= b => b % a = 0
<1>1. PowersOfTwo = Powers
  BY DEF PowersOfTwo, Powers
<1>2. Powers \subseteq Nat \ {0}
  BY DEF Powers
<1>3. \A a, b \in Powers : a <= b => b % a = 0
  BY DEF Powers
<1> QED BY <1>1, <1>2, <1>3

(* A multiple of a multiple of a is a multiple of a.                       *)
LEMMA DivisibleTransitive ==
  ASSUME NEW v \in Nat, NEW b \in Nat \ {0}, NEW a \in Nat \ {0},
         v % b = 0, b % a = 0
  PROVE  v % a = 0
<1> DEFINE q == v \div b
           s == b \div a
<1>1. q \in Nat /\ v = b * q
  BY SMT
<1>2. s \in Nat /\ b = a * s
  BY SMT
<1>3. s * q \in Nat
  BY <1>1, <1>2, SMT
<1>4. v = a * (s * q)
  BY <1>1, <1>2, SMT
<1>5. \A n \in Nat : (a * n) % a = 0
  BY SMT
<1> QED BY <1>3, <1>4, <1>5

(* Rounding up what is a multiple already changes nothing.                 *)
LEMMA AlignUpFixed ==
  ASSUME NEW v \in Nat, NEW a \in Nat \ {0}, v % a = 0
  PROVE  AlignUp(v, a) = v
<1> DEFINE q == v \div a
           p == (v + (a - 1)) \div a
<1>1. q \in Nat /\ v = a * q
  BY SMT
<1>2. p \in Nat /\ a * p <= v + (a - 1) /\ v + (a - 1) < a * p + a
  BY SMT
<1>3. p = q
  <2>1. ~(p > q)
    <3> SUFFICES ASSUME p >= q + 1 PROVE FALSE
      BY <1>1, <1>2
    <3>1. a * p >= a * (q + 1) /\ a * (q + 1) = a * q + a
      BY <1>1, <1>2, SMT
    <3> QED BY <3>1, <1>1, <1>2
  <2>2. ~(q > p)
    <3> SUFFICES ASSUME q >= p + 1 PROVE FALSE
      BY <1>1, <1>2
    <3>1. a * q >= a * (p + 1) /\ a * (p + 1) = a * p + a
      BY <1>1, <1>2, SMT
    <3> QED BY <3>1, <1>1, <1>2
  <2> QED BY <2>1, <2>2, <1>1, <1>2
<1>4. AlignUp(v, a) = a * q
  BY <1>3, SMT DEF AlignUp
<1> QED BY <1>1, <1>4

(* Rounding up to a power of two keeps a multiple of another one a         *)
(* multiple.                                                               *)
LEMMA AlignUpKeeps ==
  ASSUME NEW v \in Nat, NEW a \in PowersOfTwo, NEW b \in PowersOfTwo, v % a = 0
  PROVE  AlignUp(v, b) % a = 0
<1>1. a \in Nat \ {0} /\ b \in Nat \ {0}
  BY PowersDivide
<1>2. CASE a <= b
  <2>1. b % a = 0
    BY <1>2, PowersDivide
  <2>2. AlignUp(v, b) \in Nat /\ AlignUp(v, b) % b = 0
    BY <1>1, AlignUpBounds, AlignUpMultiple
  <2> QED BY <1>1, <2>1, <2>2, DivisibleTransitive
<1>3. CASE b <= a
  <2>1. a % b = 0
    BY <1>3, PowersDivide
  <2>2. v % b = 0
    BY <1>1, <2>1, DivisibleTransitive
  <2> QED BY <1>1, <2>2, AlignUpFixed
<1> QED BY <1>1, <1>2, <1>3

-----------------------------------------------------------------------------
(* The segments collected have alignments as the file does, and those laid *)
(* out are aligned.                                                        *)
Alignments == \A i \in 1..Len(segms) : segms[i].align \in {0} \union PowersOfTwo
AlignInv == Alignments /\ AlignmentHonoured

(* Where LayoutSegment puts segment k is a multiple of its alignment,      *)
(* whether or not it goes on a page of its own.                            *)
LEMMA OffsetAligned ==
  ASSUME Inv, AlignInv, stage = "layout", k <= Len(segms), segms[k].align >= 2
  PROVE  SegmentOffset(k) % segms[k].align = 0
<1> DEFINE a == segms[k].align
<1>1. /\ k \in 1..Len(segms) /\ k - 1 \in 1..Len(segms)
      /\ k - 1 \in 1..Len(offs) /\ next \in Nat
  BY DEF Inv, TypeInv, TypeOK, ControlTypes, LayoutTypes, ControlInv
<1>2. a \in PowersOfTwo /\ a \in Nat \ {0}
  <2>1. a \in {0} \union PowersOfTwo /\ a >= 2
    BY <1>1 DEF AlignInv, Alignments
  <2> HIDE DEF a
  <2>2. a # 0
    BY <2>1
  <2> QED BY <2>1, <2>2, PowersDivide
<1>3. AfterGap(k) \in Nat
  <2>1. /\ segms[k].vaddr \in Nat /\ offs[k - 1] \in Nat
        /\ segms[k - 1].vaddr \in Nat /\ segms[k - 1].memsz \in Nat
    BY <1>1, SegmentTypes DEF Inv
  <2>2. Gap(k) \in Int /\ CurrDistance(k) \in Int
    BY <1>1, <2>1 DEF Gap, CurrDistance, Segment
  <2> QED BY <1>1, <2>2 DEF AfterGap
<1>4. Aligned(k) = AlignUp(AfterGap(k), a)
  BY DEF Aligned, Segment
<1>5. Aligned(k) \in Nat /\ Aligned(k) % a = 0
  BY <1>2, <1>3, <1>4, AlignUpBounds, AlignUpMultiple
<1>6. AlignUp(Aligned(k), PageSize) % a = 0
  BY <1>2, <1>5, PageSizeAssumption, AlignUpKeeps
<1> QED BY <1>5, <1>6 DEF SegmentOffset

LEMMA AlignInit == Init => AlignInv
<1> SUFFICES ASSUME Init PROVE AlignInv
  OBVIOUS
<1>1. segms = <<>> /\ offs = <<>> /\ Len(<<>>) = 0
  BY EmptySeq DEF Init, Fresh
<1> QED BY <1>1 DEF AlignInv, Alignments, AlignmentHonoured, Laid

LEMMA AlignNext == Inv /\ AlignInv /\ [Next]_vars => AlignInv'
<1> SUFFICES ASSUME Inv, AlignInv, [Next]_vars PROVE AlignInv'
  OBVIOUS
<1>1. segms \in Seq(Phdr) /\ offs \in Seq(Nat)
  BY DEF Inv, TypeInv, TypeOK, LayoutTypes
<1>2. CASE ScanHeader
  <2>1. offs = <<>> /\ offs' = <<>> /\ stage = "scan"
    BY <1>2 DEF ScanHeader, Inv, TypeInv, ControlInv, BeforeLayout
  <2>2. k \in 1..Len(elf.phdrs) /\ elf.phdrs[k] \in Phdr /\ WellFormed(elf)
    BY <1>2, FileTypes
    DEF Inv, TypeInv, TypeOK, ControlTypes, ScanHeader
  <2>3. CASE elf.phdrs[k].type = "LOAD"
    <3>1. segms' = Append(segms, elf.phdrs[k])
      BY <1>2, <2>3 DEF ScanHeader
    <3>2. elf.phdrs[k].align \in {0} \union PowersOfTwo
      BY <2>2, <2>3 DEF WellFormed, Loadable
    <3>3. /\ Len(segms') = Len(segms) + 1 /\ segms'[Len(segms) + 1] = elf.phdrs[k]
          /\ \A i \in 1..Len(segms) : segms'[i] = segms[i]
      BY <1>1, <2>2, <3>1, AppendProperties
    <3>4. Len(segms) \in Nat
      BY <1>1
    <3>5. Alignments'
      BY <3>2, <3>3, <3>4 DEF AlignInv, Alignments
    <3> QED BY <2>1, <3>5, EmptySeq DEF AlignInv, AlignmentHonoured, Laid
  <2>4. CASE elf.phdrs[k].type # "LOAD"
    <3>1. segms' = segms
      BY <1>2, <2>4 DEF ScanHeader
    <3> QED BY <2>1, <3>1 DEF AlignInv, Alignments, AlignmentHonoured, Laid
  <2> QED BY <2>3, <2>4
<1>3. CASE EndScan
  <2>1. segms' = segms
    BY <1>3 DEF EndScan
  <2>2. CASE offs' = offs
    BY <2>1, <2>2 DEF AlignInv, Alignments, AlignmentHonoured, Laid
  <2>3. CASE offs' # offs
    <3>1. offs' = <<0>> /\ found
      BY <1>3, <2>3 DEF EndScan
    <3>2. Len(offs') = 1 /\ offs'[1] = 0
      BY <3>1
    <3>3. 1 \in 1..Len(segms)
      BY <1>1, <3>1, EmptySeq DEF Inv, TypeInv, ControlInv
    <3>4. segms[1].align >= 2 => 0 % segms[1].align = 0
      <4>1. segms[1].align \in {0} \union PowersOfTwo
        BY <3>3 DEF AlignInv, Alignments
      <4>2. \A a \in Nat \ {0} : 0 % a = 0
        OBVIOUS
      <4>3. \A a \in {0} \union PowersOfTwo : a >= 2 => a \in Nat \ {0}
        BY PowersDivide
      <4> QED BY <4>1, <4>2, <4>3
    <3>5. \A i \in Laid' : segms[i].align >= 2 => offs'[i] % segms[i].align = 0
      BY <3>2, <3>4 DEF Laid
    <3> QED BY <2>1, <3>5 DEF AlignInv, Alignments, AlignmentHonoured
  <2> QED BY <2>2, <2>3
<1>4. CASE LayoutSegment
  <2>1. /\ stage = "layout" /\ k <= Len(segms) /\ segms' = segms
        /\ offs' = Append(offs, SegmentOffset(k))
    BY <1>4 DEF LayoutSegment
  <2>2. Len(offs) = k - 1 /\ k \in Nat
    BY <2>1 DEF Inv, TypeInv, ControlInv
  <2>3. SegmentOffset(k) \in Nat
    BY <2>1, OffsetBounds DEF Inv
  <2>4. /\ Len(offs') = k /\ offs'[k] = SegmentOffset(k)
        /\ \A i \in 1..(k - 1) : offs'[i] = offs[i]
    BY <1>1, <2>1, <2>2, <2>3, AppendProperties
  <2>5. \A i \in 1..(k - 1) : segms[i].align >= 2 => offs[i] % segms[i].align = 0
    BY <2>2 DEF AlignInv, AlignmentHonoured, Laid
  <2>6. segms[k].align >= 2 => SegmentOffset(k) % segms[k].align = 0
    BY <2>1, OffsetAligned
  <2> HIDE DEF AlignmentHonoured
  <2>7. \A i \in 1..k : segms[i].align >= 2 => offs'[i] % segms[i].align = 0
    BY <2>2, <2>4, <2>5, <2>6
  <2> QED BY <2>1, <2>4, <2>7 DEF AlignInv, Alignments, AlignmentHonoured, Laid
<1>5. CASE UNCHANGED <<segms, offs>>
  BY <1>5 DEF AlignInv, Alignments, AlignmentHonoured, Laid
<1>6. Next /\ ~ScanHeader /\ ~EndScan /\ ~LayoutSegment => UNCHANGED <<segms, offs>>
  BY DEF Next, Open, CheckHeader, EndLayout, MapImage, CopySegment, EndCopy,
         NextSection, UnmappableSection, Relocate, EndReloc, ProtectPage, Finish,
         CleanMappedExe, CleanPagesList, CleanSegmentsList, CleanMapped, CleanUp,
         layoutVars
<1> QED BY <1>2, <1>3, <1>4, <1>5, <1>6 DEF vars, layoutVars

(* Every segment is aligned as its program header asks, however the later  *)
(* rounding to pages and its alignment compare.                            *)
THEOREM LoaderAlignmentHonoured == Spec => []AlignmentHonoured
<1>1. AlignInv => AlignmentHonoured
  BY DEF AlignInv
<1> QED BY AlignInit, AlignNext, LoaderInv, <1>1, PTL DEF Spec

-----------------------------------------------------------------------------
(* The page descriptors are in order: each ends before every later begins. *)
PagesOrdered == \A p, q \in 1..LastPage : p < q => PageEnd(p) <= pages[q].offset

LEMMA OrderedInit == Init => PagesOrdered
<1> SUFFICES ASSUME Init PROVE PagesOrdered
  OBVIOUS
<1>1. pages = <<>> /\ Len(<<>>) = 0
  BY EmptySeq DEF Init, Fresh
<1> QED BY <1>1 DEF PagesOrdered, LastPage

LEMMA OrderedNext == Inv /\ PagesOrdered /\ [Next]_vars => PagesOrdered'
<1> SUFFICES ASSUME Inv, PagesOrdered, [Next]_vars PROVE PagesOrdered'
  OBVIOUS
<1>1. /\ pages \in Seq(PageDescr) /\ next \in Nat /\ LastPage \in Nat
      /\ \A p \in 1..LastPage : pages[p].offset \in Nat
  BY SegmentTypes DEF Inv, TypeInv, TypeOK, LayoutTypes, LastPage
<1>2. /\ \A p \in 1..LastPage : pages[p].offset <= PageEnd(p)
      /\ \A p \in 1..LastPage : p = LastPage => PageEnd(p) = next
  BY DEF Inv, LayoutInv, PagesTile, PageEnd
<1>3. CASE EndScan
  <2>1. CASE pages' = pages /\ next' = next
    BY <2>1 DEF PagesOrdered, PageEnd, LastPage
  <2>2. CASE ~(pages' = pages /\ next' = next)
    <3>1. Len(pages') = 1
      BY <1>3, <2>2 DEF EndScan
    <3> QED BY <3>1 DEF PagesOrdered, LastPage
  <2> QED BY <2>1, <2>2
<1>4. CASE LayoutSegment
  <2> DEFINE off == SegmentOffset(k)
  <2>1. /\ stage = "layout" /\ k <= Len(segms) /\ pages # <<>>
        /\ pages' = IF NewPage(k)
                    THEN Append(SetPageEnd(off), [offset |-> off, size |-> Unset,
                                                  flags |-> segms[k].flags])
                    ELSE pages
    BY <1>4 DEF LayoutSegment, Segment, Inv, TypeInv, ControlInv
  <2>2. off \in Nat /\ next <= off
    BY <2>1, OffsetBounds DEF Inv
  <2> HIDE DEF off
  <2>3. LastPage \in 1..LastPage /\ LastPage = Len(pages)
    BY <1>1, <2>1, EmptySeq DEF LastPage
  <2>4. pages[LastPage].offset <= next
    BY <1>2, <2>3
  <2>5. CASE NewPage(k)
    <3> DEFINE page == [offset |-> off, size |-> Unset, flags |-> segms[k].flags]
    <3>1. /\ SetPageEnd(off) \in Seq(PageDescr) /\ Len(SetPageEnd(off)) = LastPage
          /\ \A p \in 1..LastPage : SetPageEnd(off)[p].offset = pages[p].offset
      BY <1>1, <2>1, <2>2, <2>3, <2>4, SetPageEndProperties DEF Inv
    <3>2. page \in PageDescr /\ page.offset = off
      <4>1. segms[k].flags \in Flags
        BY <2>1, SegmentTypes DEF Inv, TypeInv, TypeOK, ControlTypes
      <4> QED BY <4>1, <2>2 DEF PageDescr
    <3> HIDE DEF page
    <3>3. pages' = Append(SetPageEnd(off), page)
      BY <2>1, <2>5 DEF page
    <3>4. /\ Len(pages') = LastPage + 1 /\ pages'[LastPage + 1] = page
          /\ \A p \in 1..LastPage : pages'[p] = SetPageEnd(off)[p]
      BY <3>1, <3>2, <3>3, AppendProperties
    <3>5. /\ LastPage' = LastPage + 1 /\ pages'[LastPage + 1].offset = off
          /\ \A p \in 1..LastPage : pages'[p].offset = pages[p].offset
      BY <3>1, <3>2, <3>4 DEF LastPage
    <3>6. \A p \in 1..LastPage :
            PageEnd(p)' = IF p = LastPage THEN off ELSE PageEnd(p)
      BY <3>5, <1>1 DEF PageEnd
    <3>7. ASSUME NEW p \in 1..(LastPage + 1), NEW q \in 1..(LastPage + 1), p < q
          PROVE  PageEnd(p)' <= pages'[q].offset
      <4>1. p \in 1..LastPage
        BY <3>7, <1>1
      <4>2. CASE q \in 1..LastPage
        <5>1. p # LastPage
          BY <3>7, <4>1, <4>2, <1>1
        <5>2. PageEnd(p)' = PageEnd(p) /\ pages'[q].offset = pages[q].offset
          BY <5>1, <4>1, <4>2, <3>5, <3>6
        <5> QED BY <5>2, <3>7, <4>1, <4>2 DEF PagesOrdered
      <4>3. CASE q = LastPage + 1
        <5>1. CASE p = LastPage
          BY <5>1, <4>1, <4>3, <3>5, <3>6, <2>2
        <5>2. CASE p # LastPage
          <6>1. PageEnd(p) <= pages[LastPage].offset
            BY <5>2, <4>1, <2>3, <1>1 DEF PagesOrdered
          <6>2. PageEnd(p) = pages[p + 1].offset /\ p + 1 \in 1..LastPage
            BY <5>2, <4>1, <1>1 DEF PageEnd
          <6>3. PageEnd(p) \in Nat /\ pages[LastPage].offset \in Nat
            BY <6>2, <1>1, <2>3
          <6>4. PageEnd(p) <= off
            BY <6>1, <6>3, <2>2, <2>4, <1>1
          <6> QED BY <6>4, <5>2, <4>1, <4>3, <3>5, <3>6
        <5> QED BY <5>1, <5>2
      <4> QED BY <4>2, <4>3, <1>1
    <3> QED BY <3>5, <3>7 DEF PagesOrdered
  <2>6. CASE ~NewPage(k)
    <3>1. pages' = pages /\ LastPage' = LastPage
      BY <2>1, <2>6 DEF LastPage
    <3>2. \A p, q \in 1..LastPage : p < q => PageEnd(p)' = PageEnd(p)
      BY <3>1, <1>1 DEF PageEnd
    <3> QED BY <3>1, <3>2 DEF PagesOrdered
  <2> QED BY <2>5, <2>6
<1>5. CASE EndLayout
  <2>1. /\ stage = "layout" /\ pages # <<>> /\ pages' = SetPageEnd(next)
        /\ next' = next
    BY <1>5 DEF EndLayout, Inv, TypeInv, ControlInv
  <2>2. LastPage \in 1..LastPage /\ LastPage = Len(pages)
    BY <1>1, <2>1, EmptySeq DEF LastPage
  <2>3. /\ LastPage' = LastPage
        /\ \A p \in 1..LastPage : pages'[p].offset = pages[p].offset
    BY <1>1, <1>2, <2>1, <2>2, SetPageEndProperties DEF Inv, LastPage
  <2>4. \A p \in 1..LastPage : PageEnd(p)' = PageEnd(p)
    BY <1>1, <2>1, <2>3 DEF PageEnd
  <2> QED BY <2>3, <2>4 DEF PagesOrdered
<1>6. CASE UNCHANGED <<pages, next>>
  BY <1>6 DEF PagesOrdered, PageEnd, LastPage
<1>7. Next /\ ~EndScan /\ ~LayoutSegment /\ ~EndLayout => UNCHANGED <<pages, next>>
  BY DEF Next, Open, CheckHeader, ScanHeader, MapImage, CopySegment, EndCopy,
         NextSection, UnmappableSection, Relocate, EndReloc, ProtectPage, Finish,
         CleanMappedExe, CleanPagesList, CleanSegmentsList, CleanMapped, CleanUp,
         layoutVars
<1> QED BY <1>3, <1>4, <1>5, <1>6, <1>7 DEF vars, layoutVars

-----------------------------------------------------------------------------
(* The shape of an image that is being filled or was handed over.          *)
HasImage == stage \in {"copy", "reloc", "protect"} \/ exe.mem
Shape ==
  HasImage => /\ Len(offs) = Len(segms)
              /\ DOMAIN image = 0..(next - 1)
              /\ DOMAIN prot = 0..((next - 1) \div PageSize)
              /\ stage = "copy" => k <= Len(segms) + 1

(* The pages of the descriptors that the loop has passed.                  *)
ProtectedSoFar ==
  stage = "protect" =>
    \A d \in 1..LastPage : d < k =>
      \A p \in PagesOf(pages[d].offset, pages[d].size) : prot[p] = pages[d].flags

ImageInv == Shape /\ ImageFaithful /\ ProtectedSoFar /\ ProtectedAsAsked

(* What is known of a loader at work.                                      *)
Known == Inv /\ LiveInv /\ PagesOrdered

LEMMA ImageInit == Init => ImageInv
BY DEF Init, Fresh, ImageInv, Shape, HasImage, ImageFaithful, Copied, ProtectedSoFar,
       ProtectedAsAsked

(* Steps that leave the caller without image, and those that leave the     *)
(* image alone.                                                            *)
LEMMA NoImage ==
  ASSUME stage' \notin {"copy", "reloc", "protect"}, exe'.mem = FALSE
  PROVE  ImageInv'
BY DEF ImageInv, Shape, HasImage, ImageFaithful, Copied, ProtectedSoFar,
       ProtectedAsAsked

LEMMA ImageKept ==
  ASSUME ImageInv, UNCHANGED <<segms, offs, next, pages, image, prot, exe>>,
         HasImage' => HasImage, Copied' \subseteq Copied,
         stage' = "copy" => k' <= Len(segms) + 1,
         stage' = "protect" => k' = 1 \/ (stage = "protect" /\ k' = k)
  PROVE  ImageInv'
<1>1. Shape'
  BY DEF ImageInv, Shape, HasImage
<1>2. ImageFaithful'
  BY DEF ImageInv, ImageFaithful
<1>3. ProtectedAsAsked'
  BY DEF ImageInv, ProtectedAsAsked, Segments, PagesOf, FullSize
<1>4. ProtectedSoFar'
  BY DEF ImageInv, ProtectedSoFar, LastPage, PagesOf, FullSize
<1> QED BY <1>1, <1>2, <1>3, <1>4 DEF ImageInv

(* Before the image is mapped.                                             *)
LEMMA EarlySteps ==
  Known /\ ImageInv
  /\ (Open \/ CheckHeader \/ ScanHeader \/ EndScan \/ LayoutSegment \/ EndLayout)
  => ImageInv'
<1> SUFFICES ASSUME Known, ImageInv,
                    Open \/ CheckHeader \/ ScanHeader \/ EndScan \/ LayoutSegment
                    \/ EndLayout
             PROVE  ImageInv'
  OBVIOUS
<1>1. stage' \notin {"copy", "reloc", "protect"}
  BY DEF Open, CheckHeader, ScanHeader, EndScan, LayoutSegment, EndLayout
<1>2. exe.mem = FALSE
  BY DEF Known, LiveInv, Running, Open, CheckHeader, ScanHeader, EndScan,
         LayoutSegment, EndLayout
<1>3. exe'.mem = FALSE
  <2>1. CASE LayoutSegment
    <3>1. exe \in [mem: BOOLEAN, mem_count: Nat \union {Unset}, entrypoint: Int]
      BY DEF Known, Inv, TypeInv, TypeOK, ResultTypes
    <3>2. exe' = exe \/ \E e : exe' = [exe EXCEPT !.entrypoint = e]
      BY <2>1 DEF LayoutSegment
    <3> QED BY <1>2, <3>1, <3>2
  <2>2. CASE ~LayoutSegment
    BY <1>2, <2>2 DEF Open, CheckHeader, ScanHeader, EndScan, EndLayout
  <2> QED BY <2>1, <2>2
<1> QED BY <1>1, <1>3, NoImage

LEMMA MapStep == Known /\ ImageInv /\ MapImage => ImageInv'
<1> SUFFICES ASSUME Known, ImageInv, MapImage PROVE ImageInv'
  OBVIOUS
<1>1. /\ stage = "map" /\ exe.mem = FALSE /\ exe' = exe
      /\ UNCHANGED <<segms, offs, next>>
  BY DEF MapImage, Known, LiveInv, Running, layoutVars
<1>2. CASE stage' # "copy"
  BY <1>1, <1>2, NoImage DEF MapImage
<1>3. CASE stage' = "copy"
  <2>1. /\ k' = 1 /\ image' = [o \in 0..(next - 1) |-> Zero]
        /\ prot' = [p \in 0..((next - 1) \div PageSize) |-> {"R", "W"}]
    BY <1>3 DEF MapImage, FullSize
  <2>2. Len(offs) = Len(segms) /\ Len(segms) \in Nat
    BY <1>1, SegmentTypes DEF Known, Inv, TypeInv, ControlInv
  <2>3. Shape'
    BY <1>1, <2>1, <2>2 DEF Shape
  <2>4. Copied' = {}
    BY <1>3, <2>1 DEF Copied
  <2> QED BY <1>1, <1>3, <2>3, <2>4
          DEF ImageInv, ImageFaithful, ProtectedSoFar, ProtectedAsAsked
<1> QED BY <1>2, <1>3

(* A segment is copied above all those copied before.                      *)
LEMMA CopyStep == Known /\ ImageInv /\ CopySegment => ImageInv'
<1> SUFFICES ASSUME Known, ImageInv, CopySegment PROVE ImageInv'
  OBVIOUS
<1> DEFINE InFile == offs[k]..(offs[k] + segms[k].filesz - 1)
           Rest == (offs[k] + segms[k].filesz)..(offs[k] + segms[k].memsz - 1)
<1>1. /\ stage = "copy" /\ stage' = "copy" /\ k' = k + 1 /\ exe' = exe
      /\ UNCHANGED <<segms, offs, next, pages, prot>>
      /\ image' = [o \in DOMAIN image |->
                     IF o \in InFile THEN segms[k].offset + (o - offs[k])
                     ELSE IF o \in Rest THEN Zero
                     ELSE image[o]]
  BY DEF CopySegment, Segment, layoutVars
<1>2. /\ k \in 1..Len(segms) /\ Len(offs) = Len(segms) /\ Len(segms) \in Nat
      /\ next \in Nat /\ exe.mem = FALSE
  BY <1>1, SegmentTypes
  DEF CopySegment, Known, LiveInv, Running, Inv, TypeInv, TypeOK, ControlTypes,
      LayoutTypes, ControlInv
<1>3. \A i \in 1..Len(segms) :
        /\ offs[i] \in Nat /\ segms[i].memsz \in Nat /\ segms[i].filesz \in Nat
        /\ segms[i].offset \in Nat
        /\ offs[i] + segms[i].memsz <= next
        /\ i < k => offs[i] + segms[i].memsz <= offs[k]
  <2>1. \A ph \in Phdr : ph.filesz \in Nat
    BY DEF Phdr
  <2>2. \A i \in 1..Len(segms) :
          /\ offs[i] \in Nat /\ segms[i].memsz \in Nat /\ segms[i].filesz \in Nat
          /\ segms[i].offset \in Nat
    BY <1>2, <2>1, SegmentTypes DEF Known, Inv
  <2>3. \A i \in 1..Len(segms) :
          /\ offs[i] + segms[i].memsz <= next
          /\ i < k => offs[i] + segms[i].memsz <= offs[k]
    BY <1>2 DEF Known, Inv, LayoutInv, SegmentsApart, Laid
  <2> QED BY <2>2, <2>3
<1>4. DOMAIN image = 0..(next - 1) /\ DOMAIN image' = 0..(next - 1)
  BY <1>1 DEF ImageInv, Shape, HasImage
<1>5. Copied = 1..(k - 1) /\ Copied' = 1..k
  BY <1>1, <1>2 DEF Copied
<1>6. ASSUME NEW i \in 1..k, NEW b \in 0..(segms[i].memsz - 1)
      PROVE  image'[offs[i] + b] = IF b < segms[i].filesz THEN segms[i].offset + b
                                   ELSE Zero
  <2> DEFINE o == offs[i] + b
  <2>1. i \in 1..Len(segms) /\ b \in Nat /\ b < segms[i].memsz
    BY <1>2, <1>3
  <2>2. o \in 0..(next - 1)
    BY <2>1, <1>2, <1>3
  <2>3. image'[o] = IF o \in InFile THEN segms[k].offset + (o - offs[k])
                    ELSE IF o \in Rest THEN Zero
                    ELSE image[o]
    BY <2>2, <1>1, <1>4
  <2>4. CASE i = k
    <3>1. o \in InFile <=> b < segms[i].filesz
      BY <2>1, <2>4, <1>3
    <3>2. ~(b < segms[i].filesz) => o \in Rest
      BY <2>1, <2>4, <1>3
    <3>3. segms[k].offset + (o - offs[k]) = segms[i].offset + b
      BY <2>1, <2>4, <1>3
    <3> QED BY <2>3, <3>1, <3>2, <3>3
  <2>5. CASE i < k
    <3>1. o < offs[k] /\ offs[k] \in Nat
      BY <2>1, <2>5, <1>2, <1>3
    <3>2. o \notin InFile /\ o \notin Rest
      BY <2>1, <3>1, <1>2, <1>3
    <3>3. i \in Copied
      BY <2>5, <1>5, <1>2
    <3>4. image[o] = IF b < segms[i].filesz THEN segms[i].offset + b ELSE Zero
      BY <3>3 DEF ImageInv, ImageFaithful
    <3> QED BY <2>3, <3>2, <3>4
  <2> QED BY <2>4, <2>5, <1>2
<1>7. ImageFaithful'
  <2>1. segms' = segms /\ offs' = offs
    BY <1>1
  <2> QED BY <2>1, <1>5, <1>6 DEF ImageFaithful
<1>8. Shape'
  BY <1>1, <1>2, <1>4 DEF ImageInv, Shape, HasImage
<1> QED BY <1>1, <1>2, <1>7, <1>8 DEF ImageInv, ProtectedSoFar, ProtectedAsAsked

(* A descriptor that begins on a page has no byte on the pages before it.  *)
LEMMA BeginsPage ==
  ASSUME NEW p \in Int, NEW off \in Nat, off % PageSize = 0,
         off < (p + 1) * PageSize
  PROVE  off <= p * PageSize
<1> DEFINE q == off \div PageSize
<1>1. PageSize \in Nat \ {0}
  BY PageSizeNat
<1>2. q \in Nat /\ off = PageSize * q
  BY <1>1, SMT
<1>3. ~(q >= p + 1)
  <2> SUFFICES ASSUME q >= p + 1 PROVE FALSE
    OBVIOUS
  <2>1. PageSize * q >= PageSize * (p + 1)
    BY <1>1, <1>2, SMT
  <2> QED BY <2>1, <1>1, <1>2, SMT
<1>4. PageSize * q <= PageSize * p
  BY <1>1, <1>2, <1>3, SMT
<1> QED BY <1>1, <1>2, <1>4, SMT

(* No two page descriptors share a page.                                   *)
LEMMA PagesDisjoint ==
  ASSUME Known, stage = "protect", NEW d \in 1..LastPage, NEW e \in 1..LastPage,
         d < e, NEW p \in PagesOf(pages[d].offset, pages[d].size)
  PROVE  p \notin PagesOf(pages[e].offset, pages[e].size)
<1> SUFFICES ASSUME p \in PagesOf(pages[e].offset, pages[e].size) PROVE FALSE
  OBVIOUS
<1>1. /\ pages[d].offset \in Nat /\ pages[e].offset \in Nat /\ next \in Nat
      /\ LastPage \in Nat
  BY SegmentTypes DEF Known, Inv, TypeInv, TypeOK, LayoutTypes, LastPage
<1>2. /\ pages[d].size = PageEnd(d) - pages[d].offset
      /\ pages[e].offset % PageSize = 0
  BY DEF Known, Inv, LayoutInv, PagesTile
<1>3. PageEnd(d) <= pages[e].offset
  BY DEF Known, PagesOrdered
<1>4. PageEnd(d) \in Nat
  <2>1. d + 1 \in 1..LastPage => pages[d + 1].offset \in Nat
    BY SegmentTypes DEF Known, Inv, LastPage
  <2> QED BY <2>1, <1>1 DEF PageEnd
<1>5. PageSize \in Nat \ {0}
  BY PageSizeNat
<1>6. /\ p \in Int /\ p * PageSize \in Int
      /\ p * PageSize < pages[d].offset + pages[d].size
      /\ pages[e].offset < (p + 1) * PageSize
  <2>1. \A n \in 0..((next - 1) \div PageSize) : n \in Int /\ n * PageSize \in Int
    BY <1>5, SMT
  <2> QED BY <2>1 DEF PagesOf, FullSize
<1>7. pages[e].offset <= p * PageSize
  BY <1>1, <1>2, <1>6, BeginsPage
<1>8. p * PageSize < pages[e].offset
  BY <1>1, <1>2, <1>3, <1>4, <1>6
<1> QED BY <1>1, <1>6, <1>7, <1>8

LEMMA ProtectStep == Known /\ ImageInv /\ ProtectPage => ImageInv'
<1> SUFFICES ASSUME Known, ImageInv, ProtectPage PROVE ImageInv'
  OBVIOUS
<1>1. /\ stage = "protect" /\ exe.mem = FALSE /\ exe' = exe
      /\ UNCHANGED <<segms, offs, next, pages, image>> /\ k <= LastPage
  BY DEF ProtectPage, Known, LiveInv, Running, layoutVars, LastPage
<1>2. CASE stage' # "protect"
  BY <1>1, <1>2, NoImage DEF ProtectPage
<1>3. CASE stage' = "protect"
  <2>1. /\ k' = k + 1
        /\ prot' = [p \in DOMAIN prot |->
                      IF p \in PagesOf(pages[k].offset, pages[k].size)
                      THEN pages[k].flags ELSE prot[p]]
    BY <1>3 DEF ProtectPage
  <2>2. DOMAIN prot = 0..((next - 1) \div PageSize) /\ Len(offs) = Len(segms)
        /\ DOMAIN image = 0..(next - 1)
    BY <1>1 DEF ImageInv, Shape, HasImage
  <2>3. Shape'
    BY <1>1, <1>3, <2>1, <2>2 DEF Shape
  <2>4. ImageFaithful'
    BY <1>1, <1>3 DEF ImageInv, ImageFaithful, Copied, Segments
  <2>5. k \in 1..LastPage /\ LastPage' = LastPage /\ LastPage \in Nat
    BY <1>1, SegmentTypes DEF Known, Inv, TypeInv, TypeOK, ControlTypes, LastPage
  <2>6. ASSUME NEW d \in 1..LastPage, d < k + 1,
               NEW p \in PagesOf(pages[d].offset, pages[d].size)
        PROVE  prot'[p] = pages[d].flags
    <3>1. p \in DOMAIN prot
      BY <2>2 DEF PagesOf, FullSize
    <3>2. CASE d = k
      BY <3>1, <3>2, <2>1
    <3>3. CASE d < k
      <4>1. p \notin PagesOf(pages[k].offset, pages[k].size)
        BY <3>3, <1>1, <2>5, PagesDisjoint
      <4>2. prot[p] = pages[d].flags
        BY <3>3, <1>1 DEF ImageInv, ProtectedSoFar
      <4> QED BY <3>1, <4>1, <4>2, <2>1
    <3> QED BY <3>2, <3>3, <2>6, <2>5
  <2>7. ProtectedSoFar'
    <3>1. \A off, size : PagesOf(off, size)' = PagesOf(off, size)
      BY <1>1 DEF PagesOf, FullSize
    <3>2. pages' = pages
      BY <1>1
    <3> QED BY <3>1, <3>2, <2>1, <2>5, <2>6 DEF ProtectedSoFar
  <2> QED BY <1>1, <2>3, <2>4, <2>7 DEF ImageInv, ProtectedAsAsked
<1> QED BY <1>2, <1>3

(* Every page of a segment is one of its descriptor's.                     *)
LEMMA FinishStep == Known /\ ImageInv /\ Finish => ImageInv'
<1> SUFFICES ASSUME Known, ImageInv, Finish PROVE ImageInv'
  OBVIOUS
<1>1. /\ stage = "protect" /\ k > LastPage /\ stage' = "clean_pages_list"
      /\ UNCHANGED <<segms, offs, next, pages, image, prot>>
  BY DEF Finish, layoutVars, imageVars, LastPage
<1>2. Shape'
  BY <1>1 DEF ImageInv, Shape, HasImage
<1>3. ImageFaithful'
  <2>1. Copied' \subseteq Copied
    BY <1>1 DEF Copied, Segments
  <2> QED BY <2>1, <1>1 DEF ImageInv, ImageFaithful
<1>4. ASSUME NEW i \in Segments, NEW p \in PagesOf(offs[i], segms[i].memsz)
      PROVE  prot[p] = segms[i].flags
  <2>1. i \in Laid /\ i \in 1..Len(segms) /\ i \in 1..Len(offs)
    BY <1>1 DEF ImageInv, Shape, HasImage, Laid, Segments
  <2>2. PICK d \in 1..LastPage : /\ pages[d].flags = segms[i].flags
                                 /\ pages[d].offset <= offs[i]
                                 /\ offs[i] + segms[i].memsz <= PageEnd(d)
    BY <2>1 DEF Known, Inv, LayoutInv, SegmentsOnTheirPages
  <2>3. /\ offs[i] \in Nat /\ segms[i].memsz \in Nat /\ pages[d].offset \in Nat
        /\ LastPage \in Nat /\ next \in Nat /\ k \in Nat
    BY <2>1, SegmentTypes
    DEF Known, Inv, TypeInv, TypeOK, LayoutTypes, ControlTypes, LastPage
  <2>4. PageEnd(d) \in Nat /\ pages[d].size = PageEnd(d) - pages[d].offset
    <3>1. d + 1 \in 1..LastPage => pages[d + 1].offset \in Nat
      BY SegmentTypes DEF Known, Inv, LastPage
    <3>2. PageEnd(d) \in Nat
      BY <3>1, <2>3 DEF PageEnd
    <3> QED BY <3>2, <1>1 DEF Known, Inv, LayoutInv, PagesTile
  <2>5. /\ p \in 0..((next - 1) \div PageSize) /\ segms[i].memsz > 0
        /\ p * PageSize < offs[i] + segms[i].memsz
        /\ offs[i] < (p + 1) * PageSize
    BY DEF PagesOf, FullSize
  <2>6. p * PageSize \in Int /\ (p + 1) * PageSize \in Int
    BY <2>5, PageSizeNat, SMT
  <2>7. p \in PagesOf(pages[d].offset, pages[d].size)
    BY <2>2, <2>3, <2>4, <2>5, <2>6 DEF PagesOf, FullSize
  <2>8. d < k
    BY <2>3, <1>1
  <2> QED BY <2>2, <2>7, <2>8, <1>1 DEF ImageInv, ProtectedSoFar
<1>5. ProtectedAsAsked'
  <2>1. /\ Segments' = Segments
        /\ \A off, size : PagesOf(off, size)' = PagesOf(off, size)
    BY <1>1 DEF Segments, PagesOf, FullSize
  <2>2. segms' = segms /\ offs' = offs /\ prot' = prot
    BY <1>1
  <2> QED BY <2>1, <2>2, <1>4 DEF ProtectedAsAsked
<1> QED BY <1>1, <1>2, <1>3, <1>5 DEF ImageInv, ProtectedSoFar

(* The steps between the loops, the relocations, and the clean-up labels.  *)
LEMMA OtherSteps ==
  Known /\ ImageInv
  /\ (EndCopy \/ NextSection \/ UnmappableSection \/ Relocate \/ EndReloc
      \/ CleanMappedExe \/ CleanPagesList \/ CleanSegmentsList \/ CleanMapped)
  => ImageInv'
<1> SUFFICES ASSUME Known, ImageInv,
                    EndCopy \/ NextSection \/ UnmappableSection \/ Relocate
                    \/ EndReloc \/ CleanMappedExe \/ CleanPagesList
                    \/ CleanSegmentsList \/ CleanMapped
             PROVE  ImageInv'
  OBVIOUS
<1> USE DEF EndCopy, NextSection, UnmappableSection, Relocate, EndReloc,
            CleanMappedExe, CleanPagesList, CleanSegmentsList, CleanMapped, CleanUp
<1>1. UNCHANGED <<segms, offs, next, pages, image, prot, exe>>
  BY DEF layoutVars, imageVars
<1>2. HasImage' => HasImage
  BY <1>1 DEF HasImage
<1>3. Copied' \subseteq Copied
  <2>1. CASE EndCopy
    <3>1. k \in Nat /\ Len(segms) \in Nat
      BY SegmentTypes DEF Known, Inv, TypeInv, TypeOK, ControlTypes
    <3>2. stage = "copy" /\ k > Len(segms) /\ stage' = "reloc"
      BY <2>1
    <3>3. Copied = 1..(k - 1) /\ Copied' = 1..Len(segms)
      BY <3>2, <1>1 DEF Copied, Segments
    <3> QED BY <3>1, <3>2, <3>3
  <2>2. CASE ~EndCopy
    <3>1. stage # "copy" /\ stage' # "copy"
      BY <2>2
    <3>2. \/ stage = "reloc" /\ Segments' = Segments
          \/ /\ stage \notin {"reloc", "protect"} /\ stage' \notin {"reloc", "protect"}
             /\ Segments' = Segments
      BY <2>2, <1>1 DEF Segments
    <3> QED BY <3>1, <3>2, <1>1 DEF Copied
  <2> QED BY <2>1, <2>2
<1>4. stage' # "copy"
  OBVIOUS
<1>5. stage' = "protect" => k' = 1
  OBVIOUS
<1> QED BY <1>1, <1>2, <1>3, <1>4, <1>5, ImageKept

LEMMA ImageNext == Known /\ ImageInv /\ [Next]_vars => ImageInv'
<1> SUFFICES ASSUME Known, ImageInv, [Next]_vars PROVE ImageInv'
  OBVIOUS
<1>1. CASE UNCHANGED vars
  <2>1. UNCHANGED <<stage, k, segms, offs, next, pages, image, prot, exe>>
    BY <1>1 DEF vars, layoutVars, imageVars
  <2> QED BY <2>1 DEF ImageInv, Shape, HasImage, ImageFaithful, Copied, Segments,
                      ProtectedSoFar, ProtectedAsAsked, LastPage, PagesOf, FullSize
<1> QED BY <1>1, EarlySteps, MapStep, CopyStep, ProtectStep, FinishStep, OtherSteps
        DEF Next

(* What was copied and protected stays as it is, on every path.            *)
THEOREM LoaderImageInv == Spec => []ImageInv
<1>1. Spec => []PagesOrdered
  BY OrderedInit, OrderedNext, LoaderInv, PTL DEF Spec
<1>2. Inv /\ LiveInv /\ PagesOrdered => Known
  BY DEF Known
<1> QED BY <1>1, <1>2, ImageInit, ImageNext, LoaderInv, LoaderLive, PTL DEF Spec

(* The bytes of every segment in the image are those of the file, then     *)
(* zeroes, from its copy to the hand-over.                                 *)
THEOREM LoaderImageFaithful == Spec => []ImageFaithful
<1>1. ImageInv => ImageFaithful
  BY DEF ImageInv
<1> QED BY LoaderImageInv, <1>1, PTL

(* Every page of every segment has exactly the permissions asked for.      *)
THEOREM LoaderProtectedAsAsked == Spec => []ProtectedAsAsked
<1>1. ImageInv => ProtectedAsAsked
  BY DEF ImageInv
<1> QED BY LoaderImageInv, <1>1, PTL
=============================================================================
