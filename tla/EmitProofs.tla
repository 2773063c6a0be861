----------------------------- MODULE EmitProofs -----------------------------
(***************************************************************************)
(* Proofs about EmitLoad, for every program size, page size and width of a *)
(* u32 that its assumptions allow.                                         *)
(*                                                                         *)
(* The argument: as long as every write has gone well, the lengths of the  *)
(* buffers are known wherever main() is (LengthsInv), since a write that   *)
(* wraps a length does not go well; and with them where everything is in   *)
(* the file (PartsInv) and what the headers say of it (SectionsInv,        *)
(* SegmentsInv).  FileComplete and OwesTheLoader compare the two.  A write *)
(* that overruns a buffer can only be one that passes half the range, and  *)
(* the lengths bound them all.                                             *)
(*                                                                         *)
(* The loader is then given a file of which every field is known, and      *)
(* LoadInv says at each of its stages what it has made of it: the segments *)
(* it has collected, where it has put them, which bytes of the image and   *)
(* which protections are set.  NeverRefused and LoadsWhatWasEmitted read   *)
(* this off.                                                               *)
(***************************************************************************)
EXTENDS EmitLoad, SequenceTheorems, TLAPS

P == INSTANCE OutProofs

-----------------------------------------------------------------------------
(* How far main() is, and which parts of it are past.  The names of a      *)
(* section and of the phase that writes it are the same.                   *)
Rank == [headers |-> 0, insns |-> 1, null |-> 2, text |-> 3, data |-> 4,
         attributes |-> 5, rela |-> 6, entry |-> 7, symtab |-> 8, strtab |-> 9,
         shstrtab |-> 10, ehdr |-> 11, file |-> 12, free |-> 13, exited |-> 14]
Past(p) == Rank[p] < Rank[phase]

SectionNames == DOMAIN NameSize

(* The type of every variable, with the domains that TypeOK leaves out.    *)
Heap(h) ==
  /\ h = [x \in Buffers \union {"wrote"} |-> h[x]]
  /\ \A b \in Buffers : h[b] \in O!Buffer
  /\ h.wrote \in {"ok", "segv", "wild"}

TypeInv ==
  /\ TypeOK
  /\ Heap(heap)
  /\ phase \in DOMAIN Rank
  /\ sections = [s \in SectionNames |-> sections[s]]
  /\ segments = [s \in {"data", "text", "attributes"} |-> segments[s]]
  /\ phase \in {"file", "free", "exited"} => heap.wrote = "ok"
  /\ mode = "raw" => phase \in {"headers", "file", "free", "exited"}

(* The lengths of the buffers, and which of them are empty.                *)
Lens(elfLen, shstrtab, strtab, symtab) ==
  /\ heap["elf"].len = elfLen /\ heap["shstrtab"].len = shstrtab
  /\ heap["strtab"].len = strtab /\ heap["symtab"].len = symtab

LengthsInv ==
  heap.wrote = "ok" =>
    /\ phase # "exited" => heap["insns"].len = size
    /\ mode = "raw" \/ phase = "exited" => Lens(0, 0, 0, 0)
    /\ mode = "elf" =>
         /\ phase = "headers"    => Lens(0, 0, 0, 0)
         /\ phase = "insns"      => Lens(InsnsBegin, 0, 0, 0)
         /\ phase = "null"       => Lens(InsnsEnd, 0, 0, 0)
         /\ phase = "text"       => Lens(InsnsEnd, 1, 0, 0)
         /\ phase = "data"       => Lens(InsnsEnd, 7, 0, 0)
         /\ phase = "attributes" => Lens(InsnsEnd, 13, 0, 0)
         /\ phase = "rela"       => Lens(InsnsEnd, 31, 0, 0)
         /\ phase = "entry"      => Lens(InsnsEnd + 24, 42, 9, 16)
         /\ phase = "symtab"     => Lens(InsnsEnd + 24, 42, 19, 32)
         /\ phase = "strtab"     => Lens(InsnsEnd + 56, 50, 19, 0)
         /\ phase = "shstrtab"   => Lens(InsnsEnd + 75, 58, 0, 0)
         /\ phase \in {"ehdr", "file", "free"} => Lens(InsnsEnd + 143, 0, 0, 0)

FreedInv ==
  heap.wrote = "ok" =>
    /\ phase = "exited" => heap["insns"] = O!Empty
    /\ mode = "raw" \/ phase = "exited" => heap["elf"] = O!Empty
    /\ mode = "raw" \/ Past("shstrtab") => heap["shstrtab"] = O!Empty
    /\ mode = "raw" \/ Past("strtab") => heap["strtab"] = O!Empty
    /\ mode = "raw" \/ Past("symtab") => heap["symtab"] = O!Empty

NameAt == [null |-> 0, text |-> 1, data |-> 7, attributes |-> 13, rela |-> 31,
           symtab |-> 42, strtab |-> 50, shstrtab |-> 58]

(* What the file holds of each section, and what is said of it.            *)
OffsetOf ==
  [null |-> 0, text |-> InsnsBegin, data |-> InsnsEnd, attributes |-> InsnsEnd,
   rela |-> InsnsEnd, symtab |-> InsnsEnd + 24, strtab |-> InsnsEnd + 56,
   shstrtab |-> InsnsEnd + 75]
LengthOf ==
  [null |-> 0, text |-> size, data |-> TapeSize, attributes |-> 0, rela |-> 24,
   symtab |-> 32, strtab |-> 19, shstrtab |-> 68]
AddrOf(s) == IF s = "text" THEN TextAddr ELSE IF s = "data" THEN DataAddr ELSE 0

Describes(h, s) ==
  /\ h.name = NameAt[s] /\ h.addr = AddrOf(s) /\ h.size = LengthOf[s]
  /\ h.offset = OffsetOf[s] \/ (s = "shstrtab" /\ h.offset = Unset)
  /\ h.type = (IF s = "rela" THEN "RELA" ELSE "OTHER")
  /\ h.link = (IF s = "rela" THEN 4 ELSE IF s = "symtab" THEN 5 ELSE 0)
  /\ h.info = (IF s \in {"rela", "symtab"} THEN 2 ELSE 0)
  /\ DOMAIN h = DOMAIN NoSection

SectionsInv ==
  heap.wrote = "ok" /\ mode = "elf" =>
    \A s \in SectionNames :
      Past(s) => Describes(sections[s], s) /\ <<s, NameAt[s]>> \in names

SegmentOf ==
  [text |-> [type |-> "LOAD", vaddr |-> TextAddr, memsz |-> size, filesz |-> size,
             offset |-> InsnsBegin, align |-> PageSize, flags |-> {"R", "X"}],
   data |-> [type |-> "LOAD", vaddr |-> DataAddr, memsz |-> TapeSize, filesz |-> 0,
             offset |-> InsnsEnd, align |-> PageSize, flags |-> {"R", "W"}],
   attributes |-> [type |-> "OTHER", vaddr |-> 0, memsz |-> 0, filesz |-> 0,
                   offset |-> InsnsEnd, align |-> 1, flags |-> {"R"}]]

PastPart(s) == IF s = "text" THEN Past("insns") ELSE Past(s)

SegmentsInv ==
  heap.wrote = "ok" /\ mode = "elf" =>
    /\ \A s \in DOMAIN SegmentOf : Past(s) => segments[s] = SegmentOf[s]
    /\ Past("ehdr") =>
         ehdr = [entry |-> TextAddr, shstrndx |-> 6, phoff |-> 52, shoff |-> 148]

PartOf(s) == <<s, OffsetOf[s], LengthOf[s]>>

PartsInv ==
  heap.wrote = "ok" /\ mode = "elf" =>
    parts = {PartOf(s) : s \in {t \in Tables : PastPart(t)}}

EmitInv ==
  /\ TypeInv /\ LengthsInv /\ FreedInv /\ NoOverrunBelowHalf
  /\ SectionsInv /\ SegmentsInv /\ PartsInv

-----------------------------------------------------------------------------
(* The loader, once it is given the file: what it has read, laid out and   *)
(* copied at each stage.                                                   *)
TextOff  == TextAddr - DataAddr
FullLen  == TextOff + size
PageNos  == 0..((FullLen - 1) \div PageSize)

Collected == <<SegmentOf["data"], SegmentOf["text"]>>

Page(offset, length, flags) == [offset |-> offset, size |-> length, flags |-> flags]

(* The image after n segments were copied, its pages after n of the page   *)
(* descriptors were applied.                                               *)
ImageAfter(n) ==
  [o \in 0..(FullLen - 1) |->
     IF n = 2 /\ TextOff <= o THEN InsnsBegin + (o - TextOff) ELSE L!Zero]
ProtAfter(n) ==
  [p \in PageNos |->
     IF n = 2 /\ TextOff < (p + 1) * PageSize THEN {"R", "X"} ELSE {"R", "W"}]

HandedOver == stage # "idle" => phase = "exited" /\ mode = "elf" /\ elf = OnDisk

ScanInv ==
  /\ stage \in {"idle", "open", "ident"} => k = 1 /\ segms = <<>>
  /\ stage = "scan" =>
       /\ k \in 1..4 /\ (k > 2 => found)
       /\ k = 1 => segms = <<>>
       /\ k = 2 => segms = <<SegmentOf["data"]>>
       /\ k > 2 => segms = Collected

BeforeMap(s) == s \in {"idle", "open", "ident", "scan", "layout"}
Mapping(s) == s \in {"map", "copy", "reloc", "protect"}

LaidOut ==
  /\ stage = "layout" =>
       /\ segms = Collected
       /\ \/ /\ k = 2 /\ offs = <<0>> /\ next = TapeSize
             /\ pages = <<Page(0, Unset, {"R", "W"})>>
          \/ /\ k = 3 /\ offs = <<0, TextOff>> /\ next = FullLen
             /\ pages = <<Page(0, TextOff, {"R", "W"}),
                          Page(TextOff, Unset, {"R", "X"})>>
  /\ Mapping(stage) \/ exe.mem =>
       /\ segms = Collected /\ offs = <<0, TextOff>> /\ next = FullLen
       /\ pages = <<Page(0, TextOff, {"R", "W"}), Page(TextOff, size, {"R", "X"})>>

Copied ==
  /\ stage = "copy" => /\ k \in 1..3 /\ prot = ProtAfter(0)
                       /\ \A n \in 0..2 : k = n + 1 => image = ImageAfter(n)
  /\ stage = "reloc" => /\ k \in Nat \ {0} /\ r \in Nat \ {0}
                       /\ image = ImageAfter(2) /\ prot = ProtAfter(0)
  /\ stage = "protect" => /\ k \in 1..3 /\ image = ImageAfter(2)
                          /\ \A n \in 0..2 : k = n + 1 => prot = ProtAfter(n)
  /\ exe.mem => /\ image = ImageAfter(2) /\ prot = ProtAfter(2)
                /\ exe.entrypoint = TextOff
  /\ patched = {}

ExeInv ==
  /\ exe = [mem |-> exe.mem, mem_count |-> exe.mem_count, entrypoint |-> exe.entrypoint]
  /\ exe.mem => ~Mapping(stage) /\ ~BeforeMap(stage)

LoadInv == HandedOver /\ ScanInv /\ LaidOut /\ Copied /\ ExeInv

-----------------------------------------------------------------------------
(* The buffers of the model are those of the lemmas about them.            *)
LEMMA SameBuffers ==
  /\ O!U32 = P!U32 /\ O!Half = P!Half /\ O!Powers = P!Powers /\ O!Buffer = P!Buffer
  /\ \A out, count : O!Reserve(out, count) = P!Reserve(out, count)
  /\ \A out, count : O!Written(out, count) = P!Written(out, count)
<1>1. /\ O!U32 = P!U32 /\ O!Half = P!Half /\ O!Powers = P!Powers
      /\ O!Null = P!Null /\ O!Blocks = P!Blocks
  BY DEF O!U32, P!U32, O!Half, P!Half, O!Powers, P!Powers, O!Null, P!Null,
         O!Blocks, P!Blocks
<1>2. O!Buffer = P!Buffer
  BY <1>1, Zenon DEF O!Buffer, P!Buffer
<1>3. \A val : O!NextPo2(val) = P!NextPo2(val)
  BY <1>1, Zenon DEF O!NextPo2, P!NextPo2
<1>4. \A block : O!Reallocated(block) = P!Reallocated(block)
  BY <1>1, Zenon DEF O!Reallocated, P!Reallocated
<1>5. \A required, block : O!Grown(required, block) = P!Grown(required, block)
  BY <1>3, <1>4 DEF O!Grown, P!Grown, O!MaxPo2, P!MaxPo2
<1>6. \A out, count : O!Reserve(out, count) = P!Reserve(out, count)
  BY <1>1, <1>5, Zenon DEF O!Reserve, P!Reserve
<1>7. \A out, count : O!Written(out, count) = P!Written(out, count)
  BY <1>1, Zenon DEF O!Written, P!Written
<1> QED BY <1>1, <1>2, <1>6, <1>7

LEMMA U32Properties ==
  /\ O!U32 \in Nat /\ O!Half \in Nat /\ O!U32 >= 512 /\ O!U32 = 2 * O!Half
  /\ size \in CodeSizes => size \in 20..O!Half /\ size \in 0..(O!U32 - 1)
<1>1. Width \in 4..32 /\ Width >= 9
  BY WidthAssumption
<1>2. O!U32 \in Nat /\ O!Half \in Nat /\ O!U32 >= 512 /\ O!U32 = 2 * O!Half
  BY <1>1, SameBuffers, P!U32Properties
<1>3. \A half \in Nat : \A n \in 20..half :
        half >= 256 => n \in 20..half /\ n \in 0..(2 * half - 1)
  OBVIOUS
<1>4. size \in CodeSizes => size \in 20..O!Half
  BY SizesAssumption
<1>5. O!Half >= 256
  BY <1>2
<1> QED BY <1>2, <1>3, <1>4, <1>5

LEMMA BufferLength ==
  ASSUME NEW out \in O!Buffer
  PROVE  out.len \in Nat /\ out.len \in 0..(O!U32 - 1)
<1>1. out.len \in 0..(O!U32 - 1)
  BY DEF O!Buffer
<1>2. \A u \in Nat : \A n \in 0..(u - 1) : n \in Nat
  OBVIOUS
<1> QED BY <1>1, <1>2, U32Properties

(* What n more bytes of the buffer b do to the buffers.                    *)
Grows(h, g, b, n) ==
  /\ Heap(g)
  /\ g.wrote = "ok" => /\ h.wrote = "ok" /\ g[b].len = h[b].len + n
                       /\ \A c \in Buffers \ {b} : g[c] = h[c]
  /\ g.wrote = "wild" =>
       h.wrote = "wild" \/ (h.wrote = "ok" /\ h[b].len + n > O!Half)

LEMMA ReserveGrows ==
  ASSUME NEW h, Heap(h), NEW b \in Buffers, NEW n \in 0..(O!U32 - 1),
         h[b].len + n < O!U32, NEW g \in Reserve(h, b, n)
  PROVE  /\ Heap(g) /\ g.wrote = h.wrote /\ g[b].len = h[b].len + n
         /\ \A c \in Buffers \ {b} : g[c] = h[c]
<1>1. PICK o \in O!Reserve(h[b], n) : g = [h EXCEPT ![b] = o]
  BY DEF Reserve
<1>2. h[b] \in P!Buffer /\ n \in 0..(P!U32 - 1) /\ o \in P!Reserve(h[b], n)
  BY SameBuffers DEF Heap
<1>3. o \in O!Buffer /\ o.len = (h[b].len + n) % O!U32
  BY <1>2, WidthAssumption, SameBuffers, P!ReserveProperties
<1>4. h[b].len \in Nat
  BY BufferLength DEF Heap
<1>5. o.len = h[b].len + n
  <2>1. \A i, m \in Nat : i < m => i % m = i
    OBVIOUS
  <2>2. h[b].len + n \in Nat /\ O!U32 \in Nat
    BY <1>4, U32Properties
  <2> QED BY <2>1, <2>2, <1>3
<1>6. /\ g = [x \in Buffers \union {"wrote"} |-> g[x]]
      /\ g.wrote = h.wrote /\ g[b] = o /\ \A c \in Buffers \ {b} : g[c] = h[c]
  BY <1>1 DEF Heap, Buffers
<1> QED BY <1>3, <1>5, <1>6 DEF Heap

LEMMA WriteGrows ==
  ASSUME NEW h, Heap(h), NEW b \in Buffers, NEW n \in 0..(O!U32 - 1),
         NEW g \in Write(h, b, n)
  PROVE  Grows(h, g, b, n)
<1>1. CASE h.wrote # "ok"
  <2>1. g = h
    BY <1>1 DEF Write
  <2> QED BY <2>1, <1>1 DEF Grows
<1>2. CASE h.wrote = "ok"
  <2>1. PICK o \in O!Reserve(h[b], n) :
          g = [h EXCEPT ![b] = o, !.wrote = O!Written(o, n)]
    BY <1>2 DEF Write
  <2>2. h[b] \in P!Buffer /\ n \in 0..(P!U32 - 1) /\ o \in P!Reserve(h[b], n)
    BY SameBuffers DEF Heap
  <2>3. o \in O!Buffer
    BY <2>2, WidthAssumption, SameBuffers, P!ReserveProperties
  <2> DEFINE w == O!Written(o, n)
  <2>4. /\ w \in {"ok", "segv", "wild"}
        /\ w = "ok" => o.len = h[b].len + n
        /\ h[b].len + n <= O!Half => w # "wild"
    BY <2>2, WidthAssumption, SameBuffers, P!WrittenProperties
  <2> HIDE DEF w
  <2>5. g = [h EXCEPT ![b] = o, !.wrote = w]
    BY <2>1 DEF w
  <2>6. /\ g = [x \in Buffers \union {"wrote"} |-> g[x]]
        /\ g.wrote = w /\ g[b] = o /\ \A c \in Buffers \ {b} : g[c] = h[c]
    BY <2>5 DEF Heap, Buffers
  <2>7. Heap(g)
    BY <2>3, <2>4, <2>6 DEF Heap
  <2>8. h[b].len \in Nat /\ O!Half \in Nat
    BY BufferLength, U32Properties DEF Heap
  <2> QED BY <1>2, <2>4, <2>6, <2>7, <2>8 DEF Grows
<1> QED BY <1>1, <1>2

-----------------------------------------------------------------------------
(* The buffers, one step at a time.                                        *)
HeapInv ==
  /\ mode \in {"elf", "raw"} /\ size \in CodeSizes /\ phase \in DOMAIN Rank
  /\ mode = "raw" => phase \in {"headers", "file", "free", "exited"}
  /\ Heap(heap) /\ LengthsInv /\ FreedInv /\ NoOverrunBelowHalf

LEMMA WriteInsnsHeap == HeapInv /\ WriteInsns => HeapInv'
<1> SUFFICES ASSUME HeapInv, WriteInsns PROVE HeapInv'
  OBVIOUS
<1> USE DEF InsnsBegin, InsnsEnd, EhdrSize, PhdrSize, ShdrSize, Order, NameSize
<1>1. /\ phase = "insns" /\ phase' = "null" /\ heap.wrote = "ok" /\ mode = "elf"
      /\ mode' = mode /\ size' = size /\ size \in CodeSizes
  BY DEF WriteInsns, At, HeapInv
<1>2. Grows(heap, heap', "elf", size)
  BY WriteGrows, U32Properties DEF WriteInsns, HeapInv, Buffers
<1>3. Lens(468, 0, 0, 0) /\ heap["insns"].len = size
  BY <1>1 DEF HeapInv, LengthsInv
<1>4. LengthsInv'
  BY <1>1, <1>2, <1>3, U32Properties DEF LengthsInv, Lens, Grows, Buffers
<1>5. NoOverrunBelowHalf'
  BY <1>1, <1>2, <1>3, U32Properties DEF NoOverrunBelowHalf, FixedSize, Lens, Grows
<1>6. FreedInv'
  BY <1>1, <1>2 DEF HeapInv, FreedInv, Past, Rank, Grows, Buffers
<1> QED BY <1>1, <1>2, <1>4, <1>5, <1>6 DEF HeapInv, Rank, Grows

LEMMA NullSectionHeap == HeapInv /\ NullSection => HeapInv'
<1> SUFFICES ASSUME HeapInv, NullSection PROVE HeapInv'
  OBVIOUS
<1> USE DEF InsnsBegin, InsnsEnd, EhdrSize, PhdrSize, ShdrSize, Order, NameSize
<1>1. /\ phase = "null" /\ phase' = "text" /\ heap.wrote = "ok" /\ mode = "elf"
      /\ mode' = mode /\ size' = size /\ size \in CodeSizes
  BY DEF NullSection, At, HeapInv
<1>2. Grows(heap, heap', "shstrtab", 1)
  BY WriteGrows, U32Properties DEF NullSection, HeapInv, Buffers
<1>3. Lens(InsnsEnd, 0, 0, 0) /\ heap["insns"].len = size
  BY <1>1 DEF HeapInv, LengthsInv
<1>4. LengthsInv'
  BY <1>1, <1>2, <1>3, U32Properties DEF LengthsInv, Lens, Grows, Buffers
<1>5. NoOverrunBelowHalf'
  BY <1>1, <1>2, <1>3, U32Properties DEF NoOverrunBelowHalf, FixedSize, Lens, Grows
<1>6. FreedInv'
  BY <1>1, <1>2 DEF HeapInv, FreedInv, Past, Rank, Grows, Buffers
<1> QED BY <1>1, <1>2, <1>4, <1>5, <1>6 DEF HeapInv, Rank, Grows

LEMMA TextSectionHeap == HeapInv /\ TextSection => HeapInv'
<1> SUFFICES ASSUME HeapInv, TextSection PROVE HeapInv'
  OBVIOUS
<1> USE DEF InsnsBegin, InsnsEnd, EhdrSize, PhdrSize, ShdrSize, Order, NameSize
<1>1. /\ phase = "text" /\ phase' = "data" /\ heap.wrote = "ok" /\ mode = "elf"
      /\ mode' = mode /\ size' = size /\ size \in CodeSizes
  BY DEF TextSection, At, HeapInv
<1>2. Grows(heap, heap', "shstrtab", 6)
  BY WriteGrows, U32Properties DEF TextSection, HeapInv, Buffers
<1>3. Lens(InsnsEnd, 1, 0, 0) /\ heap["insns"].len = size
  BY <1>1 DEF HeapInv, LengthsInv
<1>4. LengthsInv'
  BY <1>1, <1>2, <1>3, U32Properties DEF LengthsInv, Lens, Grows, Buffers
<1>5. NoOverrunBelowHalf'
  BY <1>1, <1>2, <1>3, U32Properties DEF NoOverrunBelowHalf, FixedSize, Lens, Grows
<1>6. FreedInv'
  BY <1>1, <1>2 DEF HeapInv, FreedInv, Past, Rank, Grows, Buffers
<1> QED BY <1>1, <1>2, <1>4, <1>5, <1>6 DEF HeapInv, Rank, Grows

LEMMA DataSectionHeap == HeapInv /\ DataSection => HeapInv'
<1> SUFFICES ASSUME HeapInv, DataSection PROVE HeapInv'
  OBVIOUS
<1> USE DEF InsnsBegin, InsnsEnd, EhdrSize, PhdrSize, ShdrSize, Order, NameSize
<1>1. /\ phase = "data" /\ phase' = "attributes" /\ heap.wrote = "ok" /\ mode = "elf"
      /\ mode' = mode /\ size' = size /\ size \in CodeSizes
  BY DEF DataSection, At, HeapInv
<1>2. Grows(heap, heap', "shstrtab", 6)
  BY WriteGrows, U32Properties DEF DataSection, HeapInv, Buffers
<1>3. Lens(InsnsEnd, 7, 0, 0) /\ heap["insns"].len = size
  BY <1>1 DEF HeapInv, LengthsInv
<1>4. LengthsInv'
  BY <1>1, <1>2, <1>3, U32Properties DEF LengthsInv, Lens, Grows, Buffers
<1>5. NoOverrunBelowHalf'
  BY <1>1, <1>2, <1>3, U32Properties DEF NoOverrunBelowHalf, FixedSize, Lens, Grows
<1>6. FreedInv'
  BY <1>1, <1>2 DEF HeapInv, FreedInv, Past, Rank, Grows, Buffers
<1> QED BY <1>1, <1>2, <1>4, <1>5, <1>6 DEF HeapInv, Rank, Grows

LEMMA AttributesHeap == HeapInv /\ Attributes => HeapInv'
<1> SUFFICES ASSUME HeapInv, Attributes PROVE HeapInv'
  OBVIOUS
<1> USE DEF InsnsBegin, InsnsEnd, EhdrSize, PhdrSize, ShdrSize, Order, NameSize
<1>1. /\ phase = "attributes" /\ phase' = "rela" /\ heap.wrote = "ok" /\ mode = "elf"
      /\ mode' = mode /\ size' = size /\ size \in CodeSizes
  BY DEF Attributes, At, HeapInv
<1>2. Grows(heap, heap', "shstrtab", 18)
  BY WriteGrows, U32Properties DEF Attributes, HeapInv, Buffers
<1>3. Lens(InsnsEnd, 13, 0, 0) /\ heap["insns"].len = size
  BY <1>1 DEF HeapInv, LengthsInv
<1>4. LengthsInv'
  BY <1>1, <1>2, <1>3, U32Properties DEF LengthsInv, Lens, Grows, Buffers
<1>5. NoOverrunBelowHalf'
  BY <1>1, <1>2, <1>3, U32Properties DEF NoOverrunBelowHalf, FixedSize, Lens, Grows
<1>6. FreedInv'
  BY <1>1, <1>2 DEF HeapInv, FreedInv, Past, Rank, Grows, Buffers
<1> QED BY <1>1, <1>2, <1>4, <1>5, <1>6 DEF HeapInv, Rank, Grows

LEMMA DestroyHeap ==
  ASSUME NEW h, Heap(h), NEW b \in Buffers
  PROVE  LET g == Destroy(h, b) IN
         /\ Heap(g) /\ g.wrote = h.wrote
         /\ g.wrote # "ok" => g = h
         /\ g.wrote = "ok" => /\ g[b] = O!Empty
                             /\ \A c \in Buffers \ {b} : g[c] = h[c]
<1>1. O!Empty \in O!Buffer
  <2>1. 0 \in 0..(O!U32 - 1)
    BY U32Properties
  <2> QED BY <2>1 DEF O!Empty, O!Buffer
<1> QED BY <1>1 DEF Destroy, Free, Heap, Buffers

LEMMA ReserveHeadersHeap == HeapInv /\ ReserveHeaders => HeapInv'
<1> SUFFICES ASSUME HeapInv, ReserveHeaders PROVE HeapInv'
  OBVIOUS
<1> USE DEF InsnsBegin, InsnsEnd, EhdrSize, PhdrSize, ShdrSize, Order, NameSize
<1>1. /\ phase = "headers" /\ phase' = "insns" /\ heap.wrote = "ok" /\ mode = "elf"
      /\ mode' = mode /\ size' = size /\ size \in CodeSizes
  BY DEF ReserveHeaders, At, HeapInv
<1>2. Lens(0, 0, 0, 0) /\ heap["insns"].len = size
  BY <1>1 DEF HeapInv, LengthsInv
<1>3. PICK h1 \in Reserve(heap, "elf", 52) : \E h2 \in Reserve(h1, "elf", 96) :
                                            heap' \in Reserve(h2, "elf", 320)
  BY DEF ReserveHeaders
<1>4. PICK h2 \in Reserve(h1, "elf", 96) : heap' \in Reserve(h2, "elf", 320)
  BY <1>3
<1>5. /\ \A n \in {52, 96, 320} : n \in 0..(O!U32 - 1)
      /\ \A n \in {52, 148, 468} : n < O!U32
  BY U32Properties
<1> DEFINE Grown(h, g, n) == /\ Heap(g) /\ g.wrote = h.wrote
                            /\ g["elf"].len = h["elf"].len + n
                            /\ \A c \in Buffers \ {"elf"} : g[c] = h[c]
<1>6. Grown(heap, h1, 52)
  BY <1>2, <1>3, <1>5, ReserveGrows DEF HeapInv, Lens, Buffers
<1>7. Grown(h1, h2, 96)
  BY <1>2, <1>4, <1>5, <1>6, ReserveGrows DEF Lens, Buffers
<1>8. Grown(h2, heap', 320)
  BY <1>2, <1>4, <1>5, <1>6, <1>7, ReserveGrows DEF Lens, Buffers
<1>9. LengthsInv'
  BY <1>1, <1>2, <1>6, <1>7, <1>8 DEF LengthsInv, Lens, Buffers
<1>10. NoOverrunBelowHalf' /\ FreedInv'
  BY <1>1, <1>6, <1>7, <1>8
  DEF NoOverrunBelowHalf, HeapInv, FreedInv, Past, Rank, Buffers
<1> QED BY <1>1, <1>8, <1>9, <1>10 DEF HeapInv, Rank

LEMMA RelocationsHeap == HeapInv /\ Relocations => HeapInv'
<1> SUFFICES ASSUME HeapInv, Relocations PROVE HeapInv'
  OBVIOUS
<1> USE DEF InsnsBegin, InsnsEnd, EhdrSize, PhdrSize, ShdrSize, Order, NameSize
<1>1. /\ phase = "rela" /\ phase' = "entry" /\ heap.wrote = "ok" /\ mode = "elf"
      /\ mode' = mode /\ size' = size /\ size \in CodeSizes
  BY DEF Relocations, At, HeapInv
<1>2. Lens(InsnsEnd, 31, 0, 0) /\ heap["insns"].len = size
  BY <1>1 DEF HeapInv, LengthsInv
<1>3. PICK h1 \in Write(heap, "symtab", 16) : \E h2 \in Write(h1, "strtab", 9) :
        \E h3 \in Write(h2, "elf", 24) : heap' \in Write(h3, "shstrtab", 11)
  BY DEF Relocations, SymSize, DataName, RelaSize
<1>4. PICK h2 \in Write(h1, "strtab", 9) :
        \E h3 \in Write(h2, "elf", 24) : heap' \in Write(h3, "shstrtab", 11)
  BY <1>3
<1>5. PICK h3 \in Write(h2, "elf", 24) : heap' \in Write(h3, "shstrtab", 11)
  BY <1>4
<1>6. \A n \in {16, 9, 24, 11} : n \in 0..(O!U32 - 1)
  BY U32Properties
<1>7. Grows(heap, h1, "symtab", 16)
  BY <1>3, <1>6, WriteGrows DEF HeapInv, Buffers
<1>8. Grows(h1, h2, "strtab", 9)
  BY <1>4, <1>6, <1>7, WriteGrows DEF Grows, Buffers
<1>9. Grows(h2, h3, "elf", 24)
  BY <1>5, <1>6, <1>8, WriteGrows DEF Grows, Buffers
<1>10. Grows(h3, heap', "shstrtab", 11)
  BY <1>5, <1>6, <1>9, WriteGrows DEF Grows, Buffers
<1>11. LengthsInv'
  BY <1>1, <1>2, <1>7, <1>8, <1>9, <1>10, U32Properties
  DEF LengthsInv, Lens, Grows, Buffers
<1>12. NoOverrunBelowHalf'
  BY <1>1, <1>2, <1>7, <1>8, <1>9, <1>10, U32Properties
  DEF NoOverrunBelowHalf, FixedSize, Lens, Grows, Buffers
<1>13. FreedInv'
  BY <1>1, <1>10 DEF FreedInv, Past, Rank
<1> QED BY <1>1, <1>10, <1>11, <1>12, <1>13 DEF HeapInv, Rank, Grows

LEMMA EntrySymbolHeap == HeapInv /\ EntrySymbol => HeapInv'
<1> SUFFICES ASSUME HeapInv, EntrySymbol PROVE HeapInv'
  OBVIOUS
<1> USE DEF InsnsBegin, InsnsEnd, EhdrSize, PhdrSize, ShdrSize, Order, NameSize
<1>1. /\ phase = "entry" /\ phase' = "symtab" /\ heap.wrote = "ok" /\ mode = "elf"
      /\ mode' = mode /\ size' = size /\ size \in CodeSizes
  BY DEF EntrySymbol, At, HeapInv
<1>2. Lens(InsnsEnd + 24, 42, 9, 16) /\ heap["insns"].len = size
  BY <1>1 DEF HeapInv, LengthsInv
<1>3. PICK h \in Write(heap, "symtab", 16) : heap' \in Write(h, "strtab", 10)
  BY DEF EntrySymbol, SymSize, EntryName
<1>4. \A n \in {16, 10} : n \in 0..(O!U32 - 1)
  BY U32Properties
<1>5. Grows(heap, h, "symtab", 16)
  BY <1>3, <1>4, WriteGrows DEF HeapInv, Buffers
<1>6. Grows(h, heap', "strtab", 10)
  BY <1>3, <1>4, <1>5, WriteGrows DEF Grows, Buffers
<1>7. LengthsInv'
  BY <1>1, <1>2, <1>5, <1>6, U32Properties DEF LengthsInv, Lens, Grows, Buffers
<1>8. NoOverrunBelowHalf'
  BY <1>1, <1>2, <1>5, <1>6, U32Properties
  DEF NoOverrunBelowHalf, FixedSize, Lens, Grows, Buffers
<1>9. FreedInv'
  BY <1>1, <1>6 DEF FreedInv, Past, Rank
<1> QED BY <1>1, <1>6, <1>7, <1>8, <1>9 DEF HeapInv, Rank, Grows

LEMMA SymbolTableHeap == HeapInv /\ SymbolTable => HeapInv'
<1> SUFFICES ASSUME HeapInv, SymbolTable PROVE HeapInv'
  OBVIOUS
<1> USE DEF InsnsBegin, InsnsEnd, EhdrSize, PhdrSize, ShdrSize, Order, NameSize
<1>1. /\ phase = "symtab" /\ phase' = "strtab" /\ heap.wrote = "ok" /\ mode = "elf"
      /\ mode' = mode /\ size' = size /\ size \in CodeSizes
  BY DEF SymbolTable, At, HeapInv
<1>2. Lens(InsnsEnd + 24, 42, 19, 32) /\ heap["insns"].len = size
  BY <1>1 DEF HeapInv, LengthsInv
<1>3. PICK h1 \in Write(heap, "elf", 32) : \E h2 \in Write(h1, "shstrtab", 8) :
        heap' = Destroy(h2, "symtab")
  BY <1>2 DEF SymbolTable, CopyTable, Lens
<1>4. PICK h2 \in Write(h1, "shstrtab", 8) : heap' = Destroy(h2, "symtab")
  BY <1>3
<1>5. \A n \in {32, 8} : n \in 0..(O!U32 - 1)
  BY U32Properties
<1>6. Grows(heap, h1, "elf", 32)
  BY <1>3, <1>5, WriteGrows DEF HeapInv, Buffers
<1>7. Grows(h1, h2, "shstrtab", 8)
  BY <1>4, <1>5, <1>6, WriteGrows DEF Grows, Buffers
<1>8. /\ Heap(heap') /\ heap'.wrote = h2.wrote
      /\ h2.wrote # "ok" => heap' = h2
      /\ h2.wrote = "ok" => /\ heap'["symtab"] = O!Empty
                           /\ \A c \in Buffers \ {"symtab"} : heap'[c] = h2[c]
  BY <1>4, <1>7, DestroyHeap DEF Grows, Buffers
<1>9. LengthsInv'
  BY <1>1, <1>2, <1>6, <1>7, <1>8, U32Properties
  DEF LengthsInv, Lens, Grows, Buffers, O!Empty
<1>10. NoOverrunBelowHalf'
  BY <1>1, <1>2, <1>6, <1>7, <1>8, U32Properties
  DEF NoOverrunBelowHalf, FixedSize, Lens, Grows, Buffers
<1>11. FreedInv'
  BY <1>1, <1>6, <1>7, <1>8 DEF HeapInv, FreedInv, Past, Rank, Grows, Buffers
<1> QED BY <1>1, <1>8, <1>9, <1>10, <1>11 DEF HeapInv, Rank

LEMMA StringTableHeap == HeapInv /\ StringTable => HeapInv'
<1> SUFFICES ASSUME HeapInv, StringTable PROVE HeapInv'
  OBVIOUS
<1> USE DEF InsnsBegin, InsnsEnd, EhdrSize, PhdrSize, ShdrSize, Order, NameSize
<1>1. /\ phase = "strtab" /\ phase' = "shstrtab" /\ heap.wrote = "ok" /\ mode = "elf"
      /\ mode' = mode /\ size' = size /\ size \in CodeSizes
  BY DEF StringTable, At, HeapInv
<1>2. Lens(InsnsEnd + 56, 50, 19, 0) /\ heap["insns"].len = size
  BY <1>1 DEF HeapInv, LengthsInv
<1>3. PICK h1 \in Write(heap, "elf", 19) : \E h2 \in Write(h1, "shstrtab", 8) :
        heap' = Destroy(h2, "strtab")
  BY <1>2 DEF StringTable, CopyTable, Lens
<1>4. PICK h2 \in Write(h1, "shstrtab", 8) : heap' = Destroy(h2, "strtab")
  BY <1>3
<1>5. \A n \in {19, 8} : n \in 0..(O!U32 - 1)
  BY U32Properties
<1>6. Grows(heap, h1, "elf", 19)
  BY <1>3, <1>5, WriteGrows DEF HeapInv, Buffers
<1>7. Grows(h1, h2, "shstrtab", 8)
  BY <1>4, <1>5, <1>6, WriteGrows DEF Grows, Buffers
<1>8. /\ Heap(heap') /\ heap'.wrote = h2.wrote
      /\ h2.wrote # "ok" => heap' = h2
      /\ h2.wrote = "ok" => /\ heap'["strtab"] = O!Empty
                           /\ \A c \in Buffers \ {"strtab"} : heap'[c] = h2[c]
  BY <1>4, <1>7, DestroyHeap DEF Grows, Buffers
<1>9. LengthsInv'
  BY <1>1, <1>2, <1>6, <1>7, <1>8, U32Properties
  DEF LengthsInv, Lens, Grows, Buffers, O!Empty
<1>10. NoOverrunBelowHalf'
  BY <1>1, <1>2, <1>6, <1>7, <1>8, U32Properties
  DEF NoOverrunBelowHalf, FixedSize, Lens, Grows, Buffers
<1>11. FreedInv'
  BY <1>1, <1>6, <1>7, <1>8 DEF HeapInv, FreedInv, Past, Rank, Grows, Buffers
<1> QED BY <1>1, <1>8, <1>9, <1>10, <1>11 DEF HeapInv, Rank

LEMMA NameTableHeap == HeapInv /\ NameTable => HeapInv'
<1> SUFFICES ASSUME HeapInv, NameTable PROVE HeapInv'
  OBVIOUS
<1> USE DEF InsnsBegin, InsnsEnd, EhdrSize, PhdrSize, ShdrSize, Order, NameSize
<1>1. /\ phase = "shstrtab" /\ phase' = "ehdr" /\ heap.wrote = "ok" /\ mode = "elf"
      /\ mode' = mode /\ size' = size /\ size \in CodeSizes
  BY DEF NameTable, At, HeapInv
<1>2. Lens(InsnsEnd + 75, 58, 0, 0) /\ heap["insns"].len = size
  BY <1>1 DEF HeapInv, LengthsInv
<1>3. PICK named \in Write(heap, "shstrtab", 10) :
        \E h \in Write(named, "elf", named["shstrtab"].len) :
          heap' = Destroy(h, "shstrtab")
  BY DEF NameTable
<1>4. PICK h \in Write(named, "elf", named["shstrtab"].len) :
        heap' = Destroy(h, "shstrtab")
  BY <1>3
<1>5. Grows(heap, named, "shstrtab", 10)
  BY <1>3, U32Properties, WriteGrows DEF HeapInv, Buffers
<1>6. named["shstrtab"].len \in 0..(O!U32 - 1)
  BY <1>5, BufferLength DEF Grows, Heap, Buffers
<1>7. Grows(named, h, "elf", named["shstrtab"].len)
  BY <1>4, <1>5, <1>6, WriteGrows DEF Grows, Buffers
<1>8. /\ Heap(heap') /\ heap'.wrote = h.wrote
      /\ h.wrote # "ok" => heap' = h
      /\ h.wrote = "ok" => /\ heap'["shstrtab"] = O!Empty
                          /\ \A c \in Buffers \ {"shstrtab"} : heap'[c] = h[c]
  BY <1>4, <1>7, DestroyHeap DEF Grows, Buffers
<1>9. LengthsInv'
  BY <1>1, <1>2, <1>5, <1>7, <1>8, U32Properties
  DEF LengthsInv, Lens, Grows, Buffers, O!Empty
<1>10. NoOverrunBelowHalf'
  BY <1>1, <1>2, <1>5, <1>7, <1>8, U32Properties
  DEF NoOverrunBelowHalf, FixedSize, Lens, Grows, Buffers
<1>11. FreedInv'
  BY <1>1, <1>5, <1>7, <1>8 DEF HeapInv, FreedInv, Past, Rank, Grows, Buffers
<1> QED BY <1>1, <1>8, <1>9, <1>10, <1>11 DEF HeapInv, Rank

LEMMA FreeBuffersHeap == HeapInv /\ FreeBuffers => HeapInv'
<1> SUFFICES ASSUME HeapInv, FreeBuffers PROVE HeapInv'
  OBVIOUS
<1> USE DEF InsnsBegin, InsnsEnd, EhdrSize, PhdrSize, ShdrSize, Order, NameSize
<1>1. /\ phase = "free" /\ phase' = "exited" /\ heap.wrote = "ok"
      /\ mode' = mode /\ size' = size
  BY DEF FreeBuffers, At
<1> DEFINE h == Destroy(heap, "elf")
<1>2. /\ Heap(h) /\ h.wrote = "ok" /\ h["elf"] = O!Empty
      /\ \A c \in Buffers \ {"elf"} : h[c] = heap[c]
  BY <1>1, DestroyHeap DEF HeapInv, Buffers
<1>3. heap' = Destroy(h, "insns")
  BY DEF FreeBuffers
<1> HIDE DEF h
<1>4. /\ Heap(heap') /\ heap'.wrote = "ok" /\ heap'["insns"] = O!Empty
      /\ \A c \in Buffers \ {"insns"} : heap'[c] = h[c]
  BY <1>2, <1>3, DestroyHeap DEF Buffers
<1>5. FreedInv'
  BY <1>1, <1>2, <1>4 DEF HeapInv, FreedInv, Past, Rank, Buffers
<1>6. LengthsInv'
  BY <1>1, <1>2, <1>4, <1>5
  DEF HeapInv, FreedInv, LengthsInv, Lens, Past, Rank, Buffers, O!Empty
<1> QED BY <1>1, <1>4, <1>5, <1>6 DEF HeapInv, Rank, NoOverrunBelowHalf

LEMMA ControlHeap ==
  HeapInv /\ (ChooseRaw \/ ElfHeader \/ EmitRaw \/ UNCHANGED emission) => HeapInv'
<1> SUFFICES ASSUME HeapInv, ChooseRaw \/ ElfHeader \/ EmitRaw \/ UNCHANGED emission
             PROVE  HeapInv'
  OBVIOUS
<1>1. heap' = heap /\ mode' = mode /\ size' = size
  BY DEF ChooseRaw, ElfHeader, EmitRaw, At, emission
<1>2. \/ phase = "headers" /\ phase' = "file" /\ mode = "raw"
      \/ phase = "ehdr" /\ phase' = "file" /\ mode = "elf"
      \/ phase = "file" /\ phase' = "free"
      \/ phase' = phase
  BY DEF ChooseRaw, ElfHeader, EmitRaw, At, emission, HeapInv
<1>3. LengthsInv'
  BY <1>1, <1>2 DEF HeapInv, LengthsInv, Lens, InsnsEnd
<1>4. FreedInv'
  BY <1>1, <1>2 DEF HeapInv, FreedInv, Past, Rank
<1> QED BY <1>1, <1>2, <1>3, <1>4 DEF HeapInv, Rank, NoOverrunBelowHalf, Heap

LEMMA HeapInit == Init => HeapInv
<1> SUFFICES ASSUME Init PROVE HeapInv
  OBVIOUS
<1>1. /\ phase = "headers" /\ size \in CodeSizes /\ mode \in {"elf", "raw"}
      /\ heap = [b \in Buffers \union {"wrote"} |-> heap[b]]
      /\ heap.wrote = "ok" /\ heap["insns"] = [len |-> size, cap |-> size, at |-> 1]
      /\ \A b \in Buffers \ {"insns"} : heap[b] = O!Empty
  BY DEF Init, Buffers
<1>2. O!Empty \in O!Buffer /\ heap["insns"] \in O!Buffer
  <2>1. 0 \in 0..(O!U32 - 1) /\ size \in 0..(O!U32 - 1)
    BY <1>1, U32Properties
  <2> QED BY <1>1, <2>1 DEF O!Empty, O!Buffer, O!Blocks
<1>3. Heap(heap)
  BY <1>1, <1>2 DEF Heap, Buffers
<1> QED
  BY <1>1, <1>3 DEF HeapInv, LengthsInv, Lens, FreedInv, NoOverrunBelowHalf, Past,
                    Rank, O!Empty, Buffers

-----------------------------------------------------------------------------
(* The content of the file, one step at a time.                            *)
LEMMA Indices ==
  /\ Ndx("data") = 1 /\ Ndx("text") = 2 /\ Ndx("symtab") = 4
  /\ Ndx("strtab") = 5 /\ Ndx("shstrtab") = 6
<1>1. \A i \in 1..8 :
        /\ Order[i] = "data" <=> i = 2
        /\ Order[i] = "text" <=> i = 3
        /\ Order[i] = "symtab" <=> i = 5
        /\ Order[i] = "strtab" <=> i = 6
        /\ Order[i] = "shstrtab" <=> i = 7
  BY DEF Order
<1>2. Len(Order) = 8
  BY DEF Order
<1> QED BY <1>1, <1>2 DEF Ndx

(* A section that is written adds to what is known of sections.            *)
LEMMA AddSection ==
  ASSUME TypeInv, SectionsInv, heap.wrote = "ok", mode = "elf",
         NEW x \in SectionNames, phase = x, UNCHANGED <<mode, size>>,
         Rank[phase'] = Rank[x] + 1, NEW h, Describes(h, x),
         sections' = [sections EXCEPT ![x] = h],
         names' = names \union {<<x, NameAt[x]>>}
  PROVE  SectionsInv'
<1>1. \A s \in SectionNames : Past(s)' => s = x \/ Past(s)
  BY DEF Past, Rank, SectionNames, NameSize
<1>2. UNCHANGED <<InsnsEnd, InsnsBegin, OffsetOf, LengthOf, TextAddr>>
  BY Zenon DEF OffsetOf, LengthOf, InsnsEnd, InsnsBegin, TextAddr
<1>3. /\ sections'[x] = h
      /\ \A s \in SectionNames \ {x} : sections'[s] = sections[s]
  BY DEF TypeInv
<1>4. ASSUME NEW s \in SectionNames, Past(s)'
      PROVE  Describes(sections[s], s)' /\ <<s, NameAt[s]>> \in names'
  <2>1. CASE s = x
    BY <1>2, <1>3, <2>1 DEF Describes, AddrOf
  <2>2. CASE s # x
    <3>1. Describes(sections[s], s) /\ <<s, NameAt[s]>> \in names
      BY <1>1, <1>4, <2>2 DEF SectionsInv
    <3> QED BY <1>2, <1>3, <2>2, <3>1 DEF Describes, AddrOf
  <2> QED BY <2>1, <2>2
<1> QED BY <1>4 DEF SectionsInv

LEMMA SectionsNext == HeapInv /\ TypeInv /\ SectionsInv /\ Emit => SectionsInv'
<1> SUFFICES ASSUME HeapInv, TypeInv, SectionsInv, Emit,
                    heap'.wrote = "ok", mode' = "elf"
             PROVE  SectionsInv'
  BY DEF SectionsInv
<1>1. UNCHANGED <<mode, size>> /\ heap.wrote = "ok"
  BY DEF Emit, At, ChooseRaw, ReserveHeaders, WriteInsns, NullSection, TextSection,
         DataSection, Attributes, Relocations, EntrySymbol, SymbolTable,
         StringTable, NameTable, ElfHeader, EmitRaw, FreeBuffers
<1>2. mode = "elf" /\ heap.wrote = "ok"
  BY <1>1
<1> USE DEF NameAt, SectionNames, NameSize, NoSection, OffsetOf, LengthOf
<1>3. CASE NullSection
  <2> DEFINE h == sections'["null"]
  <2>1. phase = "null" /\ Lens(InsnsEnd, 0, 0, 0)
    BY <1>3, <1>2 DEF NullSection, At, HeapInv, LengthsInv
  <2>2. /\ sections' = [sections EXCEPT !["null"] = h]
        /\ names' = names \union {<<"null", NameAt["null"]>>}
        /\ Describes(h, "null")
    BY <1>3, <2>1, Indices
    DEF NullSection, TypeInv, Named, Section, Index, Describes, AddrOf, Lens
  <2>3. Rank[phase'] = Rank["null"] + 1 /\ UNCHANGED <<mode, size>>
    BY <1>3 DEF NullSection, At, Rank
  <2> HIDE DEF h
  <2> QED BY <1>2, <2>1, <2>2, <2>3, AddSection
<1>4. CASE TextSection
  <2> DEFINE h == sections'["text"]
  <2>1. phase = "text" /\ Lens(InsnsEnd, 1, 0, 0)
    BY <1>4, <1>2 DEF TextSection, At, HeapInv, LengthsInv
  <2>2. /\ sections' = [sections EXCEPT !["text"] = h]
        /\ names' = names \union {<<"text", NameAt["text"]>>}
        /\ Describes(h, "text")
    BY <1>4, <2>1, Indices
    DEF TextSection, TypeInv, Named, Section, Index, Describes, AddrOf, Lens
  <2>3. Rank[phase'] = Rank["text"] + 1 /\ UNCHANGED <<mode, size>>
    BY <1>4 DEF TextSection, At, Rank
  <2> HIDE DEF h
  <2> QED BY <1>2, <2>1, <2>2, <2>3, AddSection
<1>5. CASE DataSection
  <2> DEFINE h == sections'["data"]
  <2>1. phase = "data" /\ Lens(InsnsEnd, 7, 0, 0)
    BY <1>5, <1>2 DEF DataSection, At, HeapInv, LengthsInv
  <2>2. /\ sections' = [sections EXCEPT !["data"] = h]
        /\ names' = names \union {<<"data", NameAt["data"]>>}
        /\ Describes(h, "data")
    BY <1>5, <2>1, Indices
    DEF DataSection, TypeInv, Named, Section, Index, Describes, AddrOf, Lens
  <2>3. Rank[phase'] = Rank["data"] + 1 /\ UNCHANGED <<mode, size>>
    BY <1>5 DEF DataSection, At, Rank
  <2> HIDE DEF h
  <2> QED BY <1>2, <2>1, <2>2, <2>3, AddSection
<1>6. CASE Attributes
  <2> DEFINE h == sections'["attributes"]
  <2>1. phase = "attributes" /\ Lens(InsnsEnd, 13, 0, 0)
    BY <1>6, <1>2 DEF Attributes, At, HeapInv, LengthsInv
  <2>2. /\ sections' = [sections EXCEPT !["attributes"] = h]
        /\ names' = names \union {<<"attributes", NameAt["attributes"]>>}
        /\ Describes(h, "attributes")
    BY <1>6, <2>1, Indices
    DEF Attributes, TypeInv, Named, Section, Index, Describes, AddrOf, Lens
  <2>3. Rank[phase'] = Rank["attributes"] + 1 /\ UNCHANGED <<mode, size>>
    BY <1>6 DEF Attributes, At, Rank
  <2> HIDE DEF h
  <2> QED BY <1>2, <2>1, <2>2, <2>3, AddSection
<1>7. CASE Relocations
  <2> DEFINE h == sections'["rela"]
  <2>1. phase = "rela" /\ Lens(InsnsEnd, 31, 0, 0)
    BY <1>7, <1>2 DEF Relocations, At, HeapInv, LengthsInv
  <2>2. /\ sections' = [sections EXCEPT !["rela"] = h]
        /\ names' = names \union {<<"rela", NameAt["rela"]>>}
        /\ Describes(h, "rela")
    BY <1>7, <2>1, Indices
    DEF Relocations, TypeInv, Named, Section, Index, RelaSize, Describes, AddrOf, Lens
  <2>3. Rank[phase'] = Rank["rela"] + 1 /\ UNCHANGED <<mode, size>>
    BY <1>7 DEF Relocations, At, Rank
  <2> HIDE DEF h
  <2> QED BY <1>2, <2>1, <2>2, <2>3, AddSection
<1>8. CASE SymbolTable
  <2> DEFINE h == sections'["symtab"]
  <2>1. phase = "symtab" /\ Lens(InsnsEnd + 24, 42, 19, 32)
    BY <1>8, <1>2 DEF SymbolTable, At, HeapInv, LengthsInv
  <2>2. /\ sections' = [sections EXCEPT !["symtab"] = h]
        /\ names' = names \union {<<"symtab", NameAt["symtab"]>>}
        /\ Describes(h, "symtab")
    BY <1>8, <2>1, Indices
    DEF SymbolTable, TypeInv, Named, Section, Index, CopyTable, Describes, AddrOf, Lens
  <2>3. Rank[phase'] = Rank["symtab"] + 1 /\ UNCHANGED <<mode, size>>
    BY <1>8 DEF SymbolTable, At, Rank
  <2> HIDE DEF h
  <2> QED BY <1>2, <2>1, <2>2, <2>3, AddSection
<1>9. CASE StringTable
  <2> DEFINE h == sections'["strtab"]
  <2>1. phase = "strtab" /\ Lens(InsnsEnd + 56, 50, 19, 0)
    BY <1>9, <1>2 DEF StringTable, At, HeapInv, LengthsInv
  <2>2. /\ sections' = [sections EXCEPT !["strtab"] = h]
        /\ names' = names \union {<<"strtab", NameAt["strtab"]>>}
        /\ Describes(h, "strtab")
    BY <1>9, <2>1, Indices
    DEF StringTable, TypeInv, Named, Section, Index, CopyTable, Describes, AddrOf, Lens
  <2>3. Rank[phase'] = Rank["strtab"] + 1 /\ UNCHANGED <<mode, size>>
    BY <1>9 DEF StringTable, At, Rank
  <2> HIDE DEF h
  <2> QED BY <1>2, <2>1, <2>2, <2>3, AddSection
<1>10. CASE NameTable
  <2> DEFINE h == sections'["shstrtab"]
  <2>1. phase = "shstrtab" /\ Lens(InsnsEnd + 75, 58, 0, 0)
    BY <1>10, <1>2 DEF NameTable, At, HeapInv, LengthsInv
  <2>2. PICK named \in Write(heap, "shstrtab", 10), stored \in BOOLEAN :
          /\ \E g \in Write(named, "elf", named["shstrtab"].len) :
               heap' = Destroy(g, "shstrtab")
          /\ sections' = [sections EXCEPT !["shstrtab"] =
               Section("shstrtab", "OTHER", 0,
                       IF stored THEN Index("elf", named["shstrtab"].len)
                       ELSE Unset, named["shstrtab"].len, 0, 0)]
    BY <1>10 DEF NameTable
  <2>3. named["shstrtab"].len = 68
    <3>1. Grows(heap, named, "shstrtab", 10)
      BY <2>2, U32Properties, WriteGrows DEF HeapInv, Buffers
    <3>2. named.wrote = "ok"
      BY <2>2 DEF Destroy, Write
    <3> QED BY <2>1, <3>1, <3>2 DEF Grows, Lens
  <2>4. /\ sections' = [sections EXCEPT !["shstrtab"] = h]
        /\ Describes(h, "shstrtab")
    BY <2>1, <2>2, <2>3 DEF TypeInv, Section, Index, Describes, AddrOf, Lens
  <2>5. names' = names \union {<<"shstrtab", NameAt["shstrtab"]>>}
    BY <1>10, <2>1 DEF NameTable, Named, Index, Lens
  <2>6. Rank[phase'] = Rank["shstrtab"] + 1 /\ UNCHANGED <<mode, size>>
    BY <1>10 DEF NameTable, At, Rank
  <2> HIDE DEF h
  <2> QED BY <1>2, <2>1, <2>4, <2>5, <2>6, AddSection
<1>11. CASE ChooseRaw \/ ReserveHeaders \/ WriteInsns \/ EntrySymbol
            \/ ElfHeader \/ EmitRaw \/ FreeBuffers
  <2>1. UNCHANGED <<sections, names>>
    BY <1>11 DEF ChooseRaw, ReserveHeaders, WriteInsns, EntrySymbol, ElfHeader,
                 EmitRaw, FreeBuffers
  <2>2. \A s \in SectionNames : Past(s)' => Past(s)
    BY <1>11, <1>2 DEF ChooseRaw, ReserveHeaders, WriteInsns, EntrySymbol, ElfHeader,
                 EmitRaw, FreeBuffers, At, Past, Rank
  <2>3. UNCHANGED <<InsnsEnd, InsnsBegin, OffsetOf, LengthOf, TextAddr>>
    BY <1>1, Zenon DEF InsnsEnd, InsnsBegin, TextAddr
  <2> QED BY <1>2, <2>1, <2>2, <2>3 DEF SectionsInv, Describes, AddrOf
<1> QED BY <1>3, <1>4, <1>5, <1>6, <1>7, <1>8, <1>9, <1>10, <1>11 DEF Emit

LEMMA SegmentsNext == HeapInv /\ TypeInv /\ SegmentsInv /\ Emit => SegmentsInv'
<1> SUFFICES ASSUME HeapInv, TypeInv, SegmentsInv, Emit,
                    heap'.wrote = "ok", mode' = "elf"
             PROVE  SegmentsInv'
  BY DEF SegmentsInv
<1>1. UNCHANGED <<mode, size>> /\ heap.wrote = "ok"
  BY DEF Emit, At, ChooseRaw, ReserveHeaders, WriteInsns, NullSection, TextSection,
         DataSection, Attributes, Relocations, EntrySymbol, SymbolTable,
         StringTable, NameTable, ElfHeader, EmitRaw, FreeBuffers
<1>2. mode = "elf" /\ heap.wrote = "ok"
  BY <1>1
<1>3. UNCHANGED <<InsnsEnd, InsnsBegin, SegmentOf, TextAddr>>
  BY <1>1, Zenon DEF InsnsEnd, InsnsBegin, TextAddr, SegmentOf
<1>4. DOMAIN SegmentOf = {"data", "text", "attributes"}
  BY DEF SegmentOf
<1>5. CASE TextSection
  <2>1. phase = "text" /\ phase' = "data" /\ UNCHANGED ehdr
    BY <1>5 DEF TextSection, At
  <2>2. segments' = [segments EXCEPT !["text"] = SegmentOf["text"]]
    BY <1>5 DEF TextSection, SegmentOf
  <2> QED
    BY <1>2, <1>3, <1>4, <2>1, <2>2 DEF SegmentsInv, TypeInv, Past, Rank
<1>6. CASE DataSection
  <2>1. phase = "data" /\ phase' = "attributes" /\ UNCHANGED ehdr
    BY <1>6 DEF DataSection, At
  <2>2. segments' = [segments EXCEPT !["data"] = SegmentOf["data"]]
    BY <1>6 DEF DataSection, SegmentOf
  <2> QED
    BY <1>2, <1>3, <1>4, <2>1, <2>2 DEF SegmentsInv, TypeInv, Past, Rank
<1>7. CASE Attributes
  <2>1. /\ phase = "attributes" /\ phase' = "rela" /\ UNCHANGED ehdr
        /\ heap["elf"].len = InsnsEnd
    BY <1>2, <1>7 DEF Attributes, At, HeapInv, LengthsInv, Lens
  <2>2. segments' = [segments EXCEPT !["attributes"] = SegmentOf["attributes"]]
    BY <1>7, <2>1 DEF Attributes, SegmentOf
  <2> QED
    BY <1>2, <1>3, <1>4, <2>1, <2>2 DEF SegmentsInv, TypeInv, Past, Rank
<1>8. CASE ElfHeader
  <2>1. phase = "ehdr" /\ phase' = "file" /\ UNCHANGED segments
    BY <1>8 DEF ElfHeader, At
  <2>2. ehdr' = [entry |-> TextAddr, shstrndx |-> 6, phoff |-> 52, shoff |-> 148]
    BY <1>8, Indices DEF ElfHeader, EhdrSize, PhdrSize
  <2> QED
    BY <1>2, <1>3, <1>4, <2>1, <2>2 DEF SegmentsInv, Past, Rank
<1>9. CASE \/ ChooseRaw \/ ReserveHeaders \/ WriteInsns \/ NullSection
           \/ Relocations \/ EntrySymbol \/ SymbolTable \/ StringTable
           \/ NameTable \/ EmitRaw \/ FreeBuffers
  <2>1. UNCHANGED <<segments, ehdr>>
    BY <1>9 DEF ChooseRaw, ReserveHeaders, WriteInsns, NullSection, Relocations,
                EntrySymbol, SymbolTable, CopyTable, StringTable, NameTable,
                EmitRaw, FreeBuffers
  <2>2. \A s \in {"data", "text", "attributes", "ehdr"} : Past(s)' => Past(s)
    BY <1>9, <1>2 DEF ChooseRaw, ReserveHeaders, WriteInsns, NullSection,
                Relocations, EntrySymbol, SymbolTable, StringTable, NameTable,
                EmitRaw, FreeBuffers, At, Past, Rank
  <2> QED BY <1>2, <1>3, <1>4, <2>1, <2>2 DEF SegmentsInv
<1> QED BY <1>5, <1>6, <1>7, <1>8, <1>9 DEF Emit

(* A part that is copied adds to what the file holds.                      *)
LEMMA AddPart ==
  ASSUME PartsInv, heap.wrote = "ok", mode = "elf", UNCHANGED <<mode, size>>,
         NEW x \in Tables, parts' = parts \union {PartOf(x)},
         \A s \in Tables : PastPart(s)' <=> s = x \/ PastPart(s)
  PROVE  PartsInv'
<1>1. UNCHANGED <<OffsetOf, LengthOf>>
  BY Zenon DEF OffsetOf, LengthOf, InsnsEnd, InsnsBegin
<1>2. \A s : PartOf(s)' = PartOf(s)
  BY <1>1 DEF PartOf
<1>3. parts = {PartOf(s) : s \in {t \in Tables : PastPart(t)}}
  BY DEF PartsInv
<1>4. parts' = {PartOf(s) : s \in {t \in Tables : PastPart(t)'}}
  BY <1>3
<1>5. parts' = {PartOf(s)' : s \in {t \in Tables : PastPart(t)'}}
  BY <1>2, <1>4
<1> QED BY <1>5 DEF PartsInv

LEMMA PartsNext == HeapInv /\ PartsInv /\ Emit => PartsInv'
<1> SUFFICES ASSUME HeapInv, PartsInv, Emit, heap'.wrote = "ok", mode' = "elf"
             PROVE  PartsInv'
  BY DEF PartsInv
<1>1. UNCHANGED <<mode, size>> /\ heap.wrote = "ok"
  BY DEF Emit, At, ChooseRaw, ReserveHeaders, WriteInsns, NullSection, TextSection,
         DataSection, Attributes, Relocations, EntrySymbol, SymbolTable,
         StringTable, NameTable, ElfHeader, EmitRaw, FreeBuffers
<1>2. mode = "elf" /\ heap.wrote = "ok"
  BY <1>1
<1> USE DEF OffsetOf, LengthOf, Tables, PastPart, Past, Rank
<1>3. CASE WriteInsns
  <2>1. phase = "insns" /\ phase' = "null" /\ Lens(InsnsBegin, 0, 0, 0)
    BY <1>3, <1>2 DEF WriteInsns, At, HeapInv, LengthsInv
  <2>2. parts' = parts \union {PartOf("text")}
    BY <1>3, <2>1 DEF WriteInsns, Part, Index, PartOf, Lens
  <2>3. \A s \in Tables : PastPart(s)' <=> s = "text" \/ PastPart(s)
    BY <2>1
  <2> QED BY <1>1, <1>2, <2>2, <2>3, AddPart
<1>4. CASE Relocations
  <2>1. phase = "rela" /\ phase' = "entry" /\ Lens(InsnsEnd, 31, 0, 0)
    BY <1>4, <1>2 DEF Relocations, At, HeapInv, LengthsInv
  <2>2. parts' = parts \union {PartOf("rela")}
    BY <1>4, <2>1 DEF Relocations, Part, Index, PartOf, Lens, RelaSize
  <2>3. \A s \in Tables : PastPart(s)' <=> s = "rela" \/ PastPart(s)
    BY <2>1
  <2> QED BY <1>1, <1>2, <2>2, <2>3, AddPart
<1>5. CASE SymbolTable
  <2>1. phase = "symtab" /\ phase' = "strtab" /\ Lens(InsnsEnd + 24, 42, 19, 32)
    BY <1>5, <1>2 DEF SymbolTable, At, HeapInv, LengthsInv
  <2>2. parts' = parts \union {PartOf("symtab")}
    BY <1>5, <2>1 DEF SymbolTable, Part, Index, PartOf, Lens, CopyTable
  <2>3. \A s \in Tables : PastPart(s)' <=> s = "symtab" \/ PastPart(s)
    BY <2>1
  <2> QED BY <1>1, <1>2, <2>2, <2>3, AddPart
<1>6. CASE StringTable
  <2>1. phase = "strtab" /\ phase' = "shstrtab" /\ Lens(InsnsEnd + 56, 50, 19, 0)
    BY <1>6, <1>2 DEF StringTable, At, HeapInv, LengthsInv
  <2>2. parts' = parts \union {PartOf("strtab")}
    BY <1>6, <2>1 DEF StringTable, Part, Index, PartOf, Lens, CopyTable
  <2>3. \A s \in Tables : PastPart(s)' <=> s = "strtab" \/ PastPart(s)
    BY <2>1
  <2> QED BY <1>1, <1>2, <2>2, <2>3, AddPart
<1>7. CASE NameTable
  <2>1. phase = "shstrtab" /\ phase' = "ehdr" /\ Lens(InsnsEnd + 75, 58, 0, 0)
    BY <1>7, <1>2 DEF NameTable, At, HeapInv, LengthsInv
  <2>2. PICK named \in Write(heap, "shstrtab", 10) :
          /\ \E g \in Write(named, "elf", named["shstrtab"].len) :
               heap' = Destroy(g, "shstrtab")
          /\ Part("shstrtab", heap["elf"].len, named["shstrtab"].len)
    BY <1>7 DEF NameTable, NameSize
  <2>3. named["shstrtab"].len = 68
    <3>1. Grows(heap, named, "shstrtab", 10)
      BY <2>2, U32Properties, WriteGrows DEF HeapInv, Buffers
    <3>2. named.wrote = "ok"
      BY <2>2 DEF Destroy, Write
    <3> QED BY <2>1, <3>1, <3>2 DEF Grows, Lens
  <2>4. parts' = parts \union {PartOf("shstrtab")}
    BY <2>1, <2>2, <2>3 DEF Part, PartOf, Lens
  <2>5. \A s \in Tables : PastPart(s)' <=> s = "shstrtab" \/ PastPart(s)
    BY <2>1
  <2> QED BY <1>1, <1>2, <2>4, <2>5, AddPart
<1>8. CASE \/ ChooseRaw \/ ReserveHeaders \/ NullSection \/ TextSection
           \/ DataSection \/ Attributes \/ EntrySymbol \/ ElfHeader
           \/ EmitRaw \/ FreeBuffers
  <2>1. UNCHANGED parts
    BY <1>8 DEF ChooseRaw, ReserveHeaders, NullSection, TextSection, DataSection,
                Attributes, EntrySymbol, ElfHeader, EmitRaw, FreeBuffers
  <2>2. \A s \in Tables : PastPart(s)' <=> PastPart(s)
    BY <1>8, <1>2 DEF ChooseRaw, ReserveHeaders, NullSection, TextSection,
                DataSection, Attributes, EntrySymbol, ElfHeader, EmitRaw,
                FreeBuffers, At
  <2>3. UNCHANGED <<OffsetOf, LengthOf>>
    BY <1>1, Zenon DEF InsnsEnd, InsnsBegin
  <2>4. \A s : PartOf(s)' = PartOf(s)
    BY <2>3 DEF PartOf
  <2>5. parts' = {PartOf(s) : s \in {t \in Tables : PastPart(t)'}}
    BY <1>2, <2>1, <2>2 DEF PartsInv
  <2>6. parts' = {PartOf(s)' : s \in {t \in Tables : PastPart(t)'}}
    BY <2>4, <2>5
  <2> QED BY <2>6 DEF PartsInv
<1> QED BY <1>3, <1>4, <1>5, <1>6, <1>7, <1>8 DEF Emit

-----------------------------------------------------------------------------
(* The inductive invariant.                                                *)
LEMMA HeapNext == HeapInv /\ (Emit \/ UNCHANGED emission) => HeapInv'
BY ControlHeap, ReserveHeadersHeap, WriteInsnsHeap, NullSectionHeap, TextSectionHeap,
   DataSectionHeap, AttributesHeap, RelocationsHeap, EntrySymbolHeap,
   SymbolTableHeap, StringTableHeap, NameTableHeap, FreeBuffersHeap
DEF Emit

(* How a step changes what is not the heap.                                *)
LEMMA TypeStep ==
  ASSUME HeapInv, TypeInv, Emit
  PROVE  /\ disk' \in {disk, "old", "cut", "whole"}
         /\ \/ sections' = sections
            \/ \E s \in SectionNames : \E h :
                 h.offset \in Nat \union {Unset} /\ sections' = [sections EXCEPT ![s] = h]
         /\ \/ segments' = segments
            \/ \E s \in {"data", "text", "attributes"} : \E h :
                 segments' = [segments EXCEPT ![s] = h]
         /\ \/ parts' = parts
            \/ \E s \in Tables : \E offset, length \in Nat :
                 parts' = parts \union {<<s, offset, length>>}
         /\ \/ names' = names
            \/ \E s \in SectionNames : \E index \in Nat :
                 names' = names \union {<<s, index>>}
<1>1. /\ \A b \in Buffers : heap[b].len \in Nat
      /\ size \in Nat /\ InsnsBegin \in Nat /\ InsnsEnd \in Nat
  <2>1. \A b \in Buffers : heap[b].len \in Nat
    BY BufferLength DEF HeapInv, Heap
  <2>2. size \in Nat /\ InsnsBegin \in Nat
    BY U32Properties DEF HeapInv, InsnsBegin, EhdrSize, PhdrSize, ShdrSize, Order
  <2> QED BY <2>1, <2>2 DEF InsnsEnd
<1> USE DEF SectionNames, NameSize, Tables, Buffers
<1>2. CASE ChooseRaw \/ ReserveHeaders \/ EntrySymbol
  BY <1>2 DEF ChooseRaw, ReserveHeaders, EntrySymbol
<1>3. CASE WriteInsns
  <2>1. \E offset, length \in Nat : parts' = parts \union {<<"text", offset, length>>}
    BY <1>1, <1>3 DEF WriteInsns, Part, Index
  <2>2. UNCHANGED <<disk, sections, segments, names>>
    BY <1>3 DEF WriteInsns
  <2> QED BY <2>1, <2>2
<1>4. CASE NullSection
  <2> DEFINE h == sections'["null"]
  <2>1. sections' = [sections EXCEPT !["null"] = h] /\ h.offset \in Nat
    BY <1>1, <1>4 DEF NullSection, TypeInv, Section, Index
  <2> HIDE DEF h
  <2>2. \E index \in Nat : names' = names \union {<<"null", index>>}
    BY <1>1, <1>4 DEF NullSection, Named, Index
  <2>3. UNCHANGED <<disk, parts, segments>>
    BY <1>4 DEF NullSection
  <2> QED BY <2>1, <2>2, <2>3
<1>5. CASE TextSection
  <2> DEFINE h == sections'["text"]
  <2>1. sections' = [sections EXCEPT !["text"] = h] /\ h.offset \in Nat
    BY <1>1, <1>5 DEF TextSection, TypeInv, Section, Index
  <2> HIDE DEF h
  <2>2. \E index \in Nat : names' = names \union {<<"text", index>>}
    BY <1>1, <1>5 DEF TextSection, Named, Index
  <2>3. UNCHANGED <<disk, parts>>
    BY <1>5 DEF TextSection
  <2>4. \E header : segments' = [segments EXCEPT !["text"] = header]
    BY <1>5 DEF TextSection
  <2> QED BY <2>1, <2>2, <2>3, <2>4
<1>6. CASE DataSection
  <2> DEFINE h == sections'["data"]
  <2>1. sections' = [sections EXCEPT !["data"] = h] /\ h.offset \in Nat
    BY <1>1, <1>6 DEF DataSection, TypeInv, Section, Index
  <2> HIDE DEF h
  <2>2. \E index \in Nat : names' = names \union {<<"data", index>>}
    BY <1>1, <1>6 DEF DataSection, Named, Index
  <2>3. UNCHANGED <<disk, parts>>
    BY <1>6 DEF DataSection
  <2>4. \E header : segments' = [segments EXCEPT !["data"] = header]
    BY <1>6 DEF DataSection
  <2> QED BY <2>1, <2>2, <2>3, <2>4
<1>7. CASE Attributes
  <2> DEFINE h == sections'["attributes"]
  <2>1. sections' = [sections EXCEPT !["attributes"] = h] /\ h.offset \in Nat
    BY <1>1, <1>7 DEF Attributes, TypeInv, Section, Index
  <2> HIDE DEF h
  <2>2. \E index \in Nat : names' = names \union {<<"attributes", index>>}
    BY <1>1, <1>7 DEF Attributes, Named, Index
  <2>3. UNCHANGED <<disk, parts>>
    BY <1>7 DEF Attributes
  <2>4. \E header : segments' = [segments EXCEPT !["attributes"] = header]
    BY <1>7 DEF Attributes
  <2> QED BY <2>1, <2>2, <2>3, <2>4
<1>8. CASE Relocations
  <2> DEFINE h == sections'["rela"]
  <2>1. sections' = [sections EXCEPT !["rela"] = h] /\ h.offset \in Nat
    BY <1>1, <1>8 DEF Relocations, TypeInv, Section, Index
  <2> HIDE DEF h
  <2>2. \E index \in Nat : names' = names \union {<<"rela", index>>}
    BY <1>1, <1>8 DEF Relocations, Named, Index
  <2>3. UNCHANGED <<disk, segments>>
    BY <1>8 DEF Relocations
  <2>4. \E offset, length \in Nat : parts' = parts \union {<<"rela", offset, length>>}
    BY <1>1, <1>8 DEF Relocations, Index, Part, RelaSize
  <2> QED BY <2>1, <2>2, <2>3, <2>4
<1>9. CASE SymbolTable
  <2> DEFINE h == sections'["symtab"]
  <2>1. sections' = [sections EXCEPT !["symtab"] = h] /\ h.offset \in Nat
    BY <1>1, <1>9 DEF SymbolTable, TypeInv, Section, Index, CopyTable
  <2> HIDE DEF h
  <2>2. \E index \in Nat : names' = names \union {<<"symtab", index>>}
    BY <1>1, <1>9 DEF SymbolTable, Named, Index, CopyTable
  <2>3. UNCHANGED <<disk, segments>>
    BY <1>9 DEF SymbolTable, CopyTable
  <2>4. \E offset, length \in Nat : parts' = parts \union {<<"symtab", offset, length>>}
    BY <1>1, <1>9 DEF SymbolTable, Index, CopyTable, Part
  <2> QED BY <2>1, <2>2, <2>3, <2>4
<1>10. CASE StringTable
  <2> DEFINE h == sections'["strtab"]
  <2>1. sections' = [sections EXCEPT !["strtab"] = h] /\ h.offset \in Nat
    BY <1>1, <1>10 DEF StringTable, TypeInv, Section, Index, CopyTable
  <2> HIDE DEF h
  <2>2. \E index \in Nat : names' = names \union {<<"strtab", index>>}
    BY <1>1, <1>10 DEF StringTable, Named, Index, CopyTable
  <2>3. UNCHANGED <<disk, segments>>
    BY <1>10 DEF StringTable, CopyTable
  <2>4. \E offset, length \in Nat : parts' = parts \union {<<"strtab", offset, length>>}
    BY <1>1, <1>10 DEF StringTable, Index, CopyTable, Part
  <2> QED BY <2>1, <2>2, <2>3, <2>4
<1>11. CASE NameTable
  <2>1. PICK named \in Write(heap, "shstrtab", 10), stored \in BOOLEAN :
          /\ sections' = [sections EXCEPT !["shstrtab"] =
               Section("shstrtab", "OTHER", 0,
                       IF stored THEN Index("elf", named["shstrtab"].len)
                       ELSE Unset, named["shstrtab"].len, 0, 0)]
          /\ Part("shstrtab", heap["elf"].len, named["shstrtab"].len)
    BY <1>11 DEF NameTable
  <2>2. named["shstrtab"].len \in Nat
    <3>1. Grows(heap, named, "shstrtab", 10)
      BY <2>1, U32Properties, WriteGrows DEF HeapInv
    <3> QED BY <3>1, BufferLength DEF Grows, Heap
  <2> DEFINE h == sections'["shstrtab"]
  <2>3. /\ sections' = [sections EXCEPT !["shstrtab"] = h]
        /\ h.offset \in Nat \union {Unset}
    BY <1>1, <2>1 DEF TypeInv, Section, Index
  <2> HIDE DEF h
  <2>4. \E index \in Nat : names' = names \union {<<"shstrtab", index>>}
    BY <1>1, <1>11 DEF NameTable, Named, Index
  <2>5. \E offset, length \in Nat : parts' = parts \union {<<"shstrtab", offset, length>>}
    BY <1>1, <2>1, <2>2 DEF Part
  <2>6. UNCHANGED <<disk, segments>>
    BY <1>11 DEF NameTable
  <2> QED BY <2>3, <2>4, <2>5, <2>6
<1>12. CASE ElfHeader \/ EmitRaw \/ FreeBuffers
  BY <1>12 DEF ElfHeader, EmitRaw, FreeBuffers
<1> QED
  BY <1>2, <1>3, <1>4, <1>5, <1>6, <1>7, <1>8, <1>9, <1>10, <1>11, <1>12 DEF Emit

LEMMA TypeNext == HeapInv /\ TypeInv /\ Emit => TypeInv'
<1> SUFFICES ASSUME HeapInv, TypeInv, Emit PROVE TypeInv'
  OBVIOUS
<1>1. HeapInv'
  BY HeapNext
<1>2. disk' \in {"old", "cut", "whole"}
  BY TypeStep DEF TypeInv, TypeOK
<1>3. /\ sections' = [s \in SectionNames |-> sections'[s]]
      /\ \A s \in SectionNames : sections'[s].offset \in Nat \union {Unset}
  <2>1. CASE sections' = sections
    BY <2>1 DEF TypeInv, TypeOK
  <2>2. CASE sections' # sections
    <3>1. PICK x \in SectionNames : \E h :
            h.offset \in Nat \union {Unset} /\ sections' = [sections EXCEPT ![x] = h]
      BY <2>2, TypeStep
    <3> QED BY <3>1 DEF TypeInv, TypeOK
  <2> QED BY <2>1, <2>2
<1>4. segments' = [s \in {"data", "text", "attributes"} |-> segments'[s]]
  BY TypeStep DEF TypeInv
<1>5. parts' \subseteq Tables \X Nat \X Nat
  BY TypeStep DEF TypeInv, TypeOK
<1>6. \A n \in names' : n[1] \in SectionNames /\ n[2] \in Nat
  BY TypeStep DEF TypeInv, TypeOK, SectionNames
<1>7. phase' \in {"file", "free", "exited"} => heap'.wrote = "ok"
  <2>1. \/ phase' \notin {"file", "free", "exited"}
        \/ ChooseRaw \/ ElfHeader \/ EmitRaw \/ FreeBuffers
    BY DEF Emit, At, ReserveHeaders, WriteInsns, NullSection, TextSection,
           DataSection, Attributes, Relocations, EntrySymbol, SymbolTable,
           StringTable, NameTable
  <2>2. CASE ChooseRaw \/ ElfHeader \/ EmitRaw
    BY <2>2 DEF ChooseRaw, ElfHeader, EmitRaw, At
  <2>3. CASE FreeBuffers
    <3>1. Heap(heap) /\ heap.wrote = "ok"
      BY <2>3 DEF HeapInv, FreeBuffers, At
    <3>2. Heap(Destroy(heap, "elf")) /\ Destroy(heap, "elf").wrote = "ok"
      BY <3>1, DestroyHeap DEF Buffers
    <3> QED BY <2>3, <3>2, DestroyHeap DEF FreeBuffers, Buffers
  <2> QED BY <2>1, <2>2, <2>3
<1>8. \A b \in Buffers : heap'[b] \in O!Buffer
  BY <1>1 DEF HeapInv, Heap
<1> QED
  BY <1>1, <1>2, <1>3, <1>4, <1>5, <1>6, <1>7, <1>8
  DEF HeapInv, TypeInv, TypeOK, Heap, SectionNames

LEMMA EmitInit == Init => EmitInv
<1> SUFFICES ASSUME Init PROVE EmitInv
  OBVIOUS
<1>1. HeapInv
  BY HeapInit
<1>2. phase = "headers" /\ parts = {} /\ names = {} /\ disk = "old"
  BY DEF Init
<1>3. \A p \in DOMAIN Rank : ~Past(p)
  BY <1>2 DEF Past, Rank
<1>4. SectionsInv /\ SegmentsInv
  BY <1>3 DEF SectionsInv, SegmentsInv, SectionNames, NameSize, SegmentOf, Rank
<1>5. PartsInv
  BY <1>2, <1>3 DEF PartsInv, PastPart, Tables, Rank
<1>6. TypeInv
  BY <1>1, <1>2 DEF Init, HeapInv, TypeInv, TypeOK, Heap, SectionNames, NameSize,
                    NoSection
<1> QED BY <1>1, <1>4, <1>5, <1>6 DEF EmitInv, HeapInv

LEMMA EmitNext == EmitInv /\ Emit => EmitInv'
<1> SUFFICES ASSUME EmitInv, Emit PROVE EmitInv'
  OBVIOUS
<1>1. HeapInv /\ TypeInv
  BY DEF EmitInv, HeapInv, TypeInv, TypeOK
<1>2. HeapInv' /\ TypeInv' /\ SectionsInv' /\ SegmentsInv' /\ PartsInv'
  BY <1>1, HeapNext, TypeNext, SectionsNext, SegmentsNext, PartsNext DEF EmitInv
<1> QED BY <1>2 DEF EmitInv, HeapInv

LEMMA EmitKept == EmitInv /\ UNCHANGED emission => EmitInv'
<1> SUFFICES ASSUME EmitInv, UNCHANGED emission PROVE EmitInv'
  OBVIOUS
<1> USE DEF emission
<1>1. HeapInv'
  BY ControlHeap DEF EmitInv, HeapInv, TypeInv, TypeOK
<1>2. TypeInv'
  BY <1>1 DEF EmitInv, HeapInv, TypeInv, TypeOK, SectionNames
<1>3. /\ UNCHANGED <<InsnsEnd, InsnsBegin, OffsetOf, LengthOf, TextAddr, SegmentOf>>
      /\ \A s : Past(s)' = Past(s) /\ PastPart(s)' = PastPart(s) /\ PartOf(s)' = PartOf(s)
  BY Zenon DEF InsnsEnd, InsnsBegin, OffsetOf, LengthOf, TextAddr, SegmentOf, Past,
               PastPart, PartOf
<1>4. SectionsInv' /\ SegmentsInv'
  BY <1>3 DEF EmitInv, SectionsInv, SegmentsInv, Describes, AddrOf
<1>5. PartsInv'
  BY <1>3 DEF EmitInv, PartsInv
<1> QED BY <1>1, <1>2, <1>4, <1>5 DEF EmitInv, HeapInv

(* What is invariant of the writer.                                        *)
THEOREM EmitInvariant == Spec => []EmitInv
<1>1. BothInit => EmitInv
  BY EmitInit DEF BothInit
<1>2. EmitInv /\ [BothNext]_all => EmitInv'
  BY EmitNext, EmitKept DEF BothNext, Writing, HandOver, Loading, all
<1> QED BY <1>1, <1>2, PTL DEF Spec

-----------------------------------------------------------------------------
(* The variables of the writer keep their types, and its buffers stay      *)
(* buffers whatever is reserved.                                           *)
THEOREM EmitTypeOK == Spec => []TypeOK
<1>1. EmitInv => TypeOK
  BY DEF EmitInv, TypeInv
<1> QED BY EmitInvariant, <1>1, PTL

(* As long as the whole file fits into half the range of a u32, no write   *)
(* of bfc overruns its buffer.                                             *)
THEOREM EmitNoOverrunBelowHalf == Spec => []NoOverrunBelowHalf
<1>1. EmitInv => NoOverrunBelowHalf
  BY DEF EmitInv
<1> QED BY EmitInvariant, <1>1, PTL

(* Whichever way main() of bfc returns, each of its buffers was freed.     *)
THEOREM EmitReleased == Spec => []Released
<1>1. EmitInv => Released
  BY DEF EmitInv, TypeInv, FreedInv, Released, Buffers, Past, Rank, O!Empty
<1> QED BY EmitInvariant, <1>1, PTL

(* The page sizes, and where they put the text.                            *)
PageAndText ==
  {<<1, 68608>>, <<2, 68608>>, <<4, 68608>>, <<8, 68608>>, <<16, 68608>>,
   <<32, 68608>>, <<64, 68608>>, <<128, 68608>>, <<256, 68608>>, <<512, 68608>>,
   <<1024, 68608>>, <<2048, 69632>>, <<4096, 69632>>, <<8192, 73728>>,
   <<16384, 81920>>, <<32768, 98304>>, <<65536, 131072>>}

LEMMA PageTable ==
  <<PageSize, TextAddr>> \in PageAndText /\ PageSize \in Nat /\ TextAddr \in Nat
<1> DEFINE Sizes == {1, 2, 4, 8, 16, 32, 64, 128, 256, 512, 1024, 2048, 4096, 8192,
                     16384, 32768, 65536}
<1>1. PageSize \in Sizes
  <2>1. {2^n : n \in 0..16} = Sizes
    OBVIOUS
  <2> HIDE DEF Sizes
  <2> QED BY <2>1, EmitPageAssumption
<1>2. \A p \in Sizes :
        <<p, ((65536 + 3 * 1024 + (p - 1)) \div p) * p>> \in PageAndText
  BY DEF PageAndText
<1>3. <<PageSize, TextAddr>> \in PageAndText
  BY <1>1, <1>2 DEF TextAddr, DataAddr, TapeSize
<1>4. \A p \in PageAndText : p[1] \in Nat /\ p[2] \in Nat
  BY DEF PageAndText
<1> QED BY <1>3, <1>4

(* In a finished file every header field was assigned, the headers say     *)
(* where their sections are, and the parts of the file lie apart.          *)
LEMMA Complete == EmitInv => FileComplete
<1> SUFFICES ASSUME EmitInv, phase = "free", mode = "elf"
             PROVE  /\ \A s \in DOMAIN segments : Assigned(segments[s])
                    /\ Assigned(ehdr)
                    /\ \A s \in DOMAIN sections :
                         /\ Assigned([sections[s] EXCEPT
                                        !.offset = IF s = "shstrtab" THEN 0 ELSE @])
                         /\ <<s, sections[s].name>> \in names
                    /\ \A s \in Tables \ {"shstrtab"} :
                         <<s, sections[s].offset, sections[s].size>> \in parts
                    /\ \A p \in parts :
                         /\ 468 <= p[2] /\ p[2] + p[3] <= heap["elf"].len
                         /\ \A q \in parts :
                              p # q => p[2] + p[3] <= q[2] \/ q[2] + q[3] <= p[2]
  BY DEF FileComplete
<1>1. heap.wrote = "ok" /\ heap["elf"].len = InsnsEnd + 143
  BY DEF EmitInv, TypeInv, LengthsInv, Lens
<1>2. \A p \in DOMAIN Rank : Past(p) \/ p \in {"free", "exited"}
  BY DEF Past, Rank
<1>3. /\ \A s \in SectionNames : Describes(sections[s], s) /\ <<s, NameAt[s]>> \in names
      /\ DOMAIN sections = SectionNames
  BY <1>1, <1>2 DEF EmitInv, TypeInv, SectionsInv, Rank, SectionNames, NameSize
<1>4. /\ size \in Nat /\ InsnsEnd = 468 + size /\ InsnsBegin = 468
      /\ TextAddr \in Nat /\ PageSize \in Nat
  <2>1. size \in Nat
    BY U32Properties DEF EmitInv, TypeInv, TypeOK
  <2> QED
    BY <2>1, PageTable DEF InsnsEnd, InsnsBegin, EhdrSize, PhdrSize, ShdrSize, Order
<1>5. \A s \in DOMAIN segments : Assigned(segments[s])
  <2>1. \A s \in {"data", "text", "attributes"} : segments[s] = SegmentOf[s]
    BY <1>1, <1>2 DEF EmitInv, SegmentsInv, SegmentOf, Rank
  <2>2. DOMAIN segments = {"data", "text", "attributes"}
    BY DEF EmitInv, TypeInv
  <2> QED BY <1>4, <2>1, <2>2 DEF SegmentOf, Assigned, DataAddr, TapeSize, Unset
<1>6. Assigned(ehdr)
  <2>1. ehdr = [entry |-> TextAddr, shstrndx |-> 6, phoff |-> 52, shoff |-> 148]
    BY <1>1, <1>2 DEF EmitInv, SegmentsInv, Rank
  <2> QED BY <1>4, <2>1 DEF Assigned, Unset
<1>7. ASSUME NEW s \in DOMAIN sections
      PROVE  /\ Assigned([sections[s] EXCEPT !.offset = IF s = "shstrtab" THEN 0 ELSE @])
             /\ <<s, sections[s].name>> \in names
  <2>1. Describes(sections[s], s) /\ <<s, NameAt[s]>> \in names
    BY <1>3
  <2>2. \A t \in SectionNames : /\ NameAt[t] \in Nat /\ OffsetOf[t] \in Nat
                                /\ LengthOf[t] \in Nat /\ AddrOf(t) \in Nat
    BY <1>4 DEF NameAt, OffsetOf, LengthOf, AddrOf, DataAddr, TapeSize, SectionNames,
                NameSize
  <2> DEFINE h == sections[s]
  <2>3. /\ h.name \in Nat /\ h.addr \in Nat /\ h.size \in Nat /\ h.link \in Nat
        /\ h.info \in Nat /\ h.type \in {"RELA", "OTHER"}
        /\ s # "shstrtab" => h.offset \in Nat
        /\ DOMAIN h = DOMAIN NoSection
    BY <1>3, <2>1, <2>2 DEF Describes
  <2> HIDE DEF h
  <2>4. Assigned([h EXCEPT !.offset = IF s = "shstrtab" THEN 0 ELSE @])
    BY <2>3 DEF Assigned, NoSection, Unset
  <2> QED BY <2>1, <2>4 DEF h, Describes
<1>8. parts = {PartOf(s) : s \in Tables}
  <2>1. \A s \in Tables : PastPart(s)
    BY <1>2 DEF PastPart, Tables, Rank
  <2> QED BY <1>1, <2>1 DEF EmitInv, PartsInv
<1>9. \A s \in Tables \ {"shstrtab"} :
        <<s, sections[s].offset, sections[s].size>> \in parts
  <2>1. \A s \in Tables \ {"shstrtab"} : s \in SectionNames
    BY DEF Tables, SectionNames, NameSize
  <2> TAKE s \in Tables \ {"shstrtab"}
  <2>2. Describes(sections[s], s)
    BY <1>3, <2>1
  <2>3. sections[s].offset = OffsetOf[s] /\ sections[s].size = LengthOf[s]
    BY <2>2 DEF Describes
  <2>4. PartOf(s) \in parts
    BY <1>8
  <2> QED BY <2>3, <2>4 DEF PartOf
<1>10. ASSUME NEW p \in parts
       PROVE  /\ 468 <= p[2] /\ p[2] + p[3] <= heap["elf"].len
              /\ \A q \in parts : p # q => p[2] + p[3] <= q[2] \/ q[2] + q[3] <= p[2]
  BY <1>1, <1>4, <1>8 DEF PartOf, Tables, OffsetOf, LengthOf
<1> QED BY <1>5, <1>6, <1>7, <1>9, <1>10

(* In a finished file every field of every header was assigned, but the    *)
(* offset of the section names; the headers describe what was copied, and  *)
(* the parts lie inside the file and apart from each other.                *)
THEOREM EmitFileComplete == Spec => []FileComplete
BY EmitInvariant, Complete, PTL

-----------------------------------------------------------------------------
(* The file as the loader reads it.                                        *)
Shdrs(f) ==
  /\ DOMAIN f.shdrs = 1..8 /\ Len(f.shdrs) = 8
  /\ \A i \in 1..8 : f.shdrs[i].type = (IF i = 4 THEN "RELA" ELSE "OTHER")
  /\ f.shdrs[2].addr = DataAddr /\ f.shdrs[3].addr = TextAddr
  /\ f.shdrs[4].info = 3 /\ f.shdrs[4].relas = RelaEntries

FileRead(f) ==
  /\ f = [ident |-> TRUE, machine |-> TRUE, entry |-> TextAddr, phentsize |-> 32,
          phdrs |-> <<SegmentOf["data"], SegmentOf["text"], SegmentOf["attributes"]>>,
          shdrs |-> f.shdrs]
  /\ Shdrs(f)

LEMMA SizeNat ==
  size \in CodeSizes =>
    /\ size \in Nat /\ size >= 20 /\ InsnsEnd = 468 + size /\ InsnsBegin = 468
    /\ PageSize \in Nat \ {0} /\ TextAddr \in Nat /\ TextAddr >= DataAddr + TapeSize
    /\ PageSize \in L!PowersOfTwo
<1>1. size \in CodeSizes => size \in Nat /\ size >= 20
  BY U32Properties
<1>2. \A q \in PageAndText : /\ q[1] \in Nat \ {0}
                             /\ q[2] \in Nat /\ q[2] >= DataAddr + TapeSize
  BY DEF PageAndText, DataAddr, TapeSize
<1>3. PageSize \in L!PowersOfTwo
  <2>1. \A n \in 0..16 : n \in 0..30
    OBVIOUS
  <2> QED BY <2>1, EmitPageAssumption, Zenon DEF L!PowersOfTwo
<1> QED
  BY <1>1, <1>2, <1>3, PageTable
  DEF InsnsEnd, InsnsBegin, EhdrSize, PhdrSize, ShdrSize, Order

LEMMA LenOf ==
  ASSUME NEW n \in Nat, NEW s, DOMAIN s = 1..n, s = [i \in 1..n |-> s[i]]
  PROVE  Len(s) = n
<1>1. s \in Seq({s[i] : i \in 1..n})
  BY SeqDef
<1>2. Len(s) \in Nat /\ DOMAIN s = 1..Len(s)
  BY <1>1, LenProperties
<1> QED BY <1>2

LEMMA RelaTable ==
  /\ RelaEntries \in Seq(L!Rela) /\ Len(RelaEntries) = 2
  /\ \A i \in 1..2 : RelaEntries[i] =
       [offset |-> 4 * (i - 1), shndx |-> 2, value |-> 0, type |-> "HI20", addend |-> 0]
<1>1. \A i \in 1..2 : RelaEntries[i] =
         [offset |-> 4 * (i - 1), shndx |-> 2, value |-> 0, type |-> "HI20",
          addend |-> 0]
  BY Indices DEF RelaEntries
<1>2. \A i \in 1..2 : RelaEntries[i] \in L!Rela
  BY <1>1 DEF L!Rela
<1>3. DOMAIN RelaEntries = 1..2 /\ RelaEntries = [i \in 1..2 |-> RelaEntries[i]]
  BY DEF RelaEntries
<1> HIDE DEF L!Rela
<1>4. RelaEntries \in [1..2 -> L!Rela]
  BY <1>2, <1>3
<1>5. RelaEntries \in Seq(L!Rela)
  BY <1>4, SeqDef
<1> QED BY <1>1, <1>3, <1>5, LenOf

LEMMA Finished ==
  ASSUME EmitInv, phase = "exited", mode = "elf"
  PROVE  FileRead(OnDisk) /\ OnDisk \in L!ElfFile /\ L!WellFormed(OnDisk)
<1>1. heap.wrote = "ok" /\ \A p \in DOMAIN Rank \ {"exited"} : Past(p)
  BY DEF EmitInv, TypeInv, Past, Rank
<1>2. \A s \in SectionNames : Describes(sections[s], s)
  BY <1>1 DEF EmitInv, SectionsInv, SectionNames, NameSize, Rank
<1>3. /\ \A s \in {"data", "text", "attributes"} : segments[s] = SegmentOf[s]
      /\ ehdr.entry = TextAddr
  BY <1>1 DEF EmitInv, SegmentsInv, SegmentOf, Rank
<1>4. /\ size \in Nat /\ size >= 20 /\ InsnsEnd = 468 + size /\ InsnsBegin = 468
      /\ PageSize \in Nat \ {0} /\ TextAddr \in Nat /\ TextAddr >= DataAddr + TapeSize
      /\ PageSize \in L!PowersOfTwo
  BY SizeNat DEF EmitInv, TypeInv, TypeOK
<1> DEFINE f == OnDisk
<1>5. /\ f.ident = TRUE /\ f.machine = TRUE /\ f.entry = TextAddr /\ f.phentsize = 32
      /\ f.phdrs = <<SegmentOf["data"], SegmentOf["text"], SegmentOf["attributes"]>>
      /\ f = [ident |-> f.ident, machine |-> f.machine, entry |-> f.entry,
              phentsize |-> f.phentsize, phdrs |-> f.phdrs, shdrs |-> f.shdrs]
  BY <1>3 DEF OnDisk, PhdrSize
<1>6. f.shdrs = [i \in 1..8 |-> Header(Order[i])]
  <2>1. Len(Order) = 8
    BY DEF Order
  <2> QED BY <2>1 DEF OnDisk
<1>7. DOMAIN f.shdrs = 1..8 /\ Len(f.shdrs) = 8
  BY <1>6, LenOf
<1>8. /\ RelaEntries \in Seq(L!Rela) /\ Len(RelaEntries) = 2
      /\ \A i \in 1..2 : RelaEntries[i] =
           [offset |-> 4 * (i - 1), shndx |-> 2, value |-> 0, type |-> "HI20",
            addend |-> 0]
  BY RelaTable
<1>9. \A i \in 1..8 :
        /\ Order[i] \in SectionNames
        /\ Order[i] = "rela" <=> i = 4
        /\ i = 2 => Order[i] = "data"
        /\ i = 3 => Order[i] = "text"
  BY DEF Order, SectionNames, NameSize
<1>10. ASSUME NEW i \in 1..8
       PROVE  /\ f.shdrs[i].type = (IF i = 4 THEN "RELA" ELSE "OTHER")
              /\ f.shdrs[i].addr = AddrOf(Order[i])
              /\ i = 4 => f.shdrs[i].info = 3
              /\ f.shdrs[i].info \in Nat
              /\ f.shdrs[i].relas = (IF i = 4 THEN RelaEntries ELSE <<>>)
              /\ f.shdrs[i] = [type |-> f.shdrs[i].type, addr |-> f.shdrs[i].addr,
                               info |-> f.shdrs[i].info, relas |-> f.shdrs[i].relas]
  <2> DEFINE h == sections[Order[i]]
  <2>1. /\ h.type = (IF i = 4 THEN "RELA" ELSE "OTHER")
        /\ h.addr = AddrOf(Order[i]) /\ h.info \in Nat
        /\ i = 4 => h.link = 4 /\ h.info = 2
    BY <1>2, <1>9 DEF Describes
  <2>2. f.shdrs[i] =
          [type |-> h.type, addr |-> h.addr, info |-> h.info + 1,
           relas |-> IF h.type = "RELA" /\ h.link = Ndx("symtab") THEN RelaEntries
                     ELSE <<>>]
    BY <1>6 DEF Header
  <2> HIDE DEF h, f
  <2> QED BY <2>1, <2>2, Indices
<1> HIDE DEF f
<1>11. FileRead(f)
  BY <1>5, <1>7, <1>9, <1>10 DEF FileRead, Shdrs, AddrOf
<1>12. f \in L!ElfFile
  <2>1. \A i \in 1..8 : f.shdrs[i] \in L!Shdr
    <3> TAKE i \in 1..8
    <3>1. f.shdrs[i].relas \in Seq(L!Rela)
      <4>1. f.shdrs[i].relas = RelaEntries \/ f.shdrs[i].relas = <<>>
        BY <1>10
      <4>2. <<>> \in Seq(L!Rela)
        OBVIOUS
      <4> QED BY <1>8, <4>1, <4>2, Zenon
    <3>2. f.shdrs[i].addr \in Nat /\ f.shdrs[i].info \in Nat
      <4>1. AddrOf(Order[i]) \in Nat
        BY <1>4 DEF AddrOf, DataAddr
      <4> QED BY <1>10, <4>1, Zenon
    <3> QED BY <1>10, <3>1, <3>2 DEF L!Shdr
  <2>2. f.shdrs = [i \in 1..8 |-> f.shdrs[i]]
    BY <1>6 DEF f
  <2>3. f.shdrs \in Seq(L!Shdr)
    BY <2>1, <2>2, SeqDef
  <2>4. \A s \in {"data", "text", "attributes"} : SegmentOf[s] \in L!Phdr
    BY <1>4 DEF SegmentOf, L!Phdr, L!Flags, DataAddr, TapeSize
  <2>5. f.phdrs \in Seq(L!Phdr)
    BY <1>5, <2>4
  <2>6. /\ f.ident \in BOOLEAN /\ f.machine \in BOOLEAN
        /\ f.entry \in Nat /\ f.phentsize \in Nat
    <3>1. f.ident = TRUE /\ f.machine = TRUE
      BY <1>5, Zenon
    <3>2. f.ident \in BOOLEAN /\ f.machine \in BOOLEAN
      BY <3>1, Zenon
    <3>3. f.entry = TextAddr /\ f.phentsize = 32
      BY <1>5, Zenon
    <3> QED BY <1>4, <3>2, <3>3
  <2>7. f = [ident |-> f.ident, machine |-> f.machine, entry |-> f.entry,
             phentsize |-> f.phentsize, phdrs |-> f.phdrs, shdrs |-> f.shdrs]
    BY <1>5
  <2> HIDE DEF L!Shdr, L!Phdr
  <2> QED BY <2>3, <2>5, <2>6, <2>7 DEF L!ElfFile
<1>13. L!WellFormed(f)
  <2>1. /\ Len(f.phdrs) = 3 /\ f.phdrs[1] = SegmentOf["data"]
        /\ f.phdrs[2] = SegmentOf["text"] /\ f.phdrs[3] = SegmentOf["attributes"]
    BY <1>5
  <2>2. \A i \in L!Loadable(f) : i = 1 \/ i = 2
    BY <2>1 DEF L!Loadable, SegmentOf
  <2>3. \A i \in L!Loadable(f) : /\ f.phdrs[i].filesz <= f.phdrs[i].memsz
                                 /\ f.phdrs[i].align = PageSize
    BY <1>4, <2>1, <2>2 DEF SegmentOf, TapeSize
  <2>4. f.phdrs[1].vaddr + f.phdrs[1].memsz <= f.phdrs[2].vaddr
    BY <1>4, <2>1 DEF SegmentOf
  <2>5. \A i, j \in L!Loadable(f) :
          i < j => f.phdrs[i].vaddr + f.phdrs[i].memsz <= f.phdrs[j].vaddr
    BY <2>2, <2>4
  <2>6. \A i \in 1..Len(f.shdrs) : f.shdrs[i].type = "RELA" =>
          /\ f.shdrs[i].info \in 1..Len(f.shdrs)
          /\ \A n \in 1..Len(f.shdrs[i].relas) :
               f.shdrs[i].relas[n].shndx \in 1..Len(f.shdrs)
    <3>1. \A i \in 1..Len(f.shdrs) : f.shdrs[i].type = "RELA" => i = 4
      BY <1>7, <1>10
    <3>2. f.shdrs[4].info = 3 /\ f.shdrs[4].relas = RelaEntries
      BY <1>10
    <3>3. \A n \in 1..2 : RelaEntries[n].shndx = 2
      BY <1>8
    <3>4. Len(RelaEntries) = 2 /\ Len(f.shdrs) = 8
      BY <1>7, <1>8
    <3> QED BY <3>1, <3>2, <3>3, <3>4
  <2> QED BY <1>4, <2>3, <2>5, <2>6 DEF L!WellFormed
<1> QED BY <1>11, <1>12, <1>13 DEF f

-----------------------------------------------------------------------------
(* The loader on this file, one step at a time.                            *)
LEMMA Fixed ==
  ASSUME UNCHANGED emission
  PROVE  /\ UNCHANGED <<TextOff, FullLen, PageNos, InsnsBegin, SegmentOf, Collected,
                        OnDisk, phase, mode, size>>
         /\ \A n : ImageAfter(n)' = ImageAfter(n) /\ ProtAfter(n)' = ProtAfter(n)
<1>1. UNCHANGED <<mode, phase, size, sections, segments, ehdr>>
  BY DEF emission
<1>2. UNCHANGED <<TextAddr, InsnsBegin, InsnsEnd>>
  BY <1>1, Zenon DEF TextAddr, InsnsBegin, InsnsEnd
<1>3. UNCHANGED <<TextOff, FullLen, SegmentOf>>
  BY <1>1, <1>2, Zenon DEF TextOff, FullLen, SegmentOf
<1>4. UNCHANGED <<PageNos, Collected>>
  BY <1>3, Zenon DEF PageNos, Collected
<1>5. UNCHANGED OnDisk
  <2>1. \A s : Header(s)' = Header(s)
    BY <1>1, Zenon DEF Header
  <2> QED BY <1>1, <2>1, Zenon DEF OnDisk
<1>6. \A n : ImageAfter(n)' = ImageAfter(n) /\ ProtAfter(n)' = ProtAfter(n)
  BY <1>2, <1>3, <1>4, Zenon DEF ImageAfter, ProtAfter
<1> QED BY <1>1, <1>2, <1>3, <1>4, <1>5, <1>6

(* Where the text goes in the image: as far from the data as it is in      *)
(* memory, at the beginning of a page.                                     *)
LEMMA TextOffset ==
  /\ TextOff \in Nat /\ TapeSize <= TextOff /\ TextOff % PageSize = 0
  /\ PageSize \in Nat \ {0}
  /\ LET gap   == TextOff - TapeSize
         after == IF TapeSize < gap THEN TapeSize + (gap - TapeSize) ELSE TapeSize
         start == IF PageSize >= 2 THEN L!AlignUp(after, PageSize) ELSE after
     IN L!AlignUp(start, PageSize) = TextOff
<1>1. \A q \in PageAndText :
        /\ q[2] - 65536 \in Nat /\ 3072 <= q[2] - 65536
        /\ (q[2] - 65536) % q[1] = 0 /\ q[1] \in Nat \ {0}
  BY DEF PageAndText
<1>2. \A q \in PageAndText :
        LET gap   == q[2] - 65536 - 3072
            after == IF 3072 < gap THEN 3072 + (gap - 3072) ELSE 3072
            start == IF q[1] >= 2 THEN ((after + (q[1] - 1)) \div q[1]) * q[1]
                     ELSE after
        IN ((start + (q[1] - 1)) \div q[1]) * q[1] = q[2] - 65536
  BY DEF PageAndText
<1> DEFINE q == <<PageSize, TextAddr>>
<1>3. q \in PageAndText
  BY PageTable
<1>4. q[1] = PageSize /\ q[2] - 65536 = TextOff /\ TapeSize = 3072
  BY DEF TextOff, DataAddr, TapeSize
<1> HIDE DEF q
<1> QED BY <1>1, <1>2, <1>3, <1>4 DEF L!AlignUp

(* A page that begins before the end of the tape ends before the text.     *)
LEMMA TapePages ==
  \A p \in Nat : p * PageSize < TapeSize => ~(TextOff < (p + 1) * PageSize)
<1>1. \A q \in PageAndText : \A p \in Nat :
        p * q[1] < 3072 => ~(q[2] - 65536 < (p + 1) * q[1])
  BY DEF PageAndText
<1> DEFINE q == <<PageSize, TextAddr>>
<1>2. q \in PageAndText
  BY PageTable
<1>3. q[1] = PageSize /\ q[2] - 65536 = TextOff /\ TapeSize = 3072
  BY DEF TextOff, DataAddr, TapeSize
<1> HIDE DEF q
<1> QED BY <1>1, <1>2, <1>3

(* Whenever the loader runs, and runs alone.                               *)
Handed == EmitInv /\ LoadInv /\ stage # "idle" /\ UNCHANGED emission

LEMMA HandedFacts ==
  ASSUME Handed
  PROVE  /\ FileRead(elf)
         /\ size \in Nat /\ size >= 20 /\ InsnsBegin = 468
         /\ InsnsEnd = 468 + size
         /\ elf' = elf => HandedOver'
         /\ Len(elf.phdrs) = 3 /\ elf.phdrs[1] = SegmentOf["data"]
         /\ elf.phdrs[2] = SegmentOf["text"]
         /\ elf.phdrs[3] = SegmentOf["attributes"]
         /\ Len(Collected) = 2 /\ Collected[1] = SegmentOf["data"]
         /\ Collected[2] = SegmentOf["text"]
<1>1. FileRead(elf)
  BY Finished DEF Handed, LoadInv, HandedOver
<1>2. elf' = elf => HandedOver'
  BY Fixed DEF Handed, LoadInv, HandedOver
<1>3. size \in Nat /\ size >= 20 /\ InsnsBegin = 468 /\ InsnsEnd = 468 + size
  BY SizeNat DEF Handed, EmitInv, TypeInv, TypeOK
<1>4. elf.phdrs = <<SegmentOf["data"], SegmentOf["text"], SegmentOf["attributes"]>>
  BY <1>1 DEF FileRead
<1> QED BY <1>1, <1>2, <1>3, <1>4 DEF Collected

(* The steps that neither scan, lay out nor map anything.                  *)
LEMMA LoadKept ==
  ASSUME Handed, UNCHANGED <<elf, found, segms, offs, next, pages, image, patched, prot, exe>>,
         \/ stage' \in {"clean_mapped_exe", "clean_pages_list", "clean_segments_list",
                       "clean_mapped", "clean_none"}
            /\ (Mapping(stage) => ~exe.mem)
         \/ stage = "open" /\ stage' = "ident" /\ UNCHANGED k
         \/ stage = "ident" /\ stage' = "scan" /\ UNCHANGED k
         \/ stage = "copy" /\ stage' = "reloc" /\ k = 3 /\ k' = 1 /\ r' = 1
         \/ stage = "reloc" /\ stage' = "reloc" /\ k' \in Nat \ {0} /\ r' \in Nat \ {0}
         \/ stage = "reloc" /\ stage' = "protect" /\ k' = 1
  PROVE  LoadInv'
<1>1. HandedOver'
  BY HandedFacts
<1>2. ScanInv'
  BY Fixed DEF Handed, LoadInv, ScanInv
<1>3. LaidOut'
  BY Fixed DEF Handed, LoadInv, LaidOut, Mapping, Page
<1>4. Copied'
  BY Fixed DEF Handed, LoadInv, Copied, ExeInv, Mapping, BeforeMap
<1>5. ExeInv'
  BY DEF Handed, LoadInv, ExeInv, Mapping, BeforeMap
<1> QED BY <1>1, <1>2, <1>3, <1>4, <1>5 DEF LoadInv

LEMMA Appends ==
  ASSUME NEW x, NEW y
  PROVE  Append(<<>>, x) = <<x>> /\ Append(<<x>>, y) = <<x, y>>
<1> DEFINE S == {x, y}
<1>1. <<>> \in Seq(S) /\ <<x>> \in Seq(S) /\ <<x, y>> \in Seq(S)
  OBVIOUS
<1>2. x \in S /\ y \in S
  OBVIOUS
<1> HIDE DEF S
<1>3. Append(<<>>, x) = <<x>>
  <2>1. Append(<<>>, x) \in Seq(S) /\ Len(Append(<<>>, x)) = 1
    BY <1>1, <1>2, AppendProperties
  <2>2. Append(<<>>, x)[1] = x
    BY <1>1, <1>2, AppendProperties
  <2> QED BY <1>1, <2>1, <2>2, SeqEqual
<1>4. Append(<<x>>, y) = <<x, y>>
  <2>1. /\ Append(<<x>>, y) \in Seq(S) /\ Len(Append(<<x>>, y)) = 2
        /\ Append(<<x>>, y)[1] = x /\ Append(<<x>>, y)[2] = y
    BY <1>1, <1>2, AppendProperties
  <2> DEFINE s == Append(<<x>>, y)
             t == <<x, y>>
  <2>2. /\ s \in Seq(S) /\ t \in Seq(S) /\ Len(s) = 2 /\ Len(t) = 2
        /\ s[1] = x /\ s[2] = y /\ t[1] = x /\ t[2] = y
    BY <1>1, <2>1
  <2> HIDE DEF s, t
  <2>3. s = t
    <3>1. \A i \in 1..2 : i = 1 \/ i = 2
      OBVIOUS
    <3>2. \A i \in 1..Len(s) : s[i] = t[i]
      BY <2>2, <3>1
    <3> QED BY <2>2, <3>2, SeqEqual
  <2> QED BY <2>3 DEF s, t
<1> QED BY <1>3, <1>4

LEMMA LoadScan == Handed /\ L!ScanHeader => LoadInv' /\ stage' = "scan"
<1> SUFFICES ASSUME Handed, L!ScanHeader PROVE LoadInv' /\ stage' = "scan"
  OBVIOUS
<1>1. /\ stage = "scan" /\ k \in 1..3 /\ k' = k + 1
      /\ UNCHANGED <<elf, offs, next, pages, image, patched, prot, exe>>
  BY HandedFacts DEF L!ScanHeader, L!imageVars, Handed, LoadInv, ScanInv
<1> DEFINE ph == elf.phdrs[k]
<1>2. /\ segms' = IF ph.type = "LOAD" THEN Append(segms, ph) ELSE segms
      /\ found' = (found \/ (ph.type = "LOAD" /\ {"R", "X"} \subseteq ph.flags))
      /\ ph.type # "INTERP" => stage' = stage
  BY DEF L!ScanHeader
<1>3. /\ k = 1 => ph = SegmentOf["data"]
      /\ k = 2 => ph = SegmentOf["text"]
      /\ k = 3 => ph = SegmentOf["attributes"]
  BY HandedFacts
<1> HIDE DEF ph
<1>4. /\ k \in {1, 2} => ph.type = "LOAD"
      /\ k = 3 => ph.type = "OTHER"
      /\ k = 1 => ph.flags = {"R", "W"}
      /\ k = 2 => ph.flags = {"R", "X"}
  BY <1>1, <1>3 DEF SegmentOf
<1>5. stage' = "scan"
  BY <1>1, <1>2, <1>4
<1>6. k' > 2 => found'
  <2>1. CASE k = 1
    BY <1>1, <2>1
  <2>2. CASE k = 2
    <3>1. ph.type = "LOAD" /\ {"R", "X"} \subseteq ph.flags
      BY <1>4, <2>2
    <3> QED BY <1>2, <3>1, Zenon
  <2>3. CASE k = 3
    <3>1. found
      BY <1>1, <2>3 DEF Handed, LoadInv, ScanInv
    <3> QED BY <1>2, <3>1, Zenon
  <2> QED BY <1>1, <2>1, <2>2, <2>3
<1>7. /\ k = 1 => segms' = <<SegmentOf["data"]>>
      /\ k = 2 => segms' = Collected
      /\ k = 3 => segms' = Collected
  <2>1. /\ k = 1 => segms = <<>>
        /\ k = 2 => segms = <<SegmentOf["data"]>>
        /\ k = 3 => segms = Collected
    BY <1>1 DEF Handed, LoadInv, ScanInv
  <2>2. /\ Append(<<>>, SegmentOf["data"]) = <<SegmentOf["data"]>>
        /\ Append(<<SegmentOf["data"]>>, SegmentOf["text"]) = Collected
    BY Appends DEF Collected
  <2>3. /\ k = 1 => segms' = Append(segms, ph)
        /\ k = 2 => segms' = Append(segms, ph)
        /\ k = 3 => segms' = segms
    BY <1>1, <1>2, <1>4
  <2> QED BY <1>3, <2>1, <2>2, <2>3, Zenon
<1>8. ScanInv'
  BY <1>1, <1>5, <1>6, <1>7, Fixed DEF ScanInv, Handed
<1>9. HandedOver'
  BY <1>1, HandedFacts
<1>10. LaidOut' /\ Copied' /\ ExeInv'
  BY <1>1, <1>5 DEF Handed, LoadInv, LaidOut, Copied, ExeInv, Mapping, BeforeMap
<1> QED BY <1>5, <1>8, <1>9, <1>10 DEF LoadInv

LEMMA LoadEndScan ==
  Handed /\ L!EndScan => LoadInv' /\ stage' = "layout"
<1> SUFFICES ASSUME Handed, L!EndScan PROVE LoadInv' /\ stage' = "layout"
  OBVIOUS
<1>1. /\ stage = "scan" /\ k = 4 /\ segms = Collected /\ found
      /\ UNCHANGED <<elf, segms, found, image, patched, prot, exe>>
  BY HandedFacts DEF L!EndScan, L!imageVars, Handed, LoadInv, ScanInv
<1>2. /\ L!Segment(1).align = PageSize /\ L!Segment(1).memsz = TapeSize
      /\ L!Segment(1).flags = {"R", "W"}
  BY <1>1, HandedFacts DEF L!Segment, SegmentOf
<1>3. ~(L!Segment(1).align > PageSize)
  BY <1>2, TextOffset
<1>4. /\ stage' = "layout" /\ k' = 2 /\ next' = TapeSize /\ offs' = <<0>>
      /\ pages' = <<Page(0, Unset, {"R", "W"})>>
  BY <1>1, <1>2, <1>3 DEF L!EndScan, Page, Unset, L!Unset
<1>5. HandedOver' /\ ScanInv'
  BY <1>1, <1>4, HandedFacts DEF ScanInv
<1>6. LaidOut'
  BY <1>1, <1>4, Fixed
  DEF Handed, LoadInv, ExeInv, LaidOut, Mapping, BeforeMap, Page, Unset, TapeSize
<1>7. Copied' /\ ExeInv'
  BY <1>1, <1>4 DEF Handed, LoadInv, Copied, ExeInv, Mapping, BeforeMap
<1> QED BY <1>4, <1>5, <1>6, <1>7 DEF LoadInv

LEMMA LoadLayout == Handed /\ L!LayoutSegment => LoadInv'
<1> SUFFICES ASSUME Handed, L!LayoutSegment PROVE LoadInv'
  OBVIOUS
<1>1. /\ stage = "layout" /\ stage' = stage /\ k' = k + 1
      /\ UNCHANGED <<elf, segms, found, image, patched, prot>>
      /\ ~exe.mem
  BY DEF L!LayoutSegment, L!imageVars, Handed, LoadInv, ExeInv, BeforeMap
<1>2. /\ segms = Collected /\ k = 2 /\ offs = <<0>> /\ next = TapeSize
      /\ pages = <<Page(0, Unset, {"R", "W"})>>
  <2>1. k <= Len(segms) /\ segms = Collected /\ k \in {2, 3}
    BY <1>1 DEF L!LayoutSegment, Handed, LoadInv, LaidOut
  <2>2. k = 2
    <3>1. Len(segms) = 2
      BY <2>1, HandedFacts
    <3>2. \A i \in {2, 3} : i <= 2 => i = 2
      OBVIOUS
    <3> QED BY <2>1, <3>1, <3>2
  <2> QED BY <1>1, <2>1, <2>2 DEF Handed, LoadInv, LaidOut
<1>3. /\ L!Segment(1) = SegmentOf["data"] /\ L!Segment(2) = SegmentOf["text"]
      /\ offs[1] = 0 /\ Len(pages) = 1 /\ pages[1] = Page(0, Unset, {"R", "W"})
  BY <1>2, HandedFacts DEF L!Segment
<1>4. /\ TextOff \in Nat /\ TapeSize \in Nat /\ TapeSize <= TextOff
      /\ L!Gap(2) = TextOff - TapeSize /\ L!CurrDistance(2) = TapeSize
      /\ L!Segment(2).align = PageSize /\ L!Segment(2).memsz = size
      /\ L!NewPage(2)
  <2>1. TextAddr \in Nat /\ DataAddr = 65536 /\ TapeSize = 3072
    BY PageTable DEF DataAddr, TapeSize
  <2>2. L!Gap(2) = TextAddr - DataAddr - TapeSize
    BY <1>3 DEF L!Gap, SegmentOf
  <2>3. L!CurrDistance(2) = TapeSize
    BY <1>2, <1>3, <2>1 DEF L!CurrDistance
  <2>4. L!NewPage(2)
    BY <1>3 DEF L!NewPage, L!LastPage, Page, SegmentOf
  <2> QED BY <1>3, <2>1, <2>2, <2>3, <2>4, TextOffset DEF TextOff, SegmentOf
<1>5. L!SegmentOffset(2) = TextOff
  <2>1. L!AfterGap(2) = IF TapeSize < TextOff - TapeSize
                        THEN TapeSize + (TextOff - TapeSize - TapeSize) ELSE TapeSize
    BY <1>2, <1>4 DEF L!AfterGap
  <2>2. L!Aligned(2) = IF PageSize >= 2 THEN L!AlignUp(L!AfterGap(2), PageSize)
                       ELSE L!AfterGap(2)
    BY <1>4 DEF L!Aligned
  <2> QED BY <1>4, <2>1, <2>2, TextOffset DEF L!SegmentOffset
<1>6. /\ offs' = <<0, TextOff>> /\ next' = FullLen
      /\ pages' = <<Page(0, TextOff, {"R", "W"}), Page(TextOff, Unset, {"R", "X"})>>
  <2>1. offs' = Append(offs, TextOff)
    BY <1>2, <1>5 DEF L!LayoutSegment
  <2>2. next' = FullLen
    BY <1>2, <1>4, <1>5 DEF L!LayoutSegment, FullLen
  <2>3. L!SetPageEnd(TextOff) = <<Page(0, TextOff, {"R", "W"})>>
    <3> DEFINE pg == pages[1]
    <3>1. L!SetPageEnd(TextOff) = [pages EXCEPT ![1].size = TextOff - pg.offset]
      BY <1>3 DEF L!SetPageEnd, L!LastPage
    <3>2. pages = <<pg>> /\ pg = [offset |-> 0, size |-> Unset, flags |-> {"R", "W"}]
      BY <1>2 DEF Page
    <3>3. TextOff - pg.offset = TextOff
      BY <1>4, <3>2
    <3> HIDE DEF pg
    <3>4. [pages EXCEPT ![1].size = TextOff] = <<[pg EXCEPT !.size = TextOff]>>
      BY <3>2
    <3>5. [pg EXCEPT !.size = TextOff] = Page(0, TextOff, {"R", "W"})
      BY <3>2 DEF Page
    <3> QED BY <3>1, <3>3, <3>4, <3>5
  <2>4. pages' = Append(L!SetPageEnd(TextOff), Page(TextOff, Unset, {"R", "X"}))
    <3>1. L!Segment(2).flags = {"R", "X"} /\ L!NewPage(2)
      BY <1>3, <1>4 DEF SegmentOf
    <3>2. pages' = Append(L!SetPageEnd(TextOff), [offset |-> TextOff, size |-> L!Unset,
                                                 flags |-> L!Segment(2).flags])
      BY <1>2, <1>5, <3>1, Zenon DEF L!LayoutSegment
    <3> QED BY <3>1, <3>2, Zenon DEF Page, Unset, L!Unset
  <2> QED BY <1>2, <2>1, <2>2, <2>3, <2>4, Appends
<1>7. HandedOver' /\ ScanInv'
  BY <1>1, HandedFacts DEF ScanInv
<1>8. /\ exe'.mem = exe.mem
      /\ exe' = [mem |-> exe'.mem, mem_count |-> exe'.mem_count,
                 entrypoint |-> exe'.entrypoint]
  <2>1. exe = [mem |-> exe.mem, mem_count |-> exe.mem_count, entrypoint |-> exe.entrypoint]
    BY DEF Handed, LoadInv, ExeInv
  <2>2. exe' = exe \/ exe' = [exe EXCEPT !.entrypoint =
                               (elf.entry - L!Segment(2).vaddr) + TextOff]
    BY <1>2, <1>5 DEF L!LayoutSegment
  <2> QED BY <2>1, <2>2
<1>9. LaidOut'
  BY <1>1, <1>2, <1>6, <1>8, Fixed DEF Handed, LaidOut, Mapping, Page
<1>10. Copied' /\ ExeInv'
  BY <1>1, <1>8 DEF Handed, LoadInv, Copied, ExeInv, Mapping, BeforeMap
<1> QED BY <1>7, <1>9, <1>10 DEF LoadInv

LEMMA LoadEndLayout == Handed /\ L!EndLayout => LoadInv'
<1> SUFFICES ASSUME Handed, L!EndLayout PROVE LoadInv'
  OBVIOUS
<1>1. /\ stage = "layout" /\ stage' = "map" /\ ~exe.mem
      /\ UNCHANGED <<elf, k, segms, offs, next, found, image, patched, prot, exe>>
  BY DEF L!EndLayout, L!imageVars, Handed, LoadInv, ExeInv, BeforeMap
<1>2. /\ segms = Collected /\ offs = <<0, TextOff>> /\ next = FullLen
      /\ pages = <<Page(0, TextOff, {"R", "W"}), Page(TextOff, Unset, {"R", "X"})>>
  BY <1>1, HandedFacts DEF L!EndLayout, Handed, LoadInv, LaidOut
<1>3. pages' = <<Page(0, TextOff, {"R", "W"}), Page(TextOff, size, {"R", "X"})>>
  <2>1. pages' = [pages EXCEPT ![2].size = FullLen - pages[2].offset]
    BY <1>2 DEF L!EndLayout, L!SetPageEnd, L!LastPage
  <2>2. FullLen - TextOff = size
    BY HandedFacts, TextOffset DEF FullLen
  <2> QED BY <1>2, <2>1, <2>2 DEF Page
<1>4. HandedOver' /\ ScanInv'
  BY <1>1, HandedFacts DEF ScanInv
<1>5. LaidOut'
  BY <1>1, <1>2, <1>3, Fixed DEF Handed, LaidOut, Mapping, Page
<1>6. Copied' /\ ExeInv'
  BY <1>1 DEF Handed, LoadInv, Copied, ExeInv, Mapping, BeforeMap
<1> QED BY <1>4, <1>5, <1>6 DEF LoadInv

(* Past the layout.                                                        *)
LEMMA LaidFacts ==
  ASSUME Handed, Mapping(stage)
  PROVE  /\ segms = Collected /\ offs = <<0, TextOff>> /\ next = FullLen
         /\ pages = <<Page(0, TextOff, {"R", "W"}), Page(TextOff, size, {"R", "X"})>>
         /\ Len(segms) = 2 /\ Len(pages) = 2 /\ ~exe.mem
         /\ TextOff \in Nat /\ FullLen \in Nat /\ FullLen = TextOff + size /\ FullLen > 0
<1>1. /\ segms = Collected /\ offs = <<0, TextOff>> /\ next = FullLen
      /\ pages = <<Page(0, TextOff, {"R", "W"}), Page(TextOff, size, {"R", "X"})>>
      /\ ~exe.mem
  BY DEF Handed, LoadInv, LaidOut, ExeInv
<1>2. TextOff \in Nat /\ FullLen \in Nat /\ FullLen = TextOff + size /\ FullLen > 0
  BY TextOffset, HandedFacts DEF FullLen
<1>3. Len(segms) = 2
  BY <1>1, HandedFacts
<1>4. Len(pages) = 2
  BY <1>1
<1> QED BY <1>1, <1>2, <1>3, <1>4

LEMMA LoadMap == Handed /\ L!MapImage => LoadInv'
<1> SUFFICES ASSUME Handed, L!MapImage PROVE LoadInv'
  OBVIOUS
<1>1. /\ stage = "map" /\ Mapping(stage) /\ UNCHANGED <<elf, patched, exe>>
      /\ UNCHANGED <<segms, found, offs, next, pages>>
  BY DEF L!MapImage, L!layoutVars, Mapping
<1>2. CASE stage' = "clean_pages_list" /\ UNCHANGED <<image, prot, k>>
  BY <1>1, <1>2, LaidFacts, LoadKept DEF Mapping
<1>3. CASE /\ image' = [o \in 0..(L!FullSize - 1) |-> L!Zero]
           /\ prot' = [p \in 0..((L!FullSize - 1) \div PageSize) |-> {"R", "W"}]
           /\ stage' = "copy" /\ k' = 1
  <2>1. L!FullSize = FullLen
    BY <1>1, LaidFacts DEF L!FullSize
  <2>2. image' = ImageAfter(0)
    BY <1>3, <2>1 DEF ImageAfter
  <2>3. prot' = ProtAfter(0)
    BY <1>3, <2>1 DEF ProtAfter, PageNos
  <2>4. Copied'
    BY <1>1, <1>3, <2>2, <2>3, Fixed, LaidFacts DEF Handed, LoadInv, Copied
  <2>5. HandedOver' /\ ScanInv'
    BY <1>1, <1>3, HandedFacts DEF ScanInv
  <2>6. LaidOut' /\ ExeInv'
    BY <1>1, <1>3, LaidFacts, Fixed
    DEF Handed, LoadInv, LaidOut, ExeInv, Mapping, BeforeMap, Page
  <2> QED BY <2>4, <2>5, <2>6 DEF LoadInv
<1> QED BY <1>2, <1>3 DEF L!MapImage

LEMMA LoadCopy == Handed /\ L!CopySegment => LoadInv'
<1> SUFFICES ASSUME Handed, L!CopySegment PROVE LoadInv'
  OBVIOUS
<1>1. /\ stage = "copy" /\ stage' = stage /\ k' = k + 1 /\ Mapping(stage)
      /\ UNCHANGED <<elf, segms, found, offs, next, pages, patched, prot, exe>>
  BY DEF L!CopySegment, L!layoutVars, Mapping
<1>2. k \in 1..2
  <2>1. k <= Len(segms) /\ k \in 1..3
    BY <1>1 DEF L!CopySegment, Handed, LoadInv, Copied
  <2>2. Len(segms) = 2
    BY <1>1, LaidFacts
  <2>3. \A i \in 1..3 : i <= 2 => i \in 1..2
    OBVIOUS
  <2> QED BY <2>1, <2>2, <2>3
<1>3. /\ L!Segment(1) = SegmentOf["data"] /\ L!Segment(2) = SegmentOf["text"]
      /\ offs[1] = 0 /\ offs[2] = TextOff
  BY <1>1, LaidFacts, HandedFacts DEF L!Segment
<1> DEFINE ph == L!Segment(k)
           InFile == offs[k]..(offs[k] + ph.filesz - 1)
           Rest == (offs[k] + ph.filesz)..(offs[k] + ph.memsz - 1)
<1>4. image' = [o \in DOMAIN image |->
                  IF o \in InFile THEN ph.offset + (o - offs[k])
                  ELSE IF o \in Rest THEN L!Zero ELSE image[o]]
  BY DEF L!CopySegment
<1>5. /\ TextOff \in Nat /\ FullLen = TextOff + size /\ size \in Nat
      /\ TapeSize = 3072 /\ TapeSize <= TextOff /\ InsnsBegin = 468
  BY <1>1, LaidFacts, HandedFacts, TextOffset DEF TapeSize
<1>6. CASE k = 1
  <2>1. image = ImageAfter(0)
    BY <1>1, <1>6 DEF Handed, LoadInv, Copied
  <2>2. /\ \A o : o \notin InFile
        /\ DOMAIN image = 0..(FullLen - 1)
        /\ \A o \in 0..(FullLen - 1) : image[o] = L!Zero
    BY <1>3, <1>6, <2>1 DEF SegmentOf, ImageAfter
  <2> HIDE DEF InFile, Rest
  <2>3. image' = [o \in 0..(FullLen - 1) |-> L!Zero]
    BY <1>4, <2>2
  <2>4. image' = ImageAfter(1)
    BY <2>3 DEF ImageAfter
  <2>5. Copied'
    BY <1>1, <1>6, <2>4, Fixed, LaidFacts DEF Handed, LoadInv, Copied
  <2>6. HandedOver' /\ ScanInv' /\ LaidOut' /\ ExeInv'
    BY <1>1, HandedFacts, LaidFacts, Fixed
    DEF ScanInv, Handed, LoadInv, LaidOut, ExeInv, Mapping, BeforeMap, Page
  <2> QED BY <2>5, <2>6 DEF LoadInv
<1>7. CASE k = 2
  <2>1. image = ImageAfter(1)
    BY <1>1, <1>7 DEF Handed, LoadInv, Copied
  <2>2. /\ InFile = TextOff..(TextOff + size - 1)
        /\ \A o : o \notin Rest
        /\ ph.offset = InsnsBegin /\ offs[k] = TextOff
    BY <1>3, <1>5, <1>7 DEF SegmentOf
  <2>3. /\ DOMAIN image = 0..(FullLen - 1)
        /\ \A o \in 0..(FullLen - 1) : image[o] = L!Zero
    BY <2>1 DEF ImageAfter
  <2> HIDE DEF InFile, Rest, ph
  <2>4. image' = [o \in 0..(FullLen - 1) |->
                    IF o \in InFile THEN InsnsBegin + (o - TextOff) ELSE L!Zero]
    BY <1>4, <2>2, <2>3
  <2>5. \A o \in 0..(FullLen - 1) : o \in InFile <=> TextOff <= o
    BY <1>5, <2>2
  <2>6. image' = ImageAfter(2)
    BY <2>4, <2>5 DEF ImageAfter
  <2>7. Copied'
    BY <1>1, <1>7, <2>6, Fixed, LaidFacts DEF Handed, LoadInv, Copied
  <2>8. HandedOver' /\ ScanInv' /\ LaidOut' /\ ExeInv'
    BY <1>1, HandedFacts, LaidFacts, Fixed
    DEF ScanInv, Handed, LoadInv, LaidOut, ExeInv, Mapping, BeforeMap, Page
  <2> QED BY <2>7, <2>8 DEF LoadInv
<1> QED BY <1>2, <1>6, <1>7

LEMMA LoadProtect == Handed /\ L!ProtectPage => LoadInv'
<1> SUFFICES ASSUME Handed, L!ProtectPage PROVE LoadInv'
  OBVIOUS
<1>1. /\ stage = "protect" /\ Mapping(stage)
      /\ UNCHANGED <<elf, segms, found, offs, next, pages, image, patched, exe>>
  BY DEF L!ProtectPage, L!layoutVars, Mapping
<1>2. CASE stage' = "clean_mapped_exe" /\ UNCHANGED <<k, prot>>
  BY <1>1, <1>2, LaidFacts, LoadKept DEF Mapping
<1>3. CASE /\ prot' = [p \in DOMAIN prot |->
                         IF p \in L!PagesOf(pages[k].offset, pages[k].size)
                         THEN pages[k].flags ELSE prot[p]]
           /\ k' = k + 1 /\ stage' = stage
  <2>1. k \in 1..2 /\ image = ImageAfter(2)
    <3>1. k <= Len(pages) /\ k \in 1..3 /\ image = ImageAfter(2)
      BY <1>1 DEF L!ProtectPage, Handed, LoadInv, Copied
    <3>2. Len(pages) = 2
      BY <1>1, LaidFacts
    <3>3. \A i \in 1..3 : i <= 2 => i \in 1..2
      OBVIOUS
    <3> QED BY <3>1, <3>2, <3>3
  <2>2. HandedOver' /\ ScanInv' /\ LaidOut' /\ ExeInv'
    BY <1>1, <1>3, HandedFacts, LaidFacts, Fixed
    DEF ScanInv, Handed, LoadInv, LaidOut, ExeInv, Mapping, BeforeMap, Page
  <2>3. CASE k = 1
    <3>1. prot = ProtAfter(0) /\ pages[k].flags = {"R", "W"}
      BY <1>1, <2>3, LaidFacts DEF Handed, LoadInv, Copied, Page
    <3>2. /\ DOMAIN prot = PageNos /\ \A p \in PageNos : prot[p] = {"R", "W"}
      BY <3>1 DEF ProtAfter
    <3>3. prot' = [p \in PageNos |-> {"R", "W"}]
      BY <1>3, <3>1, <3>2
    <3>4. prot' = ProtAfter(1)
      BY <3>3 DEF ProtAfter
    <3>5. Copied'
      BY <1>1, <1>3, <2>1, <2>3, <3>4, Fixed, LaidFacts DEF Handed, LoadInv, Copied
    <3> QED BY <2>2, <3>5 DEF LoadInv
  <2>4. CASE k = 2
    <3>1. /\ prot = ProtAfter(1) /\ pages[k].flags = {"R", "X"}
          /\ pages[k].offset = TextOff /\ pages[k].size = size
      BY <1>1, <2>4, LaidFacts DEF Handed, LoadInv, Copied, Page
    <3>2. /\ DOMAIN prot = PageNos /\ \A p \in PageNos : prot[p] = {"R", "W"}
      BY <3>1 DEF ProtAfter
    <3>3. \A p \in PageNos :
            p \in L!PagesOf(TextOff, size) <=> TextOff < (p + 1) * PageSize
      <4> TAKE p \in PageNos
      <4>1. next = FullLen /\ FullLen \in Nat /\ FullLen > 0 /\ FullLen = TextOff + size
        BY <1>1, LaidFacts
      <4>2. PageSize \in Nat \ {0} /\ size > 0 /\ size \in Nat
        BY TextOffset, HandedFacts
      <4>3. p * PageSize < FullLen
        <5> DEFINE n == FullLen - 1
        <5>1. n \in Nat /\ p \in 0..(n \div PageSize)
          BY <4>1 DEF PageNos
        <5>2. \A m \in Nat, q \in Nat \ {0} : \A i \in 0..(m \div q) : i * q <= m
          BY SMT
        <5> HIDE DEF n
        <5>3. p * PageSize <= n
          BY <4>2, <5>1, <5>2
        <5>4. p * PageSize \in Int
          BY <4>2, <5>1
        <5> QED BY <4>1, <5>3, <5>4 DEF n
      <4> QED BY <4>1, <4>2, <4>3 DEF L!PagesOf, L!FullSize, PageNos
    <3>4. prot' = [p \in PageNos |->
                     IF TextOff < (p + 1) * PageSize THEN {"R", "X"} ELSE {"R", "W"}]
      BY <1>3, <3>1, <3>2, <3>3
    <3>5. prot' = ProtAfter(2)
      BY <3>4 DEF ProtAfter
    <3>6. Copied'
      BY <1>1, <1>3, <2>1, <2>4, <3>5, Fixed, LaidFacts DEF Handed, LoadInv, Copied
    <3> QED BY <2>2, <3>6 DEF LoadInv
  <2> QED BY <2>1, <2>3, <2>4
<1> QED BY <1>2, <1>3 DEF L!ProtectPage

LEMMA LoadEndCopy == Handed /\ L!EndCopy => LoadInv'
<1> SUFFICES ASSUME Handed, L!EndCopy PROVE LoadInv'
  OBVIOUS
<1>1. /\ stage = "copy" /\ Mapping(stage) /\ stage' = "reloc" /\ k' = 1 /\ r' = 1
      /\ UNCHANGED <<elf, found, segms, offs, next, pages, image, patched, prot, exe>>
  BY DEF L!EndCopy, L!layoutVars, L!imageVars, Mapping
<1>2. k = 3
  <2>1. k \in 1..3 /\ k > Len(segms)
    BY <1>1 DEF L!EndCopy, Handed, LoadInv, Copied
  <2>2. Len(segms) = 2
    BY <1>1, LaidFacts
  <2>3. \A i \in 1..3 : i > 2 => i = 3
    OBVIOUS
  <2> QED BY <2>1, <2>2, <2>3
<1> QED BY <1>1, <1>2, LoadKept

(* The symbol of both relocations is the data, at offset 0 of the image:   *)
(* they have no bit to add.                                                *)
LEMMA RelocFacts ==
  ASSUME Handed, stage = "reloc"
  PROVE  /\ k \in Nat \ {0} /\ r \in Nat \ {0} /\ Len(elf.shdrs) = 8
         /\ k <= 8 /\ L!IsRela(k) =>
              /\ L!PatchesMappable(k) /\ Len(L!Section(k).relas) = 2
              /\ \A i \in 1..Len(L!Section(k).relas) :
                   LET rela == L!Section(k).relas[i] IN
                   L!SymbolMappable(rela) /\ rela.type = "HI20"
                   /\ L!Hi20(L!Result(rela)) = {}
<1>1. k \in Nat \ {0} /\ r \in Nat \ {0} /\ Mapping(stage)
  BY DEF Handed, LoadInv, Copied, Mapping
<1>2. Shdrs(elf) /\ Len(elf.shdrs) = 8
  BY HandedFacts DEF FileRead, Shdrs
<1>3. /\ segms[1] = SegmentOf["data"] /\ segms[2] = SegmentOf["text"]
      /\ Len(segms) = 2 /\ offs[1] = 0
  BY <1>1, LaidFacts, HandedFacts
<1>4. /\ DataAddr \in Nat /\ TapeSize = 3072 /\ TextAddr \in Nat
      /\ DataAddr + TapeSize <= TextAddr /\ size \in Nat /\ size >= 20
  <2>1. size \in Nat /\ size >= 20
    BY HandedFacts
  <2>2. TextAddr \in Nat /\ TextOff = TextAddr - DataAddr /\ TapeSize <= TextOff
    BY PageTable, TextOffset DEF TextOff
  <2> QED BY <2>1, <2>2 DEF DataAddr, TapeSize
<1>5. L!Covers(1, DataAddr) /\ ~L!Covers(2, DataAddr) /\ L!Covers(2, TextAddr)
  BY <1>3, <1>4 DEF L!Covers, L!Segment, SegmentOf
<1>6. L!Mappable(DataAddr) /\ L!Mappable(TextAddr)
  BY <1>3, <1>5 DEF L!Mappable
<1>7. L!FindOffset(DataAddr) = 0
  <2> DEFINE c == CHOOSE i \in 1..Len(segms) : L!Covers(i, DataAddr)
  <2>1. c \in 1..2 /\ L!Covers(c, DataAddr)
    BY <1>3, <1>5
  <2>2. c = 1
    BY <1>5, <2>1
  <2>3. L!FindOffset(DataAddr) = offs[c] + (DataAddr - L!Segment(c).vaddr)
    BY Zenon DEF L!FindOffset
  <2> HIDE DEF c
  <2>4. L!Segment(c).vaddr = DataAddr /\ offs[c] = 0
    BY <1>3, <2>2 DEF L!Segment, SegmentOf
  <2> QED BY <1>4, <2>3, <2>4
<1>8. L!Hi20(0) = {}
  <2>1. {2^n : n \in 0..11} = {1, 2, 4, 8, 16, 32, 64, 128, 256, 512, 1024, 2048}
    OBVIOUS
  <2>2. \A b \in 20..31 : b - 20 \in 0..11
    OBVIOUS
  <2>3. \A b \in 20..31 : 2^(b - 20) \in Nat \ {0}
    <3>1. \A m \in {2^n : n \in 0..11} : m \in Nat \ {0}
      BY <2>1
    <3> QED BY <2>2, <3>1, Zenon
  <2>4. \A m \in Nat \ {0} : (0 \div m) % 2 # 1
    OBVIOUS
  <2>5. 0 \div 2^20 = 0
    OBVIOUS
  <2> QED BY <2>3, <2>4, <2>5 DEF L!Hi20
<1>9. ASSUME k <= 8, L!IsRela(k)
      PROVE  /\ L!PatchesMappable(k) /\ Len(L!Section(k).relas) = 2
             /\ \A i \in 1..Len(L!Section(k).relas) :
                   LET rela == L!Section(k).relas[i] IN
                   L!SymbolMappable(rela) /\ rela.type = "HI20"
                   /\ L!Hi20(L!Result(rela)) = {}
  <2>1. k = 4
    BY <1>1, <1>2, <1>9 DEF Shdrs, L!IsRela, L!Section
  <2>2. L!PatchesMappable(k)
    BY <1>2, <1>6, <2>1 DEF L!PatchesMappable, L!Section, Shdrs
  <2>3. L!Section(k).relas = RelaEntries /\ Len(RelaEntries) = 2
    BY <1>2, <2>1, RelaTable DEF L!Section, Shdrs
  <2>4. ASSUME NEW i \in 1..2
        PROVE  LET rela == RelaEntries[i] IN
               L!SymbolMappable(rela) /\ rela.type = "HI20"
               /\ L!Hi20(L!Result(rela)) = {}
    <3> DEFINE rela == RelaEntries[i]
    <3>1. /\ rela.type = "HI20" /\ rela.shndx = 2 /\ rela.value = 0
          /\ rela.addend = 0
      BY RelaTable
    <3>2. L!Section(2).addr = DataAddr
      BY <1>2 DEF L!Section, Shdrs
    <3> HIDE DEF rela
    <3>3. L!SymbolMappable(rela)
      BY <1>6, <3>1, <3>2 DEF L!SymbolMappable
    <3>4. L!Result(rela) = 0
      BY <1>7, <3>1, <3>2 DEF L!Result, L!SymbolAddress
    <3> QED BY <1>8, <3>1, <3>3, <3>4 DEF rela
  <2> QED BY <2>2, <2>3, <2>4
<1> QED BY <1>1, <1>2, <1>9

LEMMA LoadReloc ==
  /\ Handed /\ L!NextSection => LoadInv'
  /\ ~(Handed /\ L!UnmappableSection)
  /\ Handed /\ L!Relocate => LoadInv' /\ stage' = "reloc"
  /\ Handed /\ L!EndReloc => LoadInv'
<1> USE DEF L!layoutVars, L!imageVars
<1>1. ASSUME Handed, L!NextSection PROVE LoadInv'
  <2>1. /\ stage = "reloc" /\ stage' = "reloc" /\ k' = k + 1 /\ r' = 1
        /\ UNCHANGED <<elf, found, segms, offs, next, pages, image, patched, prot, exe>>
    BY <1>1 DEF L!NextSection
  <2>2. k' \in Nat \ {0} /\ r' \in Nat \ {0}
    BY <1>1, <2>1, RelocFacts
  <2> QED BY <1>1, <2>1, <2>2, LoadKept
<1>2. ASSUME Handed, L!UnmappableSection PROVE FALSE
  <2>1. stage = "reloc" /\ k <= Len(elf.shdrs) /\ L!IsRela(k) /\ ~L!PatchesMappable(k)
    BY <1>2 DEF L!UnmappableSection
  <2> QED BY <1>2, <2>1, RelocFacts
<1>3. ASSUME Handed, L!Relocate PROVE LoadInv' /\ stage' = "reloc"
  <2> DEFINE rela == L!Section(k).relas[r]
  <2>1. /\ stage = "reloc" /\ k <= Len(elf.shdrs) /\ L!IsRela(k)
        /\ r <= Len(L!Section(k).relas)
    BY <1>3 DEF L!Relocate
  <2>2. L!SymbolMappable(rela) /\ rela.type = "HI20" /\ L!Hi20(L!Result(rela)) = {}
        /\ k \in Nat \ {0} /\ r \in Nat \ {0}
    <3>1. Len(elf.shdrs) = 8 /\ k \in Nat \ {0} /\ r \in Nat \ {0}
      BY <1>3, <2>1, RelocFacts
    <3>2. Len(L!Section(k).relas) = 2
      BY <1>3, <2>1, <3>1, RelocFacts
    <3>3. r \in 1..Len(L!Section(k).relas)
      BY <2>1, <3>1, <3>2
    <3> QED BY <1>3, <2>1, <3>1, <3>3, RelocFacts
  <2>3. /\ UNCHANGED <<elf, k, found, segms, offs, next, pages, image, prot, exe>>
        /\ patched' = patched \union ({L!PatchAt(k, rela)} \X L!Hi20(L!Result(rela)))
        /\ r' = r + 1 /\ stage' = stage
    BY <1>3, <2>2 DEF L!Relocate
  <2>4. patched' = patched
    BY <2>2, <2>3
  <2>5. r' \in Nat \ {0} /\ k' \in Nat \ {0} /\ stage' = "reloc"
    BY <2>1, <2>2, <2>3
  <2> QED BY <1>3, <2>1, <2>3, <2>4, <2>5, LoadKept
<1>4. ASSUME Handed, L!EndReloc PROVE LoadInv'
  <2>1. /\ stage = "reloc" /\ stage' = "protect" /\ k' = 1
        /\ UNCHANGED <<elf, found, segms, offs, next, pages, image, patched, prot, exe>>
    BY <1>4 DEF L!EndReloc
  <2> QED BY <1>4, <2>1, LoadKept
<1> QED BY <1>1, <1>2, <1>3, <1>4

LEMMA LoadFinish == Handed /\ L!Finish => LoadInv'
<1> SUFFICES ASSUME Handed, L!Finish PROVE LoadInv'
  OBVIOUS
<1>1. /\ stage = "protect" /\ Mapping(stage) /\ stage' = "clean_pages_list"
      /\ UNCHANGED <<elf, k, found, segms, offs, next, pages, image, patched, prot>>
  BY DEF L!Finish, L!layoutVars, L!imageVars, Mapping
<1>2. exe' = [mem |-> TRUE, mem_count |-> next, entrypoint |-> TextOff]
  <2>1. elf.entry = TextAddr
    BY HandedFacts DEF FileRead
  <2>2. L!Segment(1).vaddr = DataAddr
    BY <1>1, LaidFacts, HandedFacts DEF L!Segment, SegmentOf
  <2> QED BY <2>1, <2>2 DEF L!Finish, L!FullSize, TextOff
<1>3. k = 3 /\ image = ImageAfter(2) /\ prot = ProtAfter(2)
  <2>1. k \in 1..3 /\ k > Len(pages)
    BY <1>1 DEF L!Finish, Handed, LoadInv, Copied
  <2>2. Len(pages) = 2
    BY <1>1, LaidFacts
  <2>3. \A i \in 1..3 : i > 2 => i = 3
    OBVIOUS
  <2>4. k = 3
    BY <2>1, <2>2, <2>3
  <2> QED BY <1>1, <2>4 DEF Handed, LoadInv, Copied
<1>4. HandedOver' /\ ScanInv'
  BY <1>1, HandedFacts DEF ScanInv
<1>5. LaidOut'
  BY <1>1, Fixed, LaidFacts DEF Handed, LaidOut, Mapping, Page
<1>6. Copied'
  BY <1>1, <1>2, <1>3, Fixed DEF Handed, LoadInv, Copied
<1>7. ExeInv'
  BY <1>1, <1>2 DEF ExeInv, Mapping, BeforeMap
<1> QED BY <1>4, <1>5, <1>6, <1>7 DEF LoadInv

LEMMA LoadOthers ==
  /\ Handed /\ L!Open => LoadInv'
  /\ Handed /\ L!CheckHeader => LoadInv' /\ stage' = "scan"
  /\ Handed /\ L!CleanMappedExe => LoadInv'
  /\ Handed /\ L!CleanPagesList => LoadInv'
  /\ Handed /\ L!CleanSegmentsList => LoadInv'
  /\ Handed /\ L!CleanMapped => LoadInv'
<1> USE DEF L!layoutVars, L!imageVars
<1> DEFINE Same == UNCHANGED <<elf, found, segms, offs, next, pages, image, patched,
                              prot, exe>>
<1>1. ASSUME Handed, L!Open PROVE LoadInv'
  <2>1. stage = "open" /\ stage' \in {"ident", "clean_none"} /\ Same /\ k' = k
    BY <1>1 DEF L!Open
  <2> QED BY <1>1, <2>1, LoadKept DEF Mapping
<1>2. ASSUME Handed, L!CheckHeader PROVE LoadInv' /\ stage' = "scan"
  <2>1. stage = "ident" /\ Same /\ k' = k
    BY <1>2 DEF L!CheckHeader
  <2>2. elf.ident = TRUE /\ elf.machine = TRUE /\ elf.phentsize = 32
    BY <1>2, HandedFacts DEF FileRead
  <2>3. stage' = "scan"
    <3>1. elf.phentsize # 0
      BY <2>2
    <3>2. ~(~elf.ident \/ ~elf.machine \/ elf.phentsize = 0)
      BY <2>2, <3>1, Zenon
    <3> QED BY <1>2, <3>2, Zenon DEF L!CheckHeader
  <2> QED BY <1>2, <2>1, <2>3, LoadKept
<1>3. ASSUME Handed, NEW label, NEW resource, NEW nextLabel,
             L!CleanUp(label, resource, nextLabel), ~Mapping(label),
             nextLabel \in {"clean_mapped_exe", "clean_pages_list",
                            "clean_segments_list", "clean_mapped", "clean_none"}
      PROVE  LoadInv'
  <2>1. stage = label /\ stage' = nextLabel /\ Same
    BY <1>3 DEF L!CleanUp
  <2> QED BY <1>3, <2>1, LoadKept
<1> QED
  BY <1>1, <1>2, <1>3
  DEF L!CleanMappedExe, L!CleanPagesList, L!CleanSegmentsList, L!CleanMapped, Mapping

LEMMA LoadNext == EmitInv /\ LoadInv /\ Loading => LoadInv'
<1> SUFFICES ASSUME EmitInv, LoadInv, Loading PROVE LoadInv'
  OBVIOUS
<1>1. Handed /\ L!Next
  BY DEF Loading, Handed
<1> QED
  BY <1>1, LoadScan, LoadEndScan, LoadLayout, LoadEndLayout, LoadMap, LoadCopy,
     LoadEndCopy, LoadReloc, LoadProtect, LoadFinish, LoadOthers
  DEF L!Next

(* Once more the whole, from the call of bfc to the return of the loader.  *)
LEMMA LoadInit == BothInit => LoadInv
<1> SUFFICES ASSUME BothInit PROVE LoadInv
  OBVIOUS
<1>1. /\ stage = "idle" /\ k = 1 /\ segms = <<>> /\ patched = {}
      /\ exe = [mem |-> FALSE, mem_count |-> L!Unset, entrypoint |-> L!Unset]
  BY DEF BothInit, L!Fresh
<1>2. ~exe.mem
  BY <1>1, Zenon
<1> QED
  BY <1>1, <1>2
  DEF LoadInv, HandedOver, ScanInv, LaidOut, Copied, ExeInv, Mapping, BeforeMap

LEMMA LoadHandOver == EmitInv /\ LoadInv /\ HandOver => LoadInv'
<1> SUFFICES ASSUME EmitInv, LoadInv, HandOver PROVE LoadInv'
  OBVIOUS
<1>1. /\ stage = "idle" /\ stage' = "open" /\ phase = "exited" /\ mode = "elf"
      /\ elf' = OnDisk /\ UNCHANGED emission
      /\ UNCHANGED <<k, segms, offs, next, pages, image, patched, prot, exe>>
  BY DEF HandOver
<1>2. HandedOver'
  BY <1>1, Fixed DEF HandedOver
<1> QED
  BY <1>1, <1>2
  DEF LoadInv, ScanInv, LaidOut, Copied, ExeInv, Mapping, BeforeMap

(* Nothing is written any more once the loader has the file.               *)
LEMMA LoadWriting == LoadInv /\ Writing => LoadInv'
<1> SUFFICES ASSUME LoadInv, Writing PROVE LoadInv'
  OBVIOUS
<1>1. UNCHANGED <<stage, k, r, found, segms, patched, exe>>
  BY DEF Writing, loaderVars
<1>2. phase # "exited"
  BY DEF Writing, Emit, At, ChooseRaw, ReserveHeaders, WriteInsns, NullSection,
         TextSection, DataSection, Attributes, Relocations, EntrySymbol,
         SymbolTable, StringTable, NameTable, ElfHeader, EmitRaw, FreeBuffers
<1>3. stage = "idle"
  BY <1>2 DEF LoadInv, HandedOver
<1> QED
  BY <1>1, <1>3
  DEF LoadInv, HandedOver, ScanInv, LaidOut, Copied, ExeInv, Mapping, BeforeMap

LEMMA LoadStutters == EmitInv /\ LoadInv /\ UNCHANGED all => LoadInv'
<1> SUFFICES ASSUME EmitInv, LoadInv, UNCHANGED all PROVE LoadInv'
  OBVIOUS
<1>1. /\ UNCHANGED emission
      /\ UNCHANGED <<stage, elf, k, r, found, segms, offs, next, pages, image, patched,
                     prot, exe>>
  BY DEF all, loaderVars
<1>2. HandedOver' /\ ScanInv' /\ LaidOut' /\ ExeInv'
  BY <1>1, Fixed
  DEF LoadInv, HandedOver, ScanInv, LaidOut, ExeInv, Mapping, BeforeMap, Page
<1>3. Copied'
  BY <1>1, Fixed DEF LoadInv, Copied
<1> QED BY <1>2, <1>3 DEF LoadInv

(* What is invariant of the loader on a file of bfc.                       *)
THEOREM EmitLoadInvariant == Spec => [](EmitInv /\ LoadInv)
<1>1. BothInit => LoadInv
  BY LoadInit
<1>2. EmitInv /\ LoadInv /\ [BothNext]_all => LoadInv'
  BY LoadNext, LoadHandOver, LoadWriting, LoadStutters DEF BothNext
<1> QED BY EmitInvariant, <1>1, <1>2, PTL DEF Spec

-----------------------------------------------------------------------------
(* The file that bfc leaves is one the loader may assume: segments in      *)
(* order and disjoint, sections that exist, alignments of powers of two.   *)
THEOREM EmitOwesTheLoader == Spec => []OwesTheLoader
<1>1. EmitInv /\ LoadInv => OwesTheLoader
  BY Finished DEF LoadInv, HandedOver, OwesTheLoader
<1> QED BY EmitLoadInvariant, <1>1, PTL

(* Nothing in it makes the loader refuse it: from its checks of the        *)
(* header, its scan of the segments and its relocations it goes on.        *)
THEOREM EmitNeverRefused == Spec => NeverRefused
<1> DEFINE Refused == {"clean_mapped", "clean_segments_list", "clean_mapped_exe"}
           Checking == {"ident", "scan", "reloc"}
<1>1. ASSUME Handed, L!Next, stage \in Checking PROVE stage' \notin Refused
  <2>1. CASE L!CheckHeader \/ L!ScanHeader \/ L!EndScan
    BY <1>1, <2>1, LoadOthers, LoadScan, LoadEndScan
  <2>2. CASE L!NextSection \/ L!EndReloc
    BY <1>1, <2>2 DEF L!NextSection, L!EndReloc
  <2>3. CASE L!UnmappableSection \/ L!Relocate
    BY <1>1, <2>3, LoadReloc
  <2>4. L!CheckHeader \/ L!ScanHeader \/ L!EndScan \/ L!NextSection
        \/ L!UnmappableSection \/ L!Relocate \/ L!EndReloc
    BY <1>1
    DEF L!Next, L!Open, L!LayoutSegment, L!EndLayout, L!MapImage, L!CopySegment,
        L!EndCopy, L!ProtectPage, L!Finish, L!CleanMappedExe, L!CleanPagesList,
        L!CleanSegmentsList, L!CleanMapped, L!CleanUp
  <2> QED BY <2>1, <2>2, <2>3, <2>4
<1>2. EmitInv /\ LoadInv /\ [BothNext]_all =>
        [(stage \in Checking => stage' \notin Refused)]_all
  <2> SUFFICES ASSUME EmitInv, LoadInv, BothNext, stage \in Checking
               PROVE  stage' \notin Refused
    OBVIOUS
  <2>1. CASE Writing
    BY <2>1 DEF Writing, loaderVars
  <2>2. CASE HandOver
    BY <2>2 DEF HandOver
  <2>3. CASE Loading
    BY <1>1, <2>3 DEF Loading, Handed
  <2> QED BY <2>1, <2>2, <2>3 DEF BothNext
<1> QED BY EmitLoadInvariant, <1>2, PTL DEF Spec, NeverRefused

(* The loader puts what bfc compiled where bfc meant it: the entrypoint at *)
(* the first instruction, on pages that may be executed, the tape at       *)
(* address 0, all zeroes, on pages that may be written; and no relocation  *)
(* changes an instruction.                                                 *)
THEOREM EmitLoadsWhatWasEmitted == Spec => []LoadsWhatWasEmitted
<1>1. EmitInv /\ LoadInv => LoadsWhatWasEmitted
  <2> SUFFICES ASSUME EmitInv, LoadInv, exe.mem
               PROVE  /\ \A b \in 0..(size - 1) :
                           image[exe.entrypoint + b] = InsnsBegin + b
                      /\ \A p \in L!PagesOf(exe.entrypoint, size) :
                           prot[p] = {"R", "X"}
                      /\ \A b \in 0..(TapeSize - 1) : image[b] = L!Zero
                      /\ \A p \in L!PagesOf(0, TapeSize) : prot[p] = {"R", "W"}
                      /\ patched = {}
    BY DEF LoadsWhatWasEmitted
  <2>1. /\ next = FullLen /\ image = ImageAfter(2) /\ prot = ProtAfter(2)
        /\ exe.entrypoint = TextOff /\ patched = {}
    BY DEF LoadInv, LaidOut, Copied
  <2>2. /\ TextOff \in Nat /\ TapeSize = 3072 /\ TapeSize <= TextOff
        /\ FullLen = TextOff + size /\ size \in Nat /\ InsnsBegin = 468
    BY TextOffset, SizeNat DEF FullLen, TapeSize, EmitInv, TypeInv, TypeOK
  <2>3. \A b \in 0..(size - 1) : image[exe.entrypoint + b] = InsnsBegin + b
    <3> TAKE b \in 0..(size - 1)
    <3>1. TextOff + b \in 0..(FullLen - 1) /\ TextOff <= TextOff + b
          /\ (TextOff + b) - TextOff = b
      BY <2>2
    <3> QED BY <2>1, <3>1 DEF ImageAfter
  <2>4. \A b \in 0..(TapeSize - 1) : image[b] = L!Zero
    <3> TAKE b \in 0..(TapeSize - 1)
    <3>1. b \in 0..(FullLen - 1) /\ ~(TextOff <= b)
      BY <2>2
    <3> QED BY <2>1, <3>1 DEF ImageAfter
  <2>5. \A off, n : \A p \in L!PagesOf(off, n) :
          p \in PageNos /\ p * PageSize < off + n /\ off < (p + 1) * PageSize
    BY <2>1 DEF L!PagesOf, L!FullSize, PageNos
  <2>6. \A p \in L!PagesOf(exe.entrypoint, size) : prot[p] = {"R", "X"}
    BY <2>1, <2>5 DEF ProtAfter
  <2>7. \A p \in L!PagesOf(0, TapeSize) : prot[p] = {"R", "W"}
    <3> TAKE p \in L!PagesOf(0, TapeSize)
    <3>1. p \in PageNos /\ p * PageSize < TapeSize
      BY <2>2, <2>5
    <3>2. p \in Nat
      BY <3>1 DEF PageNos
    <3>3. ~(TextOff < (p + 1) * PageSize)
      BY <2>2, <3>1, <3>2, TapePages
    <3> QED BY <2>1, <3>1, <3>3 DEF ProtAfter
  <2> QED BY <2>1, <2>3, <2>4, <2>6, <2>7
<1> QED BY EmitLoadInvariant, <1>1, PTL
=============================================================================
