# rv32isam in TLA+

`rv32isam` is a small RISC-V playground in C: `cpu`, an emulator that loads an
ELF file (or raw instructions) into its own address space and interprets it,
and `bfc`, a compiler from Brainfuck to RV32I that writes such ELF files. This
directory holds TLA+ models of it, the TLC runs that check them on small
instances, and proofs, checked by TLAPS, of what holds for every instance.

    tlc -config MCLoader_all.cfg MCLoader           # one run
    tlapm LoaderProofs.tla                          # one module's proofs

`PROJECT.json` lists the components, the runs, the source lines behind every
definition, the findings, the hazards and the theorems.

## The system

| component | state it keeps | operations | what makes it correct |
|---|---|---|---|
| ELF loader, `loader.c` `loader_read_elf()` | segment list, page-descriptor list, the image, a chain of clean-up labels | check header, scan program headers, lay out, map, copy, relocate, protect, hand over | segments disjoint, aligned, in pages of their own protection; bytes those of the file; every exit releases exactly what was acquired; an error is reported as one |
| raw loader, `loader.c` `loader_read_raw()`, `loader_destroy_exe()` | the mapping of the file and of the data segment before it | map, empend data | entered at its first byte, with as much data before it as was asked for; an error is reported as one |
| command line, `cpu.c` | `cli_options` | `parse_options()`, `main()` | every option has a value when it is read; no run after an error |
| interpreter, `interpret.c` | pc, 31 registers, the image | one iteration per instruction | it is RV32I; what it does not implement it refuses |
| decoding, `rv/insn.h`, `rv/bits.h` | none | immediates of the six formats | they are those of the manual |
| disassembler, `rv/dasm.c` | none | prints each fetched instruction | it returns |
| compiler, `bfc.c` `compile_stdin()` | code buffer, loop stack | one emission per character, patching of `[` at `]` | the code does what the Brainfuck program says |
| ELF writer, `bfc.c` `emit_elf()`, `emit_raw()` | the file under construction in a growable buffer | reserve headers, write sections, fill headers in | the loader accepts it; every header points at what it names |
| growable buffer, `bfc/out.c` | bytes, len, cap | reserve, write | len at most cap; no pointer used after the bytes have moved |
| bit arithmetic, `common/bit_math.h` | none | align, next power of two | as their comments say |
| `log.h`, `sam.c`, build files, `test.bf` | none | | not modelled |

`bfc` and `cpu` meet in a file. Inside `cpu`, `main()` calls a loader, which
fills a `struct loaded_exe`, and passes its memory and entrypoint to
`interpret()`, which never returns: it ends with the process. `interpret()`
calls `dasm()` on every instruction before executing it. Inside `bfc`,
`compile_stdin()` fills one growable buffer and `emit_elf()` copies it into
another.

There are no threads. What is hard here is the order of steps within a
function and what happens when one of several fails (the loader's goto chain,
its three kinds of alignment, its copy into one image), arithmetic at the edge
of its width (immediates, pc, distances, sizes), storage that moves or goes
stale under a pointer (the buffer), behaviour that depends on the build
(`assert()`), and long sequences of legal instructions. The `hazards` of
`PROJECT.json` give the line of each.

## The modules

| module | models | remarks |
|---|---|---|
| `Loader` | `loader_read_elf()` and its helpers | properties at its end |
| `LoaderContract` | what its caller may rely on | abstract: one step |
| `Out` | `struct out`, `out_resv()`, `next_po2()`, `max_po2()` | operators on a buffer; used by `Bfc` and `EmitElf` |
| `Asm` | the `asm_...()` encoders of `bfc.c` | an instruction is a record, `Encode` gives its word |
| `Bfc` | `compile_stdin()` | properties of the compiler at its end |
| `Brainfuck` | what a Brainfuck program does | abstract: one command per step |
| `Toolchain` | `Bfc`, then `Interpret` on what it emitted | composition; refines `Brainfuck` |
| `EmitElf` | `main()` of `bfc.c`, `emit_elf()`, `emit_raw()` | |
| `EmitLoad` | `EmitElf`, then `Loader` on the file it wrote | composition; properties of both |
| `Cpu` | `parse_options()`, `main()` of `cpu.c`, the raw loader | the ELF loader by its contract |
| `Words` | 32-bit arithmetic | a word is the set of its one bits |
| `RvInsn` | `rv/insn.h`, `rv/bits.h`, the effects of `rv/dasm.c` | |
| `Interpret` | `interpret()` | one action per opcode |
| `Rv32i` | the instruction set it promises | abstract; integers and bytes, independent of `Words` |
| `InterpretIsa` | the refinement mapping, the properties | |
| `MCLoader`, `MCBfc`, `MCEmit`, `MCCpu`, `MCInterpret` | | files, programs, lengths, command lines, an assembler |
| `LoaderProofs`, `BfcProofs`, `EmitProofs`, `CpuProofs`, `InterpretProofs` | | theorems |
| `RvInsnProofs` | | words as numbers, the instruction formats; for `BfcProofs`, `InterpretProofs` |
| `OutProofs` | | what reserving and writing do to a length; for `BfcProofs`, `EmitProofs` |
| `Induction` | | induction over the naturals; for `BfcProofs`, `CpuProofs`, `RvInsnProofs` |

Definitions called `Bug...` are plausible mistakes in the definition that
follows them (a forgotten guard, an off-by-one, a wrong label). No
specification uses them; put in the place of that definition each makes the
property named with it in `PROJECT.json` fail, which is how we know that the
property is able to.

### Loader

`stage` is where the function is: a phase, or a clean-up label reached by goto
or by falling through. One action is one iteration of a loop, one decision, or
one label. `segms` and `offs` are the segment list and its `mem_offset`s,
`pages` the page descriptors, `next` is `next_segment_offset` (after the layout
the same number is `full_memory_image_size`), `image` and `prot` the mapping,
`live` what has been acquired and not released, `code` and `exe` what the
caller sees. The program's lists only grow, so they are sequences; its errno
values are 1, since `code` is a `bool`.

Abstracted: the file is a record of the fields the loader reads; a byte of the
image is the index of the file byte it came from, or zero; the bits that
relocations OR in are kept in `patched`, beside the bytes. `fstat()` and
`mmap()` of the file, `mmap()` of the image and each `mprotect()` may fail.
`malloc()` and `munmap()` do not. Files are well formed in the sense of
`WellFormed`: segments sorted and disjoint, which `loader.c:185` relies on,
`p_filesz` at most `p_memsz`, alignments powers of two, section indices that
exist, and no sums near 2^32. The loader verifies none of that; on a file that
is not well formed this model says nothing. That `bfc` writes well-formed files
is a property of `EmitLoad`.

`LoaderContract` is the same function with none of its stages: it returns in
one step, with an image that is the only thing still held, or with nothing. It
states the two exceptions a caller must know of: a file without entrypoint
loads although the code is an error, and three errors return 0 (`Silent`).
`KeepsContract` says that `Loader` implements it, returning included; the
mapping is at the end of `Loader`.

### Out, Asm, Bfc

A buffer is its length, its capacity and its block of memory; the arithmetic of
`out_resv()` is that of a u32, down to the wrap of `len + count`, to
`next_po2()` of more than half the range, which is 1, and to `next_po2(1)`,
which is undefined and modelled as any power. `realloc()` may grow a block in
place, move it or fail. `Written` says what a write of the bytes just reserved
does: it is inside, or through NULL (`segv`), or beyond the block (`wild`,
after which the model stops). Two names of blocks are enough to tell a pointer
left behind by a move, since no pointer is held across two reservations.

In `Bfc` an action is one `asm_...()` call, or one character: `[` reserves two
instructions and pushes, `]` pops, reserves and patches. `insns` and `stack`
are the two buffers, `code` and `loops` their contents. The distance is cut to
the 16 bits of `i16` where the code does so. A `]` with an empty stack pops
what is not there: it reads memory it does not own, which fails, or yields a
place to patch that may be anywhere. A character that is no command is
"comment", but for byte 255, which a signed `char` cannot tell from `EOF`.

`Brainfuck` has commands, a pointer, a tape and brackets that match; it stops at
`.` and `,`, or passes over them if the machine is lenient. `Toolchain` runs
`Bfc`, puts the words of its code into an image the way `EmitLoad` shows the
loader to, and lets `Interpret` execute it; the refinement mapping reads pointer
and tape out of register s1 and page 0, and the next command out of the pc.

### EmitElf, EmitLoad

An action is one block of `emit_elf()` with its reservations in the order of
the code. The buffer is not zeroed by anybody, so a header field is `Unset`
until it is assigned. `heap` has the five buffers and how the last write went,
`parts` where each part was copied, `names` where `.shstrtab` holds each name.
Fields that no reader of the file follows are not kept. In `NameTable` the
address of the assigned field is computed before or after the call on its
right; C leaves that open. In `EmitLoad` the finished file is given to
`Loader`, whose assumptions about a file become properties of the writer.

### Cpu

One action per option of `parse_options()` and per step of `main()` and of
`loader_read_raw()`. `i` is the index into the words, `res` the result so far,
`stage` where `main()` is. The ELF loader is `Return` of `LoaderContract`.
`wants_help` is assigned only by `--help`; on every other line it has any
value, so `ShowHelp` may happen. A `size_t` of sizes is cut to a u32 and rounded
up within it. A kernel that ignores `MAP_FIXED_NOREPLACE` may place the data
segment elsewhere ("elsewhere"); the code then returns whatever errno was.
`strtoull()`, errno and the kernel are external.

### Interpret

`pc`, `registers` and `mem` are those of the C function, bit for bit: addition
is a carry chain, a shift drops the bits that leave the word, immediates are
reassembled field by field as `bits.h` does it. An action is an iteration of
the loop for one opcode: the alignment check, the fetch, `dasm()`, the test for
zero, the switch, the `pc += 4`. `status` says how the process ended:
`aborted` (an `abort()` or an `assert()`), `trapped` (`__builtin_trap()`),
`segv`, or `wild`, an access beyond the image, after which nothing can be said
of the process and the model stops. `NDEBUG` chooses the build. The host is
little-endian, and its MMU allows what `prot` says (external to the code).
Signed overflow in `addi` is undefined in C and modelled as the wrap the
compilers emit.

`Rv32i` says what an RV32I machine does in terms of signed integers and bytes.
It shares no definition with `Words` or `RvInsn`, so that a mistake would have
to be made twice. A machine may stop at what it cannot execute; a lenient one,
which a release build is, may pass over it.

## What the runs check

| run | question | states |
|---|---|---|
| `loader` | are layout, copy and protection right for every shape of three segments; does every exit release what it should; does the loader keep its contract and return? | 98,981 |
| `bfc` | does the code follow the source, whatever the nesting and whatever `realloc()` does; and executed, do programs without loops do what Brainfuck says? | 23,185 |
| `emit` | is the file complete, does it meet the loader's assumptions, and once loaded is it what was compiled? | 6,578 |
| `cpu` | is what runs what the command line asked for, and on an image that was loaded? | 29,360 |
| `interpret_debug` | is every step of a debug build a step of RV32I, or a refusal? | 13,995 |
| `interpret_release` | and of a release build; does read-only memory stay as loaded? | 1,807 |

`loader`: pages of 4 bytes, three segments. Sizes are 0, below a page
and a page; gaps are none and more than a page; alignments are none, half a
page, a page and two pages; protections are two, so the second and the third
segment may or may not open a new page descriptor. Offsets matter only through
their remainders by page and alignment and through the comparison of gap and
distance, and every such case occurs; three segments suffice for a descriptor
to be first, middle and last, and to be shared. Other files have one to three
program headers of every type, each header field good and bad, and one and two
relocations of known and unknown type against sections inside and outside the
image. In all of them every call may fail at every point.

`bfc`: `Width` is 8, so that buffers wrap within the bounds: a loop around 24
characters just stays below half the range and one around 25 passes it. Every
string of up to six brackets is compiled, matched or not (three deep, three in
a row, and unmatched at either end), and every string of up to four of
brackets, `>` and byte 255. Executed are all programs of up to three of
`+ - > <` and of `+ > . , comment`, a cell that wraps downwards, and a pointer
that leaves the tape at either end; the tape has 12 cells. Loops are executed
in `bfc_loops`, where they go wrong.

`emit`: real offsets and page size; `Width` is 14. The lengths of the program
lie around those at which the instructions outgrow the 512 bytes the headers
lie in, at which a later part is the first to outgrow 1024, and at which the
file passes half the range; others fill a page exactly, or
take two. Every growth may move the buffer, and may fail.

`cpu`: all command lines of up to three words out of ten (files, modes, the
three options, an option that exists nowhere, numbers), and longer ones for the
raw loader with one or two sizes around 0, a page, the range of a u32 (64) and
that of a `size_t` (256). Four files: one that loads, one without entrypoint,
one whose relocations fail, and one that is empty and no ELF.

`interpret_*`: an image of 16 words in pages of 4: two pages of code, one of
data, one with no access. Each implemented instruction runs on combinations of
1, -1, the least and the greatest number and one in between, with `rd` = `rs1`,
`rd` = 0, immediates at both ends of their range, targets backwards, forwards,
misaligned and outside; each other instruction once or more; loads and stores
in, at the edge of, outside and below the image. Programs count down a loop,
call and return twice, overwrite code that they then execute, and jump into
data. Every program ends (it runs into zeroes), so no bound cuts a run short.

All of these programs stop, or may: `CHECK_DEADLOCK FALSE` is for that.

Fairness: `Loader`, `LoaderContract` and `Cpu` have weak fairness of their
next-state relation, since each is one sequential function that the host keeps
running and whose system calls return. `KeepsContract` (the loader returns) and
`RunsOrExits` (every command line is read to its end) need it and nothing more.
`Interpret` promises no progress (a guest may loop for ever), the compiler and
the writer are checked for safety alone; they assume none.

### What the code says and does not do

Six runs each end in a counterexample to a sentence of the code.

| run | the sentence | what happens |
|---|---|---|
| `loader_success` | "(error): This file dosen't have any executable code!" | the loader returns 0 and the caller goes on, `loader.c:182` |
| `loader_entrypoint` | "Ensure we patch the entrypoint so that it's correctly based on our offset." | `loader.c:394` overwrites the patched value |
| `loader_hi20` | "lui rv_s1, <data address>.hi20" | `loader.c:353` keeps 12 of the 20 bits |
| `interpret_srai` | "if it's SRAI, then we want to put the top bit in" | `interpret.c:141` looks at bit 12, the encoding has bit 10 |
| `bfc_loops` | "Skipping the loop body is skipping right here." | `bfc.c:130` stores a distance measured from 4 bytes before the branch |
| `emit_stale` | "segments & sections defined as macros since `elf.bytes` might change" | `bfc.c:464` may store through the address from before the change |

`bfc` itself does not meet the second and third: its text lies exactly one
page after its data, and its symbol is at offset 0 (`LoadsWhatWasEmitted`).

Two more are listed as hazards and not as runs. The interpreter executes data,
which the usage text calls not executable. And two segments with a gap end up
closer in the image than their addresses are (`loader.c:218`).

## What is proved

For every set of well-formed files, every page size that is a power of two up
to 2^30, every image, start, build, program and command line:

* `LoaderTypeOK`, `LoaderSegmentsApart`, `LoaderPagesTile`,
  `LoaderSegmentsOnTheirPages`. The inductive invariant `Inv` (`LoaderProofs`)
  joins these
  three properties to the type invariant and to `ControlInv`, which ties the
  loop cursor to the lists it indexes: before the layout the lists are empty,
  in it `Len(offs) = k - 1` and there is a descriptor to lie in, after it every
  segment has an offset. None of the three is inductive alone: that a new
  segment clears the earlier ones needs them to end at or before `next`, and
  that the descriptors tile needs the open one to hold the last segment. The step
  that matters is `LayoutSegment`. It rests on `OffsetBounds`: the offset of
  the new segment is at least `next` and, where a new descriptor begins, a
  multiple of the page size. That rests in turn on `AlignUpBounds` and
  `AlignUpMultiple`.
* `LoaderAlignmentHonoured`. Of two powers of two the
  smaller divides the greater, so that the rounding to a page, which comes
  last, undoes no rounding to a smaller alignment, and is undone by none to a
  greater.
* `LoaderImageFaithful`, `LoaderProtectedAsAsked`. Inductive is `ImageInv`:
  what the iterations so far have copied, and protected, is as it should be,
  and the page a descriptor begins on belongs to no other (`PagesOrdered`,
  `PagesDisjoint`). One iteration leaves what earlier ones did because segments
  are apart and descriptors too.
* `LoaderResourcesReleased` and `LoaderOnlyReleasesAcquired`, from `LiveInv`,
  which says for each stage exactly what is live, and that the caller has an
  image only on the way out through the labels after `clean_mapped_exe`.
* `LoaderImplementsContract`: `Loader` implements the safety part of
  `LoaderContract`. Every step maps to a stutter but the one that returns;
  `LoaderContractInv` says for each stage what is held, what the code is, and
  which of the contract's conditions the file has been seen to meet by then.
* `BfcTypeOK`, `BfcOpenLoopsOnStack` (`BfcProofs`), for every width of a u32
  from 4 to 32, of `Bfc` as part of `Toolchain`. The first layer (`OutProofs`)
  is about one reservation: what it returns (`ReserveProperties`) and when the
  write after it goes well (`WrittenProperties`). `OpenLoopsOnStack` is not
  inductive: it orders each loop and the next only, does not bound how many
  there are, and says nothing of what is still to be emitted. `LoopsInv` orders
  all pairs, so that the patched branch is nobody else's; gives the l-th open
  loop at least l pairs of instructions, so that the stack, 8 bytes a loop,
  never outgrows the code, 8 bytes a pair; and `todo` holds no branch.
* `BfcCodeFollowsSource` and `BfcWildOnlyIf`, for programs of any length and
  nesting. `SourceInv` adds to the above that the loops on the stack are those
  that the levels of the brackets leave open (`SourceLoops`), and that the
  code, with what is still to be emitted of the current character, is the
  translation of what has been read (`TextInv`). It rests on two facts about
  brackets, `MatchIsUnique` and `InnermostLoop`. What is recursive in it, the
  level of a character and the end of its code, is a function on an interval,
  whose equations `Induction` establishes.
* `BfcDecodesAsMeant`: the encoders of `bfc.c` and the decoders of `rv/` agree
  on every word of every program that `bfc` finishes. One lemma per format says
  what is read from a word in whose fields numbers have been put (`FormatI`,
  `FormatU`, `FormatS`, `ReadsBranch`, in `RvInsnProofs`), and one per kind of
  instruction that it decodes as meant (`DecodesI` to `DecodesBeq`). Inductive
  is `DecodedInv`, that this holds of the code and of what is still to be
  emitted; patching keeps it because the distance of a branch is one between
  instructions (`DistanceAligned`), so that nothing is lost with its lowest bit.
  It says nothing of a `jal`, whose immediate goes into bits 31 to 12 as it is
  and not as the format has it, nor of the target of a branch outside of
  0..4095.
* `EmitTypeOK`, `EmitNoOverrunBelowHalf`, `EmitReleased`, `EmitFileComplete`
  (`EmitProofs`), for every size of a program, every page size up to 2^16 and
  every width of a u32 from 9 to 32. None of them is inductive. `EmitInv` says
  for each place in `emit_elf()` how long each buffer is (`LengthsInv`), which
  are freed (`FreedInv`), what every field of the headers written so far says
  (`SectionsInv`, `SegmentsInv`) and which parts the file holds (`PartsInv`).
  The lengths are known as long as every write has gone well, for a write whose
  length wraps does not go well.
* `EmitOwesTheLoader`, `EmitNeverRefused`, `EmitLoadsWhatWasEmitted`: what `bfc`
  writes is well formed, no check of the loader refuses it, and the image is
  what was compiled. `LoadInv` says what the loader has made of this file at
  each of its stages: which segments it has collected, that the text goes as
  far behind the tape as it is in memory (`TextOffset`), the content and the
  protection of the image after each iteration (`ImageAfter`, `ProtAfter`).
  This composes the two halves: the theorems about `Loader` assume well-formed
  files, and `EmitOwesTheLoader` discharges that for the files of `bfc`.
* `CpuTypeOK`, `CpuInterpretsOnlyLoaded`, `CpuDataSegmentBefore`
  (`CpuProofs`), for all widths of a u32 and a `size_t` that are multiples of a
  page and of each other. `LoadInv` says for each stage of `main()` what the
  loaders have left behind; `AlignUpwardsProperties` shows where rounding up
  within a u32 is exact.
* `CpuRunsWhatWasAsked`, `CpuZeroIsHelp`, `CpuDataSegmentAsAsked`, for command
  lines of any length. `LineInv` says of the part of the line before the index
  what the options hold: the loop, which skips an option's value by moving the
  index, agrees with `WordOf`, which reads the line from its beginning
  (`WordOfEquation`), and with the sum `AskedUpTo` (`SummedStep`).
* `InterpretTypeOK`: every operation on words yields a word, one lemma per
  action.
* `InterpretReadOnlyAsLoaded`: a step changes at most a word of a page with
  "W" (`StepProperties`) and never a protection (`ProtectionStays`), so the
  start the run began with remains its witness.

* `InterpretImplementsIsa`: `Interpret` implements `Rv32i` under the mapping of
  `InterpretIsa`, whatever image, protections, program and build, as long as
  `SignAtStake` does not come true: as long as no release build is about to
  execute `srai` on a negative number, with a distance and a destination other
  than 0. That is the finding of `interpret_srai`; there the interpreter loses
  the sign, and a theorem without this hypothesis would be false. A
  debug build never gets there, so that `DebugImplementsIsa` has no hypothesis.
  The argument has three layers. `RvInsnProofs` relates sets of bits to
  numbers: that the carry chain adds (`AddSigned`), what shifts, fields, sign
  extension and comparisons do, and what the digits of an instruction and its
  immediates are; all of it by induction over the bits. Then the instruction
  that `Rv32i` reads out of four bytes is the one that `Interpret` reads out of
  a word (`FetchedWord`, `SameFields`, `RvImmediates`), and permissions, bytes and
  registers are the same (`Permissions`, `ByteAtIs`, `RegIs`). Last, one lemma
  per action (`StepJalr` to `StepSkip`): its result is the one that `Effect`
  names, or the machine may refuse. No invariant but `TypeOK` is needed.

Assumptions: those stated in the modules, all evaluated by the runs. They say
what the constants are (`PageSizeAssumption`, `BuildAssumption`,
`WidthAssumption`, `WidthsAssumption`, `ImageAssumption`, `NoneAssumption`: no
word of a command line is the absence of one) and that files are well formed
(`FilesAssumption`). Three are about the writer. A u32 can count the headers of
a file. A program has at least the five instructions that every program begins
and ends with (`SizesAssumption`), and fits into half the range. And a page is
at most 64 KiB (`EmitPageAssumption`): only then is the address of the data,
0x10000, the beginning of a page; otherwise the alignment that the file asks
for contradicts its own addresses.

`Induction` proves induction over the naturals from the library's
`NatLessThanWellFounded`. The library's own induction theorems take the
statement as an operator, which none of the provers can instantiate; here a
proof puts the numbers a statement holds for into a set, which is an ordinary
bound variable (`SetInduction`, `BoundedInduction`). `RecursiveFunction` gives
the equations of a function defined by recursion from each number to the next.

Only model-checked:

* `ImplementsBrainfuck`: it would join the theorems about `Bfc` to the one about
  `Interpret`, and needs the tape and the pc of every program located in the
  image;
* `KeepsContract` as far as it promises to return, and `RunsOrExits`: liveness
  under fairness is outside what the prover does.

## Not modelled

The text the disassembler and the log print; `sam.c`; the build files; and what
nothing calls: `push()`, `pop()` and the function `asm_jal()` of `bfc.c`,
`out_write_uleb128()`, `out_write_cstr()`, `sext32_generic()`.
`loader_destroy_exe()` and the `close()` after it follow `interpret()`, which
does not return, so they never run. A command line without even the program's
name, files and programs of more than 2^31 bytes (but for the wrap of the
buffer), and loops whose distance does not fit 16 bits are outside the bounds;
of ELF files that are not well formed nothing is said.

## Plan

1. `ImplementsBrainfuck` for programs without brackets, from
   `CodeFollowsSource` and `InterpretImplementsIsa`.
2. Loops in `ImplementsBrainfuck`, the day branch and jump are encoded as the
   interpreter decodes them; input and output, the day `ecall` is implemented.
