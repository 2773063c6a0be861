-------------------------------- MODULE Cpu --------------------------------
(***************************************************************************)
(* The program cpu up to its first instruction: parse_options() and main() *)
(* of cpu.c and, of loader.c, the raw loader.  The ELF loader is what      *)
(* LoaderContract says of it; the interpreter, which never returns, begins *)
(* in stage "running".                                                     *)
(*                                                                         *)
(* A command line is a sequence of words.  Addresses are relative to where *)
(* the kernel maps the file.  A u32 and a size_t count to U32 and SizeT    *)
(* and a page has PageSize bytes, all scaled down.  Every call of the      *)
(* system may fail; only --help ever assigns wants_help, without it the    *)
(* member has any value.                                                   *)
(*                                                                         *)
(* A definition named Bug... is a plausible mistake in the definition that *)
(* follows it.  No specification uses it: it serves to see that a property *)
(* would notice.                                                           *)
(***************************************************************************)
EXTENDS Integers, Sequences

CONSTANTS
  CommandLines,  \* the command lines cpu may be given, without its name
  Dashed,        \* the words that begin with '-'
  Numbers,       \* what strtoull() makes of a word; 0 of those not in it
  Files,         \* what the file may be: [bytes |-> its size, elf |-> as in Loader]
  U32, SizeT, PageSize,
  None           \* input_file, when it is NULL

ASSUME WidthsAssumption ==
  /\ U32 \in Nat /\ PageSize \in Nat \ {0} /\ U32 % PageSize = 0 /\ U32 > PageSize
  /\ SizeT \in Nat /\ SizeT > U32 /\ SizeT % U32 = 0
ASSUME LinesAssumption == CommandLines \subseteq Seq(STRING)
ASSUME NumbersAssumption == \A w \in DOMAIN Numbers : Numbers[w] \in 0..(SizeT - 1)
ASSUME NoneAssumption ==
  \A line \in CommandLines : \A n \in DOMAIN line : line[n] # None
ASSUME WordsAssumption == {"--mode", "--empend-segment", "--help"} \subseteq Dashed

Errno == 22  \* any errno but 0

VARIABLES
  args, i,           \* the command line and which word of it comes next
  res,               \* whether parse_options() has no objection yet
  input, mode, empend, help,  \* struct cli_options; help: --help was seen
  stage,             \* where main() is
  exit,              \* the exit status
  file, bytes,       \* the file that is opened, as ELF and its size
  entry, offset,     \* of the raw loader: exe->entrypoint, exe->mem
  returned, code, mem, held   \* see LoaderContract; also of the raw loader

options == <<input, mode, empend, help>>
loading == <<entry, offset, returned, code, mem, held>>
vars == <<args, i, res, options, stage, exit, file, bytes, loading>>

Elf == INSTANCE LoaderContract

Init ==
  /\ args \in CommandLines /\ i = 1
  /\ \E f \in Files : file = f.elf /\ bytes = f.bytes
  /\ input = None /\ mode = "elf" /\ empend = 0 /\ help = FALSE /\ res = TRUE
  /\ stage = "parsing" /\ exit = 0
  /\ entry = 0 /\ offset = 0
  /\ Elf!Init

-----------------------------------------------------------------------------
Word == args[i]
Reads(word) == /\ stage = "parsing" /\ i <= Len(args) /\ Word = word
               /\ UNCHANGED <<args, stage, exit, file, bytes, loading>>

BugAdvance(n) == i' = i + n - 1
(* The words an option takes, counting the one the loop itself adds.       *)
Advance(n) == i' = i + n

HasValue == i < Len(args)
Value == args[i + 1]
strtoull(word) == IF word \in DOMAIN Numbers THEN Numbers[word] ELSE 0

(* A second file is an objection (but then the one that counts).           *)
PositionalArgument ==
  /\ \E word \in {args[n] : n \in DOMAIN args} \ Dashed : Reads(word)
  /\ res' = (res /\ input = None) /\ input' = Word
  /\ Advance(1) /\ UNCHANGED <<mode, empend, help>>

BugKnownMode == HasValue
KnownMode == HasValue /\ Value \in {"raw", "elf"}

ModeOption ==
  /\ Reads("--mode")
  /\ res' = (res /\ KnownMode) /\ mode' = IF KnownMode THEN Value ELSE mode
  /\ Advance(2) /\ UNCHANGED <<input, empend, help>>

BugAddend(word) == strtoull(word) - empend
(* What an option adds to the size of the data segment.                    *)
Addend(word) == strtoull(word)

EmpendSegment ==
  /\ Reads("--empend-segment")
  /\ res' = (res /\ HasValue /\ strtoull(Value) # SizeT - 1)
  /\ empend' = IF HasValue THEN (empend + Addend(Value)) % SizeT ELSE empend
  /\ Advance(2) /\ UNCHANGED <<input, mode, help>>

BugHelpOption ==
  /\ stage = "parsing" /\ i <= Len(args) /\ Word = "--help"
  /\ help' = TRUE /\ stage' = "parsed"
  /\ UNCHANGED <<args, i, res, input, mode, empend, exit, file, bytes, loading>>
(* --help makes parse_options() return at once, with no objection at all.  *)
HelpOption ==
  /\ stage = "parsing" /\ i <= Len(args) /\ Word = "--help"
  /\ help' = TRUE /\ res' = TRUE /\ stage' = "parsed"
  /\ UNCHANGED <<args, i, input, mode, empend, exit, file, bytes, loading>>

UnknownFlag ==
  /\ \E word \in Dashed \ {"--mode", "--empend-segment", "--help"} : Reads(word)
  /\ res' = FALSE /\ Advance(1) /\ UNCHANGED options

EndOfOptions ==
  /\ stage = "parsing" /\ i > Len(args)
  /\ res' = (res /\ input # None) /\ stage' = "parsed"
  /\ UNCHANGED <<args, i, options, exit, file, bytes, loading>>

-----------------------------------------------------------------------------
Main == UNCHANGED <<args, i, res, options, file, bytes>>
Exit(status) == stage' = "exited" /\ exit' = status
Goto(next) == stage' = next /\ exit' = exit

ShowUsage == stage = "parsed" /\ ~res /\ Exit(1) /\ Main /\ UNCHANGED loading

(* Asked for or, since wants_help is not initialised, not.                 *)
ShowHelp == stage = "parsed" /\ res /\ Exit(0) /\ Main /\ UNCHANGED loading

OpenFile ==
  /\ stage = "parsed" /\ res /\ ~help
  /\ IF empend # 0 /\ mode = "elf" THEN Exit(1)
     ELSE Exit(1) \/ Goto(mode)
  /\ Main /\ UNCHANGED loading

ReadElf ==
  /\ stage = "elf" /\ Elf!Return /\ Goto("read")
  /\ Main /\ UNCHANGED <<entry, offset>>

(* mmap_file(): an empty file cannot be mapped.                            *)
MapFile ==
  /\ stage = "raw"
  /\ \/ Goto("read") /\ code' = Errno /\ UNCHANGED <<mem, held>>
     \/ /\ bytes > 0
        /\ mem' = TRUE /\ held' = {"file"} /\ code' = 0
        /\ Goto(IF empend % U32 > 0 THEN "data" ELSE "read")
  /\ entry' = 0 /\ offset' = 0
  /\ Main /\ UNCHANGED returned

BugAlignUpwards(val) == val - (val % PageSize)
align_upwards(val) ==
  LET sum == (val + PageSize - 1) % U32 IN sum - (sum % PageSize)

(* The data segment directly before the file, or an error that leaves the  *)
(* file mapped.  A kernel that does not know MAP_FIXED_NOREPLACE may map   *)
(* it elsewhere: then nothing has set errno, and what it is is returned.   *)
MapData ==
  /\ stage = "data" /\ Goto("read")
  /\ LET aligned == align_upwards(empend % U32) IN
     \/ code' = Errno /\ UNCHANGED <<entry, offset, held>>
     \/ /\ aligned > 0
        /\ entry' = aligned /\ offset' = -aligned
        /\ code' = 0 /\ held' = held \union {"data"}
     \/ /\ aligned > 0
        /\ code' \in {0, Errno} /\ held' = held \union {"elsewhere"}
        /\ UNCHANGED <<entry, offset>>
  /\ Main /\ UNCHANGED <<mem, returned>>

BugSucceeded == code >= 0
Succeeded == code = 0

Interpret ==
  /\ stage = "read"
  /\ IF Succeeded THEN Goto("running") ELSE Exit(code)
  /\ Main /\ UNCHANGED loading

Next ==
  \/ PositionalArgument \/ ModeOption \/ EmpendSegment \/ HelpOption
  \/ UnknownFlag \/ EndOfOptions
  \/ ShowUsage \/ ShowHelp \/ OpenFile
  \/ ReadElf \/ MapFile \/ MapData \/ Interpret

(* One process that waits for nothing but system calls that return.        *)
Spec == Init /\ [][Next]_vars /\ WF_vars(Next)

-----------------------------------------------------------------------------
(* The type of every variable.                                             *)
TypeOK ==
  /\ args \in CommandLines /\ i \in 1..(Len(args) + 2)
  /\ \E f \in Files : file = f.elf /\ bytes = f.bytes
  /\ res \in BOOLEAN /\ help \in BOOLEAN
  /\ input = None \/ input \in {args[n] : n \in DOMAIN args} \ Dashed
  /\ mode \in {"raw", "elf"} /\ empend \in 0..(SizeT - 1)
  /\ stage \in {"parsing", "parsed", "raw", "data", "elf", "read", "running",
                "exited"}
  /\ exit \in {0, 1, Errno} /\ code \in {0, 1, Errno}
  /\ entry \in 0..U32 /\ offset \in -U32..0
  /\ returned \in BOOLEAN /\ mem \in BOOLEAN
  /\ held \subseteq {"image", "file", "data", "elsewhere"}

(* The command line as its reader understands it: a word belongs to the    *)
(* option before it, whose value it is, or stands for itself.              *)
WordOf[n \in 0..Len(args)] ==
  IF n > 1 /\ WordOf[n - 1] = n - 1 /\ args[n - 1] \in {"--mode", "--empend-segment"}
  THEN n - 1 ELSE n
IsValue(n) == WordOf[n] # n
Places(words) == {n \in DOMAIN args : ~IsValue(n) /\ args[n] \in words}
Named == {n \in DOMAIN args : ~IsValue(n) /\ args[n] \notin Dashed}
Modes == {n + 1 : n \in Places({"--mode"})}
Sizes == {n + 1 : n \in Places({"--empend-segment"})}
HelpAsked == Places({"--help"}) # {}

WellFormed ==
  /\ \E n \in Named : Named = {n}
  /\ Places(Dashed \ {"--mode", "--empend-segment", "--help"}) = {}
  /\ Modes \union Sizes \subseteq DOMAIN args
  /\ \A n \in Modes : args[n] \in {"raw", "elf"}
  /\ \A n \in Sizes : strtoull(args[n]) # SizeT - 1

AskedMode ==
  IF Modes = {} THEN "elf"
  ELSE args[CHOOSE n \in Modes : \A m \in Modes : m <= n]
AskedUpTo[n \in 0..Len(args)] ==
  IF n = 0 THEN 0
  ELSE AskedUpTo[n - 1] + IF n \in Sizes THEN strtoull(args[n]) ELSE 0
AskedSize == AskedUpTo[Len(args)]

Opened == stage \in {"raw", "data", "elf", "read", "running"}

(* cpu opens a file only for a command line it understands as a whole: the *)
(* one file named, in the last mode asked for, with all the sizes added;   *)
(* a flag that is another flag's value is no flag.                         *)
RunsWhatWasAsked ==
  Opened =>
    /\ WellFormed /\ ~HelpAsked
    /\ \A n \in Named : input = args[n]
    /\ mode = AskedMode /\ empend = AskedSize % SizeT
    /\ mode = "elf" => empend = 0

(* Status 0 without having run anything is the help's: whoever asks for    *)
(* help gets it whatever else the line says, and no line that is wrong and *)
(* no failure of any step passes for success.                              *)
ZeroIsHelp ==
  stage = "exited" =>
    /\ HelpAsked => exit = 0
    /\ exit = 0 => /\ held = {} /\ ~mem
                   /\ HelpAsked \/ WellFormed

(* A raw program is entered at its first instruction, directly before it   *)
(* as much writable memory as was asked for, in whole pages and no page    *)
(* more; as long as what was asked for fits a u32 when rounded up, and the *)
(* kernel knows MAP_FIXED_NOREPLACE.                                       *)
DataSegmentAsAsked ==
  stage = "running" /\ mode = "raw" /\ AskedSize <= U32 - PageSize
  /\ "elsewhere" \notin held =>
    /\ entry = -offset /\ entry % PageSize = 0
    /\ AskedSize <= entry /\ entry < AskedSize + PageSize
    /\ ("data" \in held) = (AskedSize > 0)

(* The interpreter starts on an image that a loader has filled in and that *)
(* is still mapped, with one exception: errors of the ELF loader that      *)
(* return 0.                                                               *)
InterpretsOnlyLoaded ==
  stage = "running" =>
    \/ mem /\ (mode = "raw" => "file" \in held) /\ (mode = "elf" => held = {"image"})
    \/ mode = "elf" /\ Elf!Silent

(* Every command line is read to its end, also when the value of its last  *)
(* option is missing and the index passes the end by two; and cpu either   *)
(* runs the program or exits.                                              *)
RunsOrExits == <>(stage \in {"running", "exited"})
=============================================================================
