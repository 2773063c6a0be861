----------------------------- MODULE CpuProofs -----------------------------
(***************************************************************************)
(* Proofs about cpu before its first instruction, for every set of command *)
(* lines and files and every width of a u32 and a size_t.                  *)
(*                                                                         *)
(* The argument: main() passes from stage to stage, and LoadInv says for   *)
(* each of them what the two loaders have left behind.  Up to the loaders  *)
(* nothing is acquired; between the two mappings of the raw loader it is   *)
(* the file alone; and once a loader has returned, success means a filled  *)
(* in image, laid out as asked for, but for the silent errors of the ELF   *)
(* loader.  What the interpreter relies on is LoadInv where it begins.     *)
(***************************************************************************)
EXTENDS Cpu, Induction, TLAPS

(* Rounding up to a page stays within a u32, and below its last page it    *)
(* gives the least number of whole pages that is enough.                   *)
LEMMA AlignUpwardsProperties ==
  ASSUME NEW val \in 0..(U32 - 1)
  PROVE  /\ align_upwards(val) \in 0..(U32 - 1)
         /\ val <= U32 - PageSize =>
              /\ align_upwards(val) % PageSize = 0
              /\ val <= align_upwards(val) /\ align_upwards(val) < val + PageSize
<1> DEFINE P == PageSize
           n == val + P - 1
           sum == n % U32
<1>1. P \in Nat \ {0} /\ U32 \in Nat /\ U32 > P
  BY WidthsAssumption
<1>2. n \in Nat
  BY <1>1
<1>3. sum \in 0..(U32 - 1)
  <2>1. \A k \in Nat : k % U32 \in 0..(U32 - 1)
    BY <1>1
  <2> HIDE DEF n
  <2> QED BY <2>1, <1>2
<1>4. val <= U32 - PageSize => sum = n
  <2>1. \A k, m \in Nat : k < m => k % m = k
    OBVIOUS
  <2>2. val <= U32 - PageSize => n < U32
    BY <1>1
  <2> HIDE DEF n
  <2> QED BY <2>1, <2>2, <1>1, <1>2
<1> DEFINE q == sum \div P
           r == sum % P
<1> HIDE DEF sum
<1>5. q \in Nat /\ r \in 0..(P - 1) /\ sum = P * q + r
  BY <1>1, <1>3
<1>6. align_upwards(val) = sum - r
  BY DEF align_upwards, sum
<1>7. P * q = q * P /\ q * P \in Nat
  BY <1>1, <1>5
<1>8. align_upwards(val) = q * P
  BY <1>1, <1>3, <1>5, <1>6, <1>7
<1>9. \A k \in Nat : (k * P) % P = 0
  BY <1>1
<1> HIDE DEF q, r
<1>10. align_upwards(val) % P = 0
  BY <1>5, <1>8, <1>9
<1>11. align_upwards(val) \in 0..(U32 - 1)
  BY <1>1, <1>3, <1>5, <1>6, <1>7, <1>8
<1>12. val <= U32 - PageSize =>
         val <= align_upwards(val) /\ align_upwards(val) < val + PageSize
  BY <1>1, <1>4, <1>5, <1>6
<1> QED BY <1>10, <1>11, <1>12

LEMMA StrtoullType == \A word : strtoull(word) \in 0..(SizeT - 1)
BY NumbersAssumption, WidthsAssumption DEF strtoull

-----------------------------------------------------------------------------
(* What the loaders have left behind, by stage.                            *)
Untouched ==
  ~returned /\ ~mem /\ held = {} /\ code = 0 /\ entry = 0 /\ offset = 0

(* The data segment as the option's sum asks for it, when that sum rounded *)
(* up fits a u32 and the kernel knows MAP_FIXED_NOREPLACE.                 *)
DataSegmentBefore ==
  empend <= U32 - PageSize /\ "elsewhere" \notin held =>
    /\ entry = -offset /\ entry % PageSize = 0
    /\ empend <= entry /\ entry < empend + PageSize
    /\ ("data" \in held) = (empend > 0)

Loaded ==
  /\ mode = "raw" => mem /\ "file" \in held /\ DataSegmentBefore
  /\ mode = "elf" => (mem /\ held = {"image"}) \/ Elf!Silent

LoadInv ==
  /\ stage \in {"parsing", "parsed", "raw", "elf"} => Untouched
  /\ stage \in {"raw", "data"} => mode = "raw"
  /\ stage = "elf" => mode = "elf"
  /\ stage = "data" => /\ mem /\ held = {"file"} /\ code = 0
                       /\ entry = 0 /\ offset = 0 /\ empend % U32 > 0
  /\ stage = "read" /\ code = 0 => Loaded
  /\ stage = "running" => code = 0 /\ Loaded

CpuInv == TypeOK /\ LoadInv

LEMMA CpuInit == Init => CpuInv
<1> SUFFICES ASSUME Init PROVE CpuInv
  OBVIOUS
<1>1. /\ args \in CommandLines /\ i = 1 /\ res = TRUE
      /\ input = None /\ mode = "elf" /\ empend = 0 /\ help = FALSE
      /\ stage = "parsing" /\ exit = 0 /\ entry = 0 /\ offset = 0
      /\ returned = FALSE /\ code = 0 /\ mem = FALSE /\ held = {}
  BY DEF Init, Elf!Init
<1>2. \E f \in Files : file = f.elf /\ bytes = f.bytes
  BY DEF Init
<1>3. Len(args) \in Nat
  BY <1>1, LinesAssumption
<1>4. TypeOK
  <2>1. 0 \in 0..U32 /\ 0 \in -U32..0 /\ 0 \in 0..(SizeT - 1) /\ i \in 1..(Len(args) + 2)
    BY <1>1, <1>3, WidthsAssumption
  <2> QED BY <1>1, <1>2, <2>1 DEF TypeOK
<1>5. LoadInv
  BY <1>1 DEF LoadInv, Untouched
<1> QED BY <1>4, <1>5 DEF CpuInv

-----------------------------------------------------------------------------
(* parse_options() leaves everything else alone.                           *)
Parse ==
  \/ PositionalArgument \/ ModeOption \/ EmpendSegment \/ HelpOption
  \/ UnknownFlag \/ EndOfOptions

LEMMA ParseStep == CpuInv /\ Parse => CpuInv'
<1> SUFFICES ASSUME CpuInv, Parse PROVE CpuInv'
  OBVIOUS
<1>1. /\ stage = "parsing" /\ stage' \in {"parsing", "parsed"}
      /\ UNCHANGED <<args, exit, file, bytes, loading>>
  BY DEF Parse, PositionalArgument, ModeOption, EmpendSegment, HelpOption,
         UnknownFlag, EndOfOptions, Reads
<1>2. LoadInv'
  BY <1>1 DEF CpuInv, LoadInv, Untouched, loading
<1>3. Len(args) \in Nat /\ args \in CommandLines
  BY LinesAssumption DEF CpuInv, TypeOK
<1>4. i' \in 1..(Len(args') + 2)
  <2>1. i \in 1..(Len(args) + 2)
    BY DEF CpuInv, TypeOK
  <2>2. i' = i \/ (i <= Len(args) /\ i' \in {i + 1, i + 2})
    BY DEF Parse, PositionalArgument, ModeOption, EmpendSegment, HelpOption,
           UnknownFlag, EndOfOptions, Reads, Advance
  <2> QED BY <2>1, <2>2, <1>1, <1>3
<1>5. empend' \in 0..(SizeT - 1)
  <2>1. empend \in 0..(SizeT - 1)
    BY DEF CpuInv, TypeOK
  <2>2. CASE EmpendSegment
    <3>1. empend' = IF HasValue THEN (empend + strtoull(Value)) % SizeT ELSE empend
      BY <2>2 DEF EmpendSegment, Addend
    <3>2. \A n \in Nat : n % SizeT \in 0..(SizeT - 1)
      BY WidthsAssumption
    <3>3. empend + strtoull(Value) \in Nat
      BY <2>1, StrtoullType
    <3> QED BY <3>1, <3>2, <3>3, <2>1
  <2>3. CASE ~EmpendSegment
    BY <2>1, <2>3 DEF Parse, PositionalArgument, ModeOption, HelpOption,
                      UnknownFlag, EndOfOptions, options
  <2> QED BY <2>2, <2>3
<1>6. mode' \in {"raw", "elf"}
  <2>1. CASE ModeOption
    BY <2>1 DEF ModeOption, KnownMode, CpuInv, TypeOK
  <2>2. CASE ~ModeOption
    BY <2>2 DEF Parse, PositionalArgument, EmpendSegment, HelpOption,
                UnknownFlag, EndOfOptions, options, CpuInv, TypeOK
  <2> QED BY <2>1, <2>2
<1>7. input' = None \/ input' \in {args[n] : n \in DOMAIN args} \ Dashed
  <2>1. CASE PositionalArgument
    BY <2>1 DEF PositionalArgument, Reads
  <2>2. CASE ~PositionalArgument
    BY <2>2 DEF Parse, ModeOption, EmpendSegment, HelpOption,
                UnknownFlag, EndOfOptions, options, CpuInv, TypeOK
  <2> QED BY <2>1, <2>2
<1>8. res' \in BOOLEAN /\ help' \in BOOLEAN
  <2>1. res \in BOOLEAN /\ help \in BOOLEAN
    BY DEF CpuInv, TypeOK
  <2>2. help' \in {help, TRUE}
    BY DEF Parse, PositionalArgument, ModeOption, EmpendSegment, HelpOption,
           UnknownFlag, EndOfOptions, options
  <2>3. res' \in BOOLEAN
    BY <2>1 DEF Parse, PositionalArgument, ModeOption, EmpendSegment, HelpOption,
           UnknownFlag, EndOfOptions
  <2> QED BY <2>1, <2>2, <2>3
<1>9. TypeOK'
  BY <1>1, <1>4, <1>5, <1>6, <1>7, <1>8 DEF CpuInv, TypeOK, loading
<1> QED BY <1>2, <1>9 DEF CpuInv

-----------------------------------------------------------------------------
LEMMA OpeningStep == CpuInv /\ (ShowUsage \/ ShowHelp \/ OpenFile) => CpuInv'
<1> SUFFICES ASSUME CpuInv, ShowUsage \/ ShowHelp \/ OpenFile PROVE CpuInv'
  OBVIOUS
<1>1. mode \in {"raw", "elf"}
  BY DEF CpuInv, TypeOK
<1>2. /\ stage = "parsed"
      /\ \/ stage' = "exited" /\ exit' \in {0, 1}
         \/ stage' = mode /\ exit' = exit
      /\ UNCHANGED <<args, i, res, options, file, bytes, loading>>
  BY <1>1 DEF ShowUsage, ShowHelp, OpenFile, Exit, Goto, Main
<1>3. TypeOK'
  BY <1>1, <1>2 DEF CpuInv, TypeOK, options, loading
<1>4. LoadInv'
  BY <1>1, <1>2 DEF CpuInv, LoadInv, Untouched, options, loading
<1> QED BY <1>3, <1>4 DEF CpuInv

LEMMA ReadElfStep == CpuInv /\ ReadElf => CpuInv'
<1> SUFFICES ASSUME CpuInv, ReadElf PROVE CpuInv'
  OBVIOUS
<1>1. /\ stage = "elf" /\ stage' = "read" /\ exit' = exit /\ mode = "elf"
      /\ UNCHANGED <<args, i, res, options, file, bytes, entry, offset>>
  BY DEF ReadElf, Goto, Main, CpuInv, LoadInv
<1>2. /\ returned' = TRUE
      /\ \/ mem' = TRUE /\ held' = {"image"} /\ code' \in {0, 1}
         \/ /\ mem' = FALSE /\ held' = {}
            /\ code' = 1 \/ (code' = 0 /\ Elf!Silent)
  BY DEF ReadElf, Elf!Return, Elf!Load, Elf!Refuse
<1>3. TypeOK'
  BY <1>1, <1>2 DEF CpuInv, TypeOK, options
<1>4. Elf!Silent' = Elf!Silent
  BY <1>1 DEF Elf!Silent, Elf!Acceptable, Elf!Executable, Elf!Relocates, Elf!Has
<1>5. LoadInv'
  BY <1>1, <1>2, <1>4 DEF LoadInv, Loaded, options
<1> QED BY <1>3, <1>5 DEF CpuInv

LEMMA MapFileStep == CpuInv /\ MapFile => CpuInv'
<1> SUFFICES ASSUME CpuInv, MapFile PROVE CpuInv'
  OBVIOUS
<1>1. /\ stage = "raw" /\ exit' = exit /\ mode = "raw"
      /\ entry' = 0 /\ offset' = 0
      /\ UNCHANGED <<args, i, res, options, file, bytes, returned>>
  BY DEF MapFile, Goto, Main, CpuInv, LoadInv
<1>2. \/ stage' = "read" /\ code' = Errno /\ mem' = mem /\ held' = held
      \/ /\ mem' = TRUE /\ held' = {"file"} /\ code' = 0
         /\ stage' = IF empend % U32 > 0 THEN "data" ELSE "read"
  BY DEF MapFile, Goto
<1>3. TypeOK'
  <2>1. 0 \in 0..U32 /\ 0 \in -U32..0
    BY WidthsAssumption
  <2>2. code' \in {0, 1, Errno} /\ mem' \in BOOLEAN
    BY <1>2 DEF CpuInv, TypeOK
  <2>3. stage' \in {"data", "read"} /\ held' \subseteq {"image", "file", "data", "elsewhere"}
    BY <1>2 DEF CpuInv, TypeOK
  <2> QED BY <1>1, <2>1, <2>2, <2>3 DEF CpuInv, TypeOK, options
<1>4. ASSUME ~(empend % U32 > 0), held' = {"file"}
      PROVE  DataSegmentBefore'
  <2>1. empend \in Nat /\ PageSize \in Nat \ {0} /\ U32 \in Nat
    BY WidthsAssumption DEF CpuInv, TypeOK
  <2>2. empend <= U32 - PageSize => empend = 0
    <3>1. \A n, m \in Nat : n < m => n % m = n
      OBVIOUS
    <3> QED BY <3>1, <2>1, <1>4
  <2>3. 0 % PageSize = 0
    BY <2>1
  <2>4. empend' = empend /\ "data" \notin held'
    BY <1>1, <1>4 DEF options
  <2>5. entry' = -offset' /\ entry' % PageSize = 0
    <3>1. entry' = 0 /\ offset' = 0
      BY <1>1
    <3>2. \A n, m \in Int : n + m = 0 => n = -m
      OBVIOUS
    <3>3. entry' \in Int /\ offset' \in Int /\ entry' + offset' = 0
      BY <3>1
    <3>4. entry' % PageSize = 0
      BY <3>1, <2>3, Zenon
    <3>5. entry' = -offset'
      BY ONLY <3>2, <3>3, Zenon
    <3> QED BY <3>4, <3>5
  <2> QED BY <2>1, <2>2, <2>4, <2>5, <1>1 DEF DataSegmentBefore
<1>5. LoadInv'
  BY <1>1, <1>2, <1>4 DEF LoadInv, Loaded, Errno, options
<1> QED BY <1>3, <1>5 DEF CpuInv

LEMMA MapDataStep == CpuInv /\ MapData => CpuInv'
<1> SUFFICES ASSUME CpuInv, MapData PROVE CpuInv'
  OBVIOUS
<1> DEFINE asked == empend % U32
           aligned == align_upwards(asked)
<1>1. /\ stage = "data" /\ stage' = "read" /\ exit' = exit /\ mode = "raw"
      /\ mem /\ held = {"file"} /\ code = 0 /\ asked > 0
      /\ entry = 0 /\ offset = 0
      /\ UNCHANGED <<args, i, res, options, file, bytes, mem, returned>>
  BY DEF MapData, Goto, Main, CpuInv, LoadInv
<1>2. \/ code' = Errno /\ UNCHANGED <<entry, offset, held>>
      \/ /\ aligned > 0 /\ entry' = aligned /\ offset' = -aligned
         /\ code' = 0 /\ held' = {"file", "data"}
      \/ /\ code' \in {0, Errno} /\ held' = {"file", "elsewhere"}
         /\ UNCHANGED <<entry, offset>>
  BY <1>1 DEF MapData
<1>3. empend \in Nat /\ U32 \in Nat /\ PageSize \in Nat \ {0} /\ U32 > PageSize
  BY WidthsAssumption DEF CpuInv, TypeOK
<1>4. asked \in 0..(U32 - 1) /\ (empend < U32 => asked = empend)
  <2>1. \A n, m \in Nat : m > 0 => n % m \in 0..(m - 1) /\ (n < m => n % m = n)
    OBVIOUS
  <2> QED BY <2>1, <1>3
<1> HIDE DEF asked
<1>5. /\ aligned \in 0..(U32 - 1)
      /\ asked <= U32 - PageSize =>
           aligned % PageSize = 0 /\ asked <= aligned /\ aligned < asked + PageSize
  BY <1>4, AlignUpwardsProperties
<1> HIDE DEF aligned
<1>6. TypeOK'
  BY <1>1, <1>2, <1>3, <1>5 DEF CpuInv, TypeOK, options
<1>7. ASSUME "elsewhere" \notin held', code' = 0, empend <= U32 - PageSize
      PROVE  /\ entry' = -offset' /\ entry' % PageSize = 0
             /\ empend <= entry' /\ entry' < empend + PageSize
             /\ "data" \in held' /\ empend > 0
  <2>1. entry' = aligned /\ offset' = -aligned /\ held' = {"file", "data"}
    BY <1>2, <1>7 DEF Errno
  <2>2. asked = empend /\ asked <= U32 - PageSize
    BY <1>3, <1>4, <1>7
  <2> QED BY <2>1, <2>2, <1>1, <1>3, <1>5
<1>8. code' = 0 => DataSegmentBefore'
  BY <1>1, <1>7 DEF DataSegmentBefore, options
<1>9. LoadInv'
  BY <1>1, <1>2, <1>8 DEF LoadInv, Loaded, options
<1> QED BY <1>6, <1>9 DEF CpuInv

LEMMA InterpretStep == CpuInv /\ Interpret => CpuInv'
<1> SUFFICES ASSUME CpuInv, Interpret PROVE CpuInv'
  OBVIOUS
<1>1. /\ stage = "read"
      /\ IF code = 0 THEN stage' = "running" /\ exit' = exit
         ELSE stage' = "exited" /\ exit' = code
      /\ UNCHANGED <<args, i, res, options, file, bytes, loading>>
  BY DEF Interpret, Succeeded, Goto, Exit, Main
<1>2. TypeOK'
  BY <1>1 DEF CpuInv, TypeOK, options, loading
<1>3. Loaded' = Loaded
  BY <1>1 DEF Loaded, DataSegmentBefore, Elf!Silent, Elf!Acceptable,
              Elf!Executable, Elf!Relocates, Elf!Has, options, loading
<1>4. LoadInv'
  BY <1>1, <1>3 DEF CpuInv, LoadInv, loading
<1> QED BY <1>2, <1>4 DEF CpuInv

LEMMA CpuStutter == CpuInv /\ UNCHANGED vars => CpuInv'
BY DEF vars, options, loading, CpuInv, TypeOK, LoadInv, Untouched, Loaded,
       DataSegmentBefore, Elf!Silent, Elf!Acceptable, Elf!Executable,
       Elf!Relocates, Elf!Has

LEMMA CpuInvariant == Spec => []CpuInv
<1>1. CpuInv /\ [Next]_vars => CpuInv'
  BY ParseStep, OpeningStep, ReadElfStep, MapFileStep, MapDataStep,
     InterpretStep, CpuStutter DEF Next, Parse
<1> QED BY CpuInit, <1>1, PTL DEF Spec

-----------------------------------------------------------------------------
(* The command line.  parse_options() reads it word by word, two at a time *)
(* for an option with a value; the definitions of Cpu read it as a whole.  *)
(* LineInv says that the two agree on the words seen so far, and with all  *)
(* of them seen, on the line.                                              *)

(* The two recursive functions over the line are equal to what defines     *)
(* them: by induction over the line, a function that is exists.            *)
Owner(f, n) ==
  IF n > 1 /\ f[n - 1] = n - 1 /\ args[n - 1] \in {"--mode", "--empend-segment"}
  THEN n - 1 ELSE n

LEMMA WordOfEquation ==
  ASSUME Len(args) \in Nat
  PROVE  \A n \in 0..Len(args) : WordOf[n] = Owner(WordOf, n)
<1> DEFINE N == Len(args)
           step == [m \in Nat |-> [x \in Int |->
                      IF m > 0 /\ x = m /\ args[m] \in {"--mode", "--empend-segment"}
                      THEN m ELSE m + 1]]
           first == 0
<1>1. step \in [Nat -> [Int -> Int]] /\ first \in Int
  OBVIOUS
<1>2. \A m \in Nat, x \in Int :
        step[m][x] = IF m > 0 /\ x = m /\ args[m] \in {"--mode", "--empend-segment"}
                     THEN m ELSE m + 1
  OBVIOUS
<1> HIDE DEF step, first, N
<1>3. PICK f \in [0..N -> Int] :
        f[0] = first /\ \A n \in 0..(N - 1) : f[n + 1] = step[n][f[n]]
  <2>1. N \in Nat 
    BY DEF N
  <2> QED BY <1>1, <2>1, RecursiveFunction
<1>4. ASSUME NEW n \in 0..N PROVE f[n] = Owner(f, n)
  <2>0. N \in Nat 
    BY DEF N
  <2>1. CASE n = 0 
    BY <2>1, <1>3 DEF Owner, first
  <2>2. CASE n # 0
    <3> DEFINE m == n - 1
    <3>1. m \in 0..(N - 1) /\ m \in Nat /\ m + 1 = n /\ f[m] \in Int /\ (m > 0 <=> n > 1)
      BY <2>0, <2>2, <1>3
    <3> HIDE DEF m
    <3>2. f[n] = step[m][f[m]]
      BY <3>1, <1>3
    <3>3. f[n] = IF m > 0 /\ f[m] = m /\ args[m] \in {"--mode", "--empend-segment"}
                 THEN m ELSE m + 1
      BY <3>1, <3>2, <1>2
    <3>4. Owner(f, n) = IF n > 1 /\ f[m] = m /\ args[m] \in {"--mode", "--empend-segment"}
                 THEN m ELSE n
      BY DEF Owner, m
    <3> QED BY <3>1, <3>3, <3>4
  <2> QED BY <2>1, <2>2
<1>5. f = [n \in 0..N |-> f[n]]
  BY <1>3
<1>6. [n \in 0..N |-> f[n]] = [n \in 0..N |-> Owner(f, n)]
  BY <1>4, Zenon
<1>7. WordOf = [n \in 0..N |-> Owner(WordOf, n)]
  BY <1>5, <1>6, Zenon DEF WordOf, Owner, N
<1> QED BY <1>7, Zenon DEF N

(* The words of the line that have been read and are no values; and what   *)
(* has to be true of each of them, and of all, for there to be no          *)
(* objection so far.                                                       *)
Flags == {"--mode", "--empend-segment", "--help"}
Seen == {n \in DOMAIN args : ~IsValue(n) /\ n < i}
SoundAt(n) ==
  /\ args[n] \in Dashed => args[n] \in Flags
  /\ args[n] = "--mode" => n < Len(args) /\ args[n + 1] \in {"raw", "elf"}
  /\ args[n] = "--empend-segment" => n < Len(args) /\ strtoull(args[n + 1]) # SizeT - 1
SoundSoFar ==
  /\ \A n \in Seen : SoundAt(n)
  /\ \A n, m \in Seen : args[n] \notin Dashed /\ args[m] \notin Dashed => n = m

(* How far the sum of the sizes has got: the value of an option is added   *)
(* together with the option.                                               *)
Summed == IF i <= Len(args) THEN i - 1 ELSE Len(args)

(* The members of struct cli_options and the result say of the words seen  *)
(* what they have to say of all of them at the end.                        *)
ReadInv ==
  /\ ~help
  /\ i <= Len(args) => ~IsValue(i)
  /\ \A n \in Seen : args[n] # "--help"
  /\ res <=> SoundSoFar
  /\ input = None <=> \A n \in Seen : args[n] \in Dashed
  /\ res => \A n \in Seen : args[n] \notin Dashed => input = args[n]
  /\ (\A n \in Seen : args[n] # "--mode") => mode = "elf"
  /\ res => \A n \in Seen :
       args[n] = "--mode" /\ (\A m \in Seen : args[m] = "--mode" => m <= n) => mode = args[n + 1]
  /\ empend = AskedUpTo[Summed] % SizeT

(* At the end: help as soon as it is asked for, else an objection if and   *)
(* only if the line is not well formed, and what was asked for.            *)
AsAsked ==
  /\ \A n \in Named : input = args[n]
  /\ mode = AskedMode /\ empend = AskedSize % SizeT
ParsedInv ==
  /\ help <=> HelpAsked
  /\ help => res
  /\ ~help => (res <=> WellFormed) /\ (res => AsAsked)

(* Later stages are reached only without objection and without --help;     *)
(* after --help the status is 0, and 0 is the status of nothing else.      *)
StageInv ==
  /\ Opened => res /\ ~help /\ (mode = "elf" => empend = 0)
  /\ stage = "exited" => /\ help => exit = 0
                         /\ exit = 0 => res /\ held = {} /\ ~mem
LineInv ==
  /\ stage = "parsing" => ReadInv
  /\ stage # "parsing" => ParsedInv
  /\ StageInv

(* A word is a value if the word before it is an option that takes one,    *)
(* and no value itself.                                                    *)
LEMMA IsValueProperties ==
  ASSUME Len(args) \in Nat
  PROVE  \A n \in 1..Len(args) :
           IsValue(n) <=> /\ n > 1 /\ ~IsValue(n - 1)
                          /\ args[n - 1] \in {"--mode", "--empend-segment"}
<1> SUFFICES ASSUME NEW n \in 1..Len(args)
             PROVE  IsValue(n) <=> /\ n > 1 /\ ~IsValue(n - 1)
                                   /\ args[n - 1] \in {"--mode", "--empend-segment"}
  OBVIOUS
<1>1. WordOf[n] = Owner(WordOf, n)
  BY WordOfEquation
<1>2. n # n - 1
  OBVIOUS
<1> QED BY <1>1, <1>2 DEF Owner, IsValue

(* What depends on the command line alone.                                 *)
LEMMA SameWords == args' = args => /\ WordOf' = WordOf
                                   /\ \A n : IsValue(n)' = IsValue(n)
                                   /\ \A W : Places(W)' = Places(W)
                                   /\ Named' = Named /\ Sizes' = Sizes /\ Modes' = Modes
                                   /\ AskedUpTo' = AskedUpTo
                                   /\ \A n : SoundAt(n)' = SoundAt(n)
<1> SUFFICES ASSUME args' = args
             PROVE  /\ WordOf' = WordOf
                    /\ \A n : IsValue(n)' = IsValue(n)
                    /\ \A W : Places(W)' = Places(W)
                    /\ Named' = Named /\ Sizes' = Sizes /\ Modes' = Modes
                    /\ AskedUpTo' = AskedUpTo
                    /\ \A n : SoundAt(n)' = SoundAt(n)
  OBVIOUS
<1>1. WordOf' = WordOf
  BY Zenon DEF WordOf
<1>2. \A n : IsValue(n)' = IsValue(n)
  BY <1>1, Zenon DEF IsValue
<1>3. \A W : Places(W)' = Places(W)
  BY <1>2, Zenon DEF Places
<1>4. Named' = Named /\ Sizes' = Sizes /\ Modes' = Modes
  BY <1>2, <1>3, Zenon DEF Named, Sizes, Modes
<1>5. AskedUpTo' = AskedUpTo
  BY <1>4, Zenon DEF AskedUpTo, strtoull
<1>6. \A n : SoundAt(n)' = SoundAt(n)
  BY Zenon DEF SoundAt, strtoull
<1> QED BY <1>1, <1>2, <1>3, <1>4, <1>5, <1>6, Zenon

(* What the word at n adds to the size asked for.                          *)
Added(n) == IF n \in Sizes THEN strtoull(args[n]) ELSE 0
(* The sum of the sizes is a number, and each word adds its part.          *)
LEMMA AskedUpToProperties ==
  ASSUME Len(args) \in Nat
  PROVE  /\ \A n \in 0..Len(args) : AskedUpTo[n] \in Nat
         /\ AskedUpTo[0] = 0
         /\ \A n \in 1..Len(args) : AskedUpTo[n] = AskedUpTo[n - 1] + Added(n)
<1> DEFINE N == Len(args)
           step == [m \in Nat |-> [x \in Int |-> x + Added(m + 1)]]
           first == 0
           Sum(f, n) == IF n = 0 THEN 0 ELSE f[n - 1] + Added(n)
<1>1. \A n : Added(n) \in Nat
  BY StrtoullType, WidthsAssumption DEF Added
<1>2. step \in [Nat -> [Int -> Int]] /\ first \in Int
  BY <1>1
<1>3. \A m \in Nat, x \in Int : step[m][x] = x + Added(m + 1)
  OBVIOUS
<1>4. N \in Nat
  OBVIOUS
<1> HIDE DEF step, first, N
<1>5. PICK f \in [0..N -> Int] :
        f[0] = first /\ \A n \in 0..(N - 1) : f[n + 1] = step[n][f[n]]
  BY <1>2, <1>4, RecursiveFunction
<1>6. ASSUME NEW n \in 0..N PROVE f[n] = Sum(f, n)
  <2>1. CASE n = 0
    BY <2>1, <1>5 DEF first
  <2>2. CASE n # 0
    <3>1. n - 1 \in 0..(N - 1) /\ n - 1 \in Nat /\ (n - 1) + 1 = n /\ f[n - 1] \in Int
      BY <2>2, <1>4, <1>5
    <3> QED BY <2>2, <3>1, <1>3, <1>5
  <2> QED BY <2>1, <2>2
<1>7. f = [n \in 0..N |-> f[n]]
  BY <1>5
<1>8. [n \in 0..N |-> f[n]] = [n \in 0..N |-> Sum(f, n)]
  BY <1>6, Zenon
<1>9. AskedUpTo = [n \in 0..N |-> Sum(AskedUpTo, n)]
  BY <1>7, <1>8, Zenon DEF AskedUpTo, Added, N
<1>10. AskedUpTo[0] = 0 /\ \A n \in 1..N : AskedUpTo[n] = AskedUpTo[n - 1] + Added(n)
  BY <1>4, <1>9
<1>11. \A n \in 0..N : AskedUpTo[n] \in Nat
  <2> DEFINE S == {n \in 0..N : AskedUpTo[n] \in Nat}
  <2>1. 0 \in S
    BY <1>4, <1>10
  <2>2. \A n \in 0..(N - 1) : n \in S => n + 1 \in S
    BY <1>1, <1>4, <1>10
  <2> HIDE DEF S
  <2>3. \A n \in 0..N : n \in S
    BY <1>4, <2>1, <2>2, BoundedInduction
  <2> QED BY <2>3 DEF S
<1> QED BY <1>10, <1>11 DEF N

(* Wrapping at every addition is wrapping once at the end.                 *)
LEMMA ModuloOfSum ==
  ASSUME NEW M \in Nat \ {0}, NEW a \in Nat, NEW x \in Nat
  PROVE  ((a % M) + x) % M = (a + x) % M
<1> DEFINE b == a % M
           n == b + x
<1>1. b \in 0..(M - 1) /\ (a \div M) \in Nat /\ a = M * (a \div M) + b
  OBVIOUS
<1>2. n \in Nat /\ n % M \in 0..(M - 1) /\ (n \div M) \in Nat /\ n = M * (n \div M) + (n % M)
  BY <1>1
<1> DEFINE p == a \div M
           q == n \div M
           r == n % M
<1>3. a + x = M * p + (M * q + r)
  BY <1>1, <1>2
<1> HIDE DEF p, q, r, b, n
<1>4. M * p + (M * q + r) = (p + q) * M + r
  BY <1>1, <1>2 DEF p, q, r
<1>5. \A k \in Nat : \A s \in 0..(M - 1) : (k * M + s) % M = s
  OBVIOUS
<1>6. p + q \in Nat /\ r \in 0..(M - 1)
  BY <1>1, <1>2 DEF p, q, r
<1>7. (a + x) % M = r
  BY <1>3, <1>4, <1>5, <1>6
<1> QED BY <1>7 DEF r, n, b

(* Reading goes on behind the option at i and, if it takes one, its value. *)
LEMMA SeenStep ==
  ASSUME TypeOK, i \in DOMAIN args, ~IsValue(i), args' = args,
         i' = IF args[i] \in {"--mode", "--empend-segment"} THEN i + 2 ELSE i + 1
  PROVE  /\ Seen' = Seen \union {i} /\ \A n \in Seen : n < i
         /\ i' <= Len(args) => ~IsValue(i')
<1>1. Len(args) \in Nat /\ DOMAIN args = 1..Len(args) /\ i \in 1..Len(args)
  BY LinesAssumption DEF TypeOK
<1>2. ASSUME NEW n \in DOMAIN args
      PROVE  ~IsValue(n) /\ n < i' <=> (~IsValue(n) /\ n < i) \/ n = i
  <2>1. n = i + 1 /\ n < i' => IsValue(n)
    BY <1>1, IsValueProperties
  <2>2. n < i' /\ ~(n < i) /\ n # i => n = i + 1
    BY <1>1
  <2>3. i < i'
    BY <1>1
  <2> QED BY <1>1, <2>1, <2>2, <2>3
<1>3. Seen' = Seen \union {i}
  <2>1. Seen' = {n \in DOMAIN args : ~IsValue(n) /\ n < i'}
    BY SameWords, Zenon DEF Seen
  <2> QED BY <1>1, <1>2, <2>1 DEF Seen
<1>4. ASSUME i' <= Len(args) PROVE ~IsValue(i')
  <2>1. i' \in 1..Len(args)
    BY <1>1, <1>4
  <2>2. CASE args[i] \in {"--mode", "--empend-segment"}
    <3>1. i + 1 \in 1..Len(args) /\ (i + 1) - 1 = i /\ i' - 1 = i + 1
      BY <1>1, <2>1, <2>2
    <3>2. IsValue(i + 1)
      BY <1>1, <2>2, <3>1, IsValueProperties
    <3> QED BY <1>1, <2>1, <3>1, <3>2, IsValueProperties
  <2>3. CASE args[i] \notin {"--mode", "--empend-segment"}
    <3>1. i' - 1 = i
      BY <1>1, <2>3
    <3> QED BY <1>1, <2>1, <2>3, <3>1, IsValueProperties
  <2> QED BY <2>2, <2>3
<1> QED BY <1>3, <1>4, <1>1 DEF Seen

(* The sum so far, after the option at i.                                  *)
LEMMA SummedStep ==
  ASSUME TypeOK, i \in DOMAIN args, ~IsValue(i), args' = args,
         i' = IF args[i] \in {"--mode", "--empend-segment"} THEN i + 2 ELSE i + 1
  PROVE  /\ AskedUpTo[Summed] \in Nat /\ AskedUpTo'[Summed'] \in Nat
         /\ AskedUpTo'[Summed'] =
              AskedUpTo[Summed]
                + IF args[i] = "--empend-segment" /\ i < Len(args)
                  THEN strtoull(args[i + 1]) ELSE 0
<1>1. Len(args) \in Nat /\ DOMAIN args = 1..Len(args) /\ i \in 1..Len(args)
  BY LinesAssumption DEF TypeOK
<1> DEFINE s == IF args[i] \in {"--mode", "--empend-segment"} /\ i < Len(args)
                THEN i + 1 ELSE i
<1>2. Summed = i - 1 /\ Summed' = s
  BY <1>1 DEF Summed
<1>3. AskedUpTo' = AskedUpTo
  BY SameWords
<1>4. \A n \in 1..Len(args) : n \in Sizes <=> IsValue(n) /\ args[n - 1] = "--empend-segment"
  <2> SUFFICES ASSUME NEW n \in 1..Len(args)
               PROVE  n \in Sizes <=> IsValue(n) /\ args[n - 1] = "--empend-segment"
    OBVIOUS
  <2>1. n \in Sizes <=> n - 1 \in Places({"--empend-segment"})
    BY <1>1 DEF Sizes, Places
  <2>2. n - 1 \in Places({"--empend-segment"})
          <=> n > 1 /\ ~IsValue(n - 1) /\ args[n - 1] = "--empend-segment"
    BY <1>1 DEF Places
  <2> QED BY <1>1, <2>1, <2>2, IsValueProperties
<1>5. AskedUpTo[i] = AskedUpTo[i - 1]
  BY <1>1, <1>4, AskedUpToProperties DEF Added
<1>6. ASSUME i < Len(args), args[i] \in {"--mode", "--empend-segment"}
      PROVE  AskedUpTo[i + 1] =
               AskedUpTo[i] + IF args[i] = "--empend-segment"
                              THEN strtoull(args[i + 1]) ELSE 0
  <2>1. i + 1 \in 1..Len(args) /\ (i + 1) - 1 = i
    BY <1>1, <1>6
  <2>2. IsValue(i + 1)
    BY <1>1, <1>6, <2>1, IsValueProperties
  <2>3. i + 1 \in Sizes <=> args[i] = "--empend-segment"
    BY <1>4, <2>1, <2>2
  <2>4. AskedUpTo[i + 1] = AskedUpTo[i] + Added(i + 1)
    BY <1>1, <2>1, AskedUpToProperties
  <2> QED BY <2>3, <2>4 DEF Added
<1>7. i - 1 \in 0..Len(args) /\ s \in 0..Len(args) /\ i \in 0..Len(args)
  BY <1>1
<1>8. AskedUpTo[i - 1] \in Nat /\ AskedUpTo[s] \in Nat /\ AskedUpTo[i] \in Nat
  BY <1>1, <1>7, AskedUpToProperties
<1>9. AskedUpTo[s] = AskedUpTo[i - 1]
                + IF args[i] = "--empend-segment" /\ i < Len(args)
                  THEN strtoull(args[i + 1]) ELSE 0
  <2>1. CASE args[i] \in {"--mode", "--empend-segment"} /\ i < Len(args)
    BY <1>5, <1>6, <2>1
  <2>2. CASE ~(args[i] \in {"--mode", "--empend-segment"} /\ i < Len(args))
    BY <1>5, <1>8, <2>2
  <2> QED BY <2>1, <2>2
<1> QED BY <1>2, <1>3, <1>8, <1>9

(* The actions that read a word and go on.                                 *)
Words ==  PositionalArgument \/ ModeOption \/ EmpendSegment \/ UnknownFlag
(* Each of them keeps what is said of the words seen.                      *)
LEMMA ReadStep ==
  ASSUME TypeOK, ReadInv, Words
  PROVE  ReadInv' /\ stage = "parsing" /\ stage' = "parsing" /\ args' = args
<1>1. /\ stage = "parsing" /\ stage' = "parsing" /\ args' = args /\ help' = help
      /\ i <= Len(args)
  BY DEF Words, PositionalArgument, ModeOption, EmpendSegment, UnknownFlag, Reads, options
<1>2. i \in DOMAIN args /\ ~IsValue(i) /\ Len(args) \in Nat /\ i \in Nat
  BY <1>1, LinesAssumption DEF TypeOK, ReadInv
<1>3. /\ PositionalArgument => args[i] \notin Dashed
      /\ ModeOption => args[i] = "--mode"
      /\ EmpendSegment => args[i] = "--empend-segment"
      /\ UnknownFlag => args[i] \in Dashed \ Flags
      /\ args[i] # None
  <2>1. args[i] # None
    BY <1>2, NoneAssumption DEF TypeOK
  <2> QED BY <2>1 DEF PositionalArgument, ModeOption, EmpendSegment, UnknownFlag, Reads,
                      Word, Flags
<1>4. "--mode" \in Dashed /\ "--empend-segment" \in Dashed /\ "--help" \in Dashed
  BY WordsAssumption
<1>5. i' = IF args[i] \in {"--mode", "--empend-segment"} THEN i + 2 ELSE i + 1
  BY <1>3, <1>4 DEF Words, PositionalArgument, ModeOption, EmpendSegment, UnknownFlag,
                    Advance, Flags
<1>6. /\ Seen' = Seen \union {i} /\ \A n \in Seen : n < i
      /\ i' <= Len(args) => ~IsValue(i')
  BY <1>1, <1>2, <1>5, SeenStep
<1>7. res \in BOOLEAN
  BY DEF TypeOK
<1>8. SoundSoFar' <=> /\ SoundSoFar /\ SoundAt(i)
                      /\ args[i] \notin Dashed => \A n \in Seen : args[n] \in Dashed
  <2>1. SoundSoFar' <=>
          /\ \A n \in Seen \union {i} : SoundAt(n)
          /\ \A n, m \in Seen \union {i} :
               args[n] \notin Dashed /\ args[m] \notin Dashed => n = m
    BY <1>1, <1>6, SameWords DEF SoundSoFar
  <2>2. i \notin Seen
    BY <1>2, <1>6
  <2> QED BY <2>1, <2>2 DEF SoundSoFar
<1>9. res' <=> SoundSoFar'
  <2>1. CASE PositionalArgument
    BY <2>1, <1>3, <1>4, <1>7, <1>8 DEF PositionalArgument, ReadInv, SoundAt
  <2>2. CASE ModeOption
    BY <2>2, <1>2, <1>3, <1>4, <1>7, <1>8
       DEF ModeOption, KnownMode, HasValue, Value, ReadInv, SoundAt, Flags
  <2>3. CASE EmpendSegment
    BY <2>3, <1>2, <1>3, <1>4, <1>7, <1>8
       DEF EmpendSegment, HasValue, Value, ReadInv, SoundAt, Flags
  <2>4. CASE UnknownFlag
    BY <2>4, <1>3, <1>8 DEF UnknownFlag, ReadInv, SoundAt
  <2> QED BY <2>1, <2>2, <2>3, <2>4 DEF Words
<1>10. res' => res
  BY <1>7 DEF Words, PositionalArgument, ModeOption, EmpendSegment, UnknownFlag
<1>11. /\ input' = None <=> \A n \in Seen' : args[n] \in Dashed
       /\ res' => \A n \in Seen' : args[n] \notin Dashed => input' = args[n]
  <2>1. CASE PositionalArgument
    BY <2>1, <1>3, <1>6 DEF PositionalArgument, ReadInv, Word
  <2>2. CASE ~PositionalArgument
    <3>1. input' = input /\ args[i] \in Dashed
      BY <2>2, <1>3, <1>4 DEF Words, ModeOption, EmpendSegment, UnknownFlag, options
    <3> QED BY <3>1, <1>6, <1>10 DEF ReadInv
  <2> QED BY <2>1, <2>2
<1>12. /\ (\A n \in Seen' : args[n] # "--mode") => mode' = "elf"
       /\ res' => \A n \in Seen' :
            args[n] = "--mode" /\ (\A m \in Seen' : args[m] = "--mode" => m <= n)
              => mode' = args[n + 1]
  <2>1. CASE ModeOption
    <3>1. res' => mode' = args[i + 1]
      BY <2>1, <1>7 DEF ModeOption, Value
    <3>2. args[i] = "--mode" /\ i \in Seen'
      BY <2>1, <1>3, <1>6
    <3>3. \A n \in Seen' : i <= n => n = i
      <4>1. \A n \in Seen : n \in Nat
        BY LinesAssumption DEF Seen, TypeOK
      <4> QED BY <4>1, <1>2, <1>6
    <3> QED BY <3>1, <3>2, <3>3
  <2>2. CASE ~ModeOption
    <3>1. mode' = mode /\ args[i] # "--mode"
      BY <2>2, <1>3, <1>4 DEF Words, PositionalArgument, EmpendSegment, UnknownFlag,
                              options, Flags
    <3> QED BY <3>1, <1>6, <1>10 DEF ReadInv
  <2> QED BY <2>1, <2>2
<1>13. empend' = AskedUpTo'[Summed'] % SizeT
  <2> DEFINE a == AskedUpTo[Summed]
             x == IF args[i] = "--empend-segment" /\ i < Len(args)
                  THEN strtoull(args[i + 1]) ELSE 0
  <2>1. a \in Nat /\ AskedUpTo'[Summed'] = a + x
    BY <1>1, <1>2, <1>5, SummedStep
  <2>2. empend = a % SizeT
    BY DEF ReadInv
  <2>3. x \in Nat /\ SizeT \in Nat \ {0}
    BY StrtoullType, WidthsAssumption
  <2>4. CASE EmpendSegment /\ i < Len(args)
    <3>1. empend' = (empend + x) % SizeT
      BY <2>4, <1>3 DEF EmpendSegment, HasValue, Value, Addend
    <3> HIDE DEF a, x
    <3> QED BY <3>1, <2>1, <2>2, <2>3, ModuloOfSum
  <2>5. CASE ~(EmpendSegment /\ i < Len(args))
    <3>1. empend' = empend
      BY <2>5 DEF Words, PositionalArgument, ModeOption, EmpendSegment, UnknownFlag,
                  HasValue, options
    <3>2. x = 0
      BY <2>5, <1>3, <1>4 DEF Words, Flags
    <3> HIDE DEF a, x
    <3> QED BY <3>1, <3>2, <2>1, <2>2
  <2> QED BY <2>4, <2>5
<1>14. \A n \in Seen' : args'[n] # "--help"
  BY <1>1, <1>3, <1>4, <1>6 DEF ReadInv, Words, Flags
<1>15. ~help' /\ (i' <= Len(args') => ~IsValue(i)')
  BY <1>1, <1>6, SameWords DEF ReadInv, IsValue
<1> QED BY <1>1, <1>9, <1>11, <1>12, <1>13, <1>14, <1>15 DEF ReadInv

(* When the index is past the end, what has been seen is the whole line.   *)
LEMMA WholeLineSeen ==
  ASSUME TypeOK, ReadInv, i > Len(args)
  PROVE  /\ ~HelpAsked
         /\ WellFormed <=> SoundSoFar /\ input # None
         /\ res => AsAsked
<1>1. Len(args) \in Nat /\ DOMAIN args = 1..Len(args) /\ i \in Nat
  BY LinesAssumption DEF TypeOK
<1>2. Seen = {n \in DOMAIN args : ~IsValue(n)}
  BY <1>1 DEF Seen
<1>3. ~HelpAsked
  BY <1>2 DEF ReadInv, HelpAsked, Places
<1>4. Named = {n \in Seen : args[n] \notin Dashed}
  BY <1>2 DEF Named
<1>5. /\ Modes = {n + 1 : n \in {m \in Seen : args[m] = "--mode"}}
      /\ Sizes = {n + 1 : n \in {m \in Seen : args[m] = "--empend-segment"}}
  BY <1>2 DEF Modes, Sizes, Places
<1>6. WellFormed <=> SoundSoFar /\ input # None
  <2>1. (\E n \in Named : Named = {n})
          <=> /\ \A n, m \in Seen : args[n] \notin Dashed /\ args[m] \notin Dashed => n = m
              /\ input # None
    <3>1. input # None <=> \E n \in Seen : n \in Named
      BY <1>4 DEF ReadInv
    <3> QED BY <1>4, <3>1
  <2>2. Places(Dashed \ {"--mode", "--empend-segment", "--help"}) = {}
          <=> \A n \in Seen : args[n] \in Dashed => args[n] \in Flags
    BY <1>2 DEF Places, Flags
  <2>3. \A n \in Seen : n \in Nat /\ (n + 1 \in DOMAIN args <=> n < Len(args))
    BY <1>1, <1>2
  <2>4. Modes \union Sizes \subseteq DOMAIN args
          <=> \A n \in Seen : args[n] \in {"--mode", "--empend-segment"} => n < Len(args)
    BY <1>5, <2>3
  <2>5. (\A n \in Modes : args[n] \in {"raw", "elf"})
          <=> \A n \in Seen : args[n] = "--mode" => args[n + 1] \in {"raw", "elf"}
    BY <1>5
  <2>6. (\A n \in Sizes : strtoull(args[n]) # SizeT - 1)
          <=> \A n \in Seen :
                args[n] = "--empend-segment" => strtoull(args[n + 1]) # SizeT - 1
    BY <1>5
  <2> QED BY <2>1, <2>2, <2>4, <2>5, <2>6 DEF WellFormed, SoundSoFar, SoundAt
<1>7. ASSUME res PROVE AsAsked
  <2>1. \A n \in Named : input = args[n]
    BY <1>4, <1>7 DEF ReadInv
  <2>2. empend = AskedSize % SizeT
    BY <1>1 DEF ReadInv, AskedSize, Summed
  <2>3. mode = AskedMode
    <3>1. CASE Modes = {}
      BY <1>5, <3>1 DEF AskedMode, ReadInv
    <3>2. CASE Modes # {}
      <4>1. Modes \in SUBSET (0..(Len(args) + 1)) /\ Len(args) + 1 \in Nat
        BY <1>1, <1>2, <1>5
      <4>2. \E x \in Modes : \A y \in Modes : y <= x
        BY <3>2, <4>1, GreatestElement
      <4> DEFINE n == CHOOSE x \in Modes : \A y \in Modes : y <= x
      <4>3. n \in Modes /\ \A y \in Modes : y <= n
        BY <4>2
      <4>4. AskedMode = args[n]
        BY <3>2 DEF AskedMode
      <4> HIDE DEF n
      <4>5. PICK m \in Seen : args[m] = "--mode" /\ n = m + 1
        BY <1>5, <4>3
      <4>6. \A k \in Seen : args[k] = "--mode" => k <= m
        <5>1. \A k \in Seen : k \in Nat
          BY <1>1, <1>2
        <5>2. \A k \in Seen : args[k] = "--mode" => k + 1 <= m + 1
          BY <1>5, <4>3, <4>5
        <5> QED BY <5>1, <5>2
      <4> QED BY <4>4, <4>5, <4>6, <1>7 DEF ReadInv
    <3> QED BY <3>1, <3>2
  <2> QED BY <2>1, <2>2, <2>3 DEF AsAsked
<1> QED BY <1>3, <1>6, <1>7

(* What the reader of the command line makes of it does not change.        *)
LEMMA SameLine ==
  ASSUME args' = args
  PROVE  /\ HelpAsked' = HelpAsked /\ (WellFormed' <=> WellFormed)
         /\ AskedMode' = AskedMode /\ AskedSize' = AskedSize /\ Named' = Named
<1>1. \A W : Places(W)' = Places(W)
  BY SameWords, Zenon
<1>2. Named' = Named /\ Sizes' = Sizes /\ Modes' = Modes /\ AskedUpTo' = AskedUpTo
  BY SameWords, Zenon
<1>3. HelpAsked' = HelpAsked
  BY <1>1, Zenon DEF HelpAsked
<1>4. WellFormed' <=> WellFormed
  <2>1. (\A n \in Sizes : strtoull(args'[n]) # SizeT - 1)
          <=> (\A n \in Sizes : strtoull(args[n]) # SizeT - 1)
    BY Zenon
  <2> QED BY <1>1, <1>2, <2>1, Zenon DEF WellFormed, strtoull
<1>5. AskedMode' = AskedMode
  <2> DEFINE Asked(line, S) == IF S = {} THEN "elf"
                               ELSE line[CHOOSE n \in S : \A m \in S : m <= n]
  <2>1. AskedMode = Asked(args, Modes) /\ AskedMode' = Asked(args', Modes')
    BY Zenon DEF AskedMode
  <2> HIDE DEF Asked
  <2> QED BY <1>2, <2>1, Zenon
<1>6. AskedSize' = AskedSize
  BY <1>2, Zenon DEF AskedSize
<1> QED BY <1>2, <1>3, <1>4, <1>5, <1>6, Zenon

(* So what is checked at the end decides whether the line is well formed.  *)
LEMMA EndStep == ASSUME TypeOK, ReadInv, EndOfOptions
  PROVE  ParsedInv' /\ stage = "parsing" /\ stage' = "parsed"
<1>1. /\ stage = "parsing" /\ i > Len(args) /\ res' = (res /\ input # None) /\ stage' = "parsed"
      /\ args' = args /\ UNCHANGED <<input, mode, empend, help>>
  BY DEF EndOfOptions, options
<1>2. (HelpAsked' <=> HelpAsked) /\ (WellFormed' <=> WellFormed)
  BY <1>1, SameLine
<1>4. AsAsked' <=> AsAsked
  BY <1>1, SameLine DEF AsAsked
<1>3. res \in BOOLEAN
  BY DEF TypeOK
<1> QED BY <1>1, <1>2, <1>3, <1>4, WholeLineSeen DEF ReadInv, ParsedInv

(* The word that is --help is no value of another option.                  *)
LEMMA HelpStep == ASSUME TypeOK, ReadInv, HelpOption
  PROVE  ParsedInv' /\ stage = "parsing" /\ stage' = "parsed"
<1>1. /\ stage = "parsing" /\ i <= Len(args) /\ args[i] = "--help" /\ stage' = "parsed"
      /\ help' = TRUE /\ res' = TRUE /\ args' = args
  BY DEF HelpOption, Word
<1>2. i \in DOMAIN args /\ ~IsValue(i)
  BY <1>1, LinesAssumption DEF TypeOK, ReadInv
<1>3. HelpAsked'
  BY <1>1, <1>2, SameWords DEF HelpAsked, Places
<1> QED BY <1>1, <1>3 DEF ParsedInv

(* Before the first word.                                                  *)
LEMMA LineInit == Init => LineInv
<1> SUFFICES ASSUME Init PROVE LineInv
  OBVIOUS
<1>1. /\ args \in CommandLines /\ i = 1 /\ res = TRUE
      /\ input = None /\ mode = "elf" /\ empend = 0 /\ help = FALSE
      /\ stage = "parsing"
  BY DEF Init
<1>2. Len(args) \in Nat /\ DOMAIN args = 1..Len(args)
  BY <1>1, LinesAssumption
<1>3. Seen = {}
  BY <1>1, <1>2 DEF Seen
<1>4. i <= Len(args) => ~IsValue(i)
  BY <1>1, <1>2, IsValueProperties
<1>5. empend = AskedUpTo[Summed] % SizeT
  <2>1. Summed = 0
    BY <1>1, <1>2 DEF Summed
  <2>2. 0 % SizeT = 0
    BY WidthsAssumption
  <2> QED BY <1>1, <1>2, <2>1, <2>2, AskedUpToProperties
<1>6. ReadInv
  BY <1>1, <1>3, <1>4, <1>5 DEF ReadInv, SoundSoFar
<1> QED BY <1>1, <1>6 DEF LineInv, StageInv, Opened

(* After parse_options(), main() leaves the options alone, opens a file    *)
(* only for a line without objection and without --help, and exits with 0  *)
(* only without having loaded anything.                                    *)
LEMMA MainStep ==
  ASSUME CpuInv, LineInv,
         ShowUsage \/ ShowHelp \/ OpenFile \/ ReadElf \/ MapFile \/ MapData \/ Interpret
  PROVE  LineInv'
<1>1. stage # "parsing" /\ stage' # "parsing" /\ UNCHANGED <<args, i, res, options>>
  <2>1. mode \in {"raw", "elf"}
    BY DEF CpuInv, TypeOK
  <2> QED BY <2>1 DEF ShowUsage, ShowHelp, OpenFile, ReadElf, MapFile, MapData,
                      Interpret, Main, Goto, Exit
<1>2. ParsedInv'
  <2>1. UNCHANGED <<input, mode, empend, help>>
    BY <1>1 DEF options
  <2>2. (HelpAsked' <=> HelpAsked) /\ (WellFormed' <=> WellFormed)
    BY <1>1, SameLine
  <2>3. AsAsked' <=> AsAsked
    BY <1>1, <2>1, SameLine DEF AsAsked
  <2> QED BY <1>1, <2>1, <2>2, <2>3 DEF LineInv, ParsedInv
<1>3. StageInv'
  <2>1. UNCHANGED <<input, mode, empend, help, res>>
    BY <1>1 DEF options
  <2>2. mode \in {"raw", "elf"} /\ (help => res)
    BY <1>1 DEF CpuInv, TypeOK, LineInv, ParsedInv
  <2>3. StageInv
    BY DEF LineInv
  <2>4. CASE ShowUsage \/ ShowHelp
    <3>1. ~mem' /\ held' = {} /\ stage' = "exited" /\ exit' = IF res THEN 0 ELSE 1
      BY <2>4 DEF ShowUsage, ShowHelp, Exit, CpuInv, LoadInv, Untouched, loading
    <3> QED BY <3>1, <2>1, <2>2 DEF StageInv, Opened
  <2>5. CASE OpenFile
    <3>1. /\ res /\ ~help
          /\ \/ stage' = "exited" /\ exit' = 1
             \/ stage' = mode /\ (mode = "elf" => empend = 0)
      BY <2>5 DEF OpenFile, Exit, Goto
    <3> QED BY <3>1, <2>1, <2>2 DEF StageInv, Opened
  <2>6. CASE ReadElf \/ MapFile \/ MapData \/ Interpret
    <3>1. stage \in {"elf", "raw", "data", "read"}
      BY <2>6 DEF ReadElf, MapFile, MapData, Interpret
    <3>2. \/ stage' \in {"read", "data", "running"}
          \/ stage' = "exited" /\ exit' # 0
      BY <2>6 DEF ReadElf, MapFile, MapData, Interpret, Succeeded, Goto, Exit
    <3> QED BY <3>1, <3>2, <2>1, <2>2, <2>3 DEF StageInv, Opened
  <2> QED BY <2>4, <2>5, <2>6
<1> QED BY <1>1, <1>2, <1>3 DEF LineInv

(* And stuttering.                                                         *)
LEMMA LineStutter == LineInv /\ UNCHANGED vars => LineInv'
<1> SUFFICES ASSUME LineInv, UNCHANGED vars PROVE LineInv'
  OBVIOUS
<1>1. /\ UNCHANGED <<args, i, res, stage, exit>> /\ UNCHANGED <<input, mode, empend, help>>
      /\ mem' = mem /\ held' = held
  BY DEF vars, options, loading
<1>2. /\ (HelpAsked' <=> HelpAsked) /\ (WellFormed' <=> WellFormed)
      /\ AskedMode' = AskedMode /\ AskedSize' = AskedSize /\ Named' = Named
  BY <1>1, SameLine
<1>3. ParsedInv' <=> ParsedInv
  BY <1>1, <1>2 DEF ParsedInv, AsAsked
<1>4. /\ AskedUpTo' = AskedUpTo /\ Summed' = Summed 
      /\ \A n : IsValue(n)' = IsValue(n)
      /\ \A n : SoundAt(n)' = SoundAt(n)
  BY <1>1, SameWords DEF Summed
<1>5. Seen' = Seen
  BY <1>1, <1>4 DEF Seen
<1>6. SoundSoFar' <=> SoundSoFar
  BY <1>1, <1>4, <1>5 DEF SoundSoFar
<1>7. ReadInv' <=> ReadInv
  <2>1. IsValue(i)' <=> IsValue(i)
    BY <1>1, <1>4 DEF IsValue
  <2> QED BY <1>1, <1>4, <1>5, <1>6, <2>1 DEF ReadInv
<1> QED BY <1>1, <1>3, <1>7 DEF LineInv, StageInv, Opened

(* LineInv is an invariant together with CpuInv.                           *)
LEMMA LineInvariant == Spec => []LineInv
<1>1. CpuInv /\ LineInv /\ [Next]_vars => LineInv'
  <2> SUFFICES ASSUME CpuInv, LineInv, [Next]_vars PROVE LineInv'
    OBVIOUS
  <2>1. TypeOK /\ (stage = "parsing" => ReadInv) /\ mode \in {"elf", "raw"}
    BY DEF CpuInv, LineInv, TypeOK
  <2>2. CASE Words
    <3>1. stage = "parsing"
      BY <2>2 DEF Words, PositionalArgument, ModeOption, EmpendSegment, UnknownFlag, Reads
    <3> QED BY <2>1, <2>2, <3>1, ReadStep DEF LineInv, StageInv, Opened
  <2>3. CASE EndOfOptions
    <3>1. stage = "parsing"
      BY <2>3 DEF EndOfOptions
    <3> QED BY <2>1, <2>3, <3>1, EndStep DEF LineInv, StageInv, Opened
  <2>4. CASE HelpOption
    <3>1. stage = "parsing"
      BY <2>4 DEF HelpOption
    <3> QED BY <2>1, <2>4, <3>1, HelpStep DEF LineInv, StageInv, Opened
  <2>5. CASE ShowUsage \/ ShowHelp \/ OpenFile \/ ReadElf \/ MapFile \/ MapData \/ Interpret
    BY <2>5, MainStep
  <2>6. CASE UNCHANGED vars
    BY <2>6, LineStutter
  <2> QED BY <2>2, <2>3, <2>4, <2>5, <2>6 DEF Next, Words
<1> QED BY LineInit, <1>1, CpuInvariant, PTL DEF Spec

-----------------------------------------------------------------------------
(* Every option, address and status stays in its range: the sum of sizes   *)
(* wraps within a size_t, the index passes the end of argv by two at most, *)
(* and rounding a size up to a page stays within a u32.                    *)
THEOREM CpuTypeOK == Spec => []TypeOK
<1>1. CpuInv => TypeOK
  BY DEF CpuInv
<1> QED BY <1>1, CpuInvariant, PTL

(* The interpreter starts on an image that a loader has filled in and that *)
(* is still mapped, but for the errors of loader_read_elf() that return 0. *)
THEOREM CpuInterpretsOnlyLoaded == Spec => []InterpretsOnlyLoaded
<1>1. CpuInv => InterpretsOnlyLoaded
  BY DEF CpuInv, LoadInv, Loaded, TypeOK, InterpretsOnlyLoaded
<1> QED BY <1>1, CpuInvariant, PTL

(* What the raw loader hands to the interpreter: the entrypoint is the     *)
(* first byte of the file, and before it lies what --empend-segment added  *)
(* up to, in whole pages and no page more, if the sum fits.                *)
THEOREM CpuDataSegmentBefore ==
  Spec => [](stage = "running" /\ mode = "raw" => DataSegmentBefore)
<1>1. CpuInv => (stage = "running" /\ mode = "raw" => DataSegmentBefore)
  BY DEF CpuInv, LoadInv, Loaded
<1> QED BY <1>1, CpuInvariant, PTL

(* cpu opens a file only for a command line it understands as a whole: the *)
(* one file named, in the last mode asked for, with all the sizes added.   *)
(* The loop of parse_options() that skips values by index agrees with the  *)
(* reading of the line as options, values and files.                       *)
THEOREM CpuRunsWhatWasAsked == Spec => []RunsWhatWasAsked
<1>1. LineInv => RunsWhatWasAsked
  BY DEF LineInv, StageInv, ParsedInv, Opened, AsAsked, RunsWhatWasAsked
<1> QED BY <1>1, LineInvariant, PTL

(* Status 0 without having run anything is the help's, asked for or not,   *)
(* and whoever asks for help gets it.                                      *)
THEOREM CpuZeroIsHelp == Spec => []ZeroIsHelp
<1>1. LineInv => ZeroIsHelp
  BY DEF LineInv, StageInv, ParsedInv, ZeroIsHelp
<1> QED BY <1>1, LineInvariant, PTL

(* The memory before a raw program is what the sizes on the command line   *)
(* add up to, in whole pages and no page more.                             *)
THEOREM CpuDataSegmentAsAsked == Spec => []DataSegmentAsAsked
<1>1. CpuInv /\ LineInv => DataSegmentAsAsked
  <2> SUFFICES ASSUME CpuInv, LineInv, stage = "running", mode = "raw",
                      AskedSize <= U32 - PageSize, "elsewhere" \notin held
               PROVE  /\ entry = -offset /\ entry % PageSize = 0
                      /\ AskedSize <= entry /\ entry < AskedSize + PageSize
                      /\ ("data" \in held) = (AskedSize > 0)
    BY DEF DataSegmentAsAsked
  <2>1. empend = AskedSize % SizeT
    BY DEF LineInv, StageInv, ParsedInv, Opened, AsAsked
  <2>2. AskedSize \in Nat
    <3>1. Len(args) \in Nat
      BY LinesAssumption DEF CpuInv, TypeOK
    <3> QED BY <3>1, AskedUpToProperties DEF AskedSize
  <2>3. AskedSize % SizeT = AskedSize
    <3>1. \A n, m \in Nat : n < m => n % m = n
      OBVIOUS
    <3>2. AskedSize < SizeT /\ SizeT \in Nat
      BY <2>2, WidthsAssumption
    <3> QED BY <2>2, <3>1, <3>2
  <2>4. DataSegmentBefore
    BY DEF CpuInv, LoadInv, Loaded
  <2> QED BY <2>1, <2>3, <2>4 DEF DataSegmentBefore
<1> QED BY <1>1, LineInvariant, CpuInvariant, PTL
=============================================================================
