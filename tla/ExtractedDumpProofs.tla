-------------------------- MODULE ExtractedDumpProofs --------------------------
(***************************************************************************)
(* Proofs about ExtractedDump, for every table of files and every set of    *)
(* faults, and every tree of directories the file browser walks through:    *)
(* type correctness, with the bound on what is written; that a              *)
(* chunk is written to its own file; that a dump reported as successful is  *)
(* whole; and that a cancelled one leaves no part, except where the file    *)
(* browser's reader was between two directories.                            *)
(*                                                                          *)
(* The first section derives what the recursive function ChunksUpTo is.     *)
(* The library's induction theorems take operators, which no prover here    *)
(* can instantiate; a minimal counterexample, from the well-foundedness of  *)
(* strict inclusion between finite sets, takes their place.                 *)
(***************************************************************************)
EXTENDS ExtractedDump, FiniteSets, TLAPS, WellFoundedInduction, FiniteSetTheorems

-----------------------------------------------------------------------------
\* The inductive invariant

Waits(for) == rpc \in {"asleep", "woken"} /\ rwait = for
InFile == rpc \in {"chunk", "lockChunk", "wake"} \/ Waits("chunk")
Finishing == rpc \in {"last", "lockLast", "finish"} \/ Waits("last")

\* What the reader has handed over; the number of files opened, which is also the last one opened, and
\* the chunks of that one handed over.
Handed == ChunksUpTo[file - 1] + (IF rpc = "entry" THEN 0 ELSE chunk)
Opened == IF InFile THEN file ELSE file - 1
Progress == IF InFile THEN chunk ELSE IF file = 1 THEN 0 ELSE FileSizes[file - 1]

\* Where no output file is open, and where nothing but the end of the host's dump is left to be done.
Closed == rpc \in {"open", "enter", "done"} \/ crossed \/ (kind = "browser" /\ rpc = "finish")
Over == rpc = "done" \/ (kind = "browser" /\ rpc = "finish")

\* Nothing has failed, and no chunk was overwritten or lost.
Sound == ~Failed /\ ~overtaken

\* The reader's loop counters, and what was written against what was handed over: a chunk handed over
\* is pending or written, unless the reader overwrote it.
CountersOK ==
  /\ rpc = "start" => file = 1 /\ chunk = 0
  /\ rpc \in {"lockFile", "open", "enter"} \/ Waits("file") => file <= NumFiles /\ chunk = 0
  /\ rpc = "enter" => kind = "browser"
  /\ InFile => file <= NumFiles /\ chunk <= FileSizes[file]
  /\ rpc = "lockChunk" \/ Waits("chunk") => chunk < FileSizes[file]
  /\ rpc = "entry" \/ chunk = 0 \/ (file <= NumFiles /\ chunk <= FileSizes[file])
  /\ data_written + data_size <= Handed
  /\ ~overtaken => data_written + data_size = Handed

\* When the flags can be set, and where the threads are once they are.
FlagsOK ==
  /\ wpc = "write" => ~write_error /\ ~transfer_cancelled
  /\ write_error => wpc \in {"wake", "done"}
  /\ rpc = "abort" => read_error \/ transfer_cancelled
  /\ rpc = "unwind" => Failed /\ crossed
  /\ transfer_cancelled => mpc \in {"join", "done"}
  /\ mpc = "done" <=> result # "running"
  /\ mpc = "done" => rpc = "done" /\ wpc = "done"
  /\ result = "success" => ~Failed
  /\ result = "cancelled" => ~read_error /\ ~write_error

\* What is open while the reader is in a file, and once a directory was created.
OpenOK ==
  /\ usb => fp = 0
  /\ hostFs => usb
  /\ InFile => Target = file /\ ~crossed
  /\ ~usb /\ ~read_error /\ ~write_error /\ dir = "there" /\ ~Closed => fp # 0

\* The chunks 1 to n of a file, in order
Chunks(f, n) == [c \in 1..n |-> <<f, c>>]

\* As long as the dump is sound the files opened hold what was handed over, except for the chunk that is
\* pending, which is the last one of the file opened last; and that file is still the one open.
ContentOK ==
  Sound =>
    /\ DOMAIN output = 1..Opened
    /\ \A f \in 1..Opened :
         output[f] = Chunks(f, IF f = Opened THEN Progress - data_size ELSE FileSizes[f])
    /\ data_size > 0 => /\ Opened > 0 /\ Progress > 0 /\ data = <<Opened, Progress>>
                        /\ rpc \notin {"start", "open", "finish", "abort", "end", "done"}
                        /\ usb \/ ~Closed
    /\ usb \/ ~Closed => Target = Opened
    /\ usb => remaining = (IF Opened = 0 THEN 0 ELSE FileSizes[Opened] - Progress + data_size)

\* A loop of the reader left without a failure has come to its end, and the outermost one has handed
\* over everything; and what a local dump keeps after its reader has ended without an error is complete,
\* whenever the user cancels, unless that was noticed between two directories.
EndOK ==
  /\ Finishing => LoopEnds /\ chunk = 0
  /\ rpc = "finish" => cwd = <<>>
  /\ rpc \in {"finish", "end", "done"} /\ ~Failed =>
       LoopEnds /\ chunk = 0 /\ (~overtaken => data_size = 0)
  /\ rpc = "done" \/ (rpc = "end" /\ kind # "browser") =>
       (Sound => ~hostFs) /\ (~Failed => cwd = <<>>)
  /\ Over /\ ~usb /\ ~read_error /\ ~write_error /\ ~overtaken /\ dir = "there" /\ ~crossed =>
       /\ data_size = 0
       /\ \A f \in Files : FileSizes[f] = 0 \/ Whole(f)

IInv == TypeOK /\ CountersOK /\ FlagsOK /\ OpenOK /\ ContentOK /\ EndOK

-----------------------------------------------------------------------------
\* What ChunksUpTo is

\* Every non-empty set of natural numbers has a least element: 0..m is a minimal element of the
\* intervals 0..n.
LEMMA LeastElement ==
  ASSUME NEW T, T \subseteq Nat, T # {}
  PROVE  \E m \in T : \A k \in T : m <= k
<1> DEFINE Below(n) == 0..n
           R == StrictSubsetOrdering(Nat)
           B == {Below(n) : n \in T}
<1>1. IsWellFoundedOn(R, FiniteSubsetsOf(Nat))
  BY FS_StrictSubsetOrderingWellFounded
<1>2. \A n \in T : IsFiniteSet(Below(n)) /\ Below(n) \in SUBSET Nat
  BY FS_Interval
<1>3. B \subseteq FiniteSubsetsOf(Nat) /\ B # {}
  BY <1>2 DEF FiniteSubsetsOf
<1>4. PICK x \in B : \A y \in B : ~ (<<y, x>> \in R)
  <2> HIDE DEF R, B
  <2> QED BY <1>1, <1>3, WFMin
<1>5. PICK m \in T : x = Below(m)
  OBVIOUS
<1>6. ASSUME NEW k \in T, k < m
      PROVE  FALSE
  <2>1. Below(k) \subseteq Below(m) /\ Below(k) \in SUBSET Nat /\ Below(m) \in SUBSET Nat
    BY <1>6
  <2>2. m \in Below(m) /\ m \notin Below(k)
    BY <1>6
  <2>3. <<Below(k), Below(m)>> \in R
    <3> HIDE DEF Below
    <3> QED BY <2>1, <2>2 DEF StrictSubsetOrdering
  <2> QED BY <2>3, <1>4, <1>5
<1> QED BY <1>6

\* The table of files is a sequence of sizes.
LEMMA SizesAreNat == NumFiles \in Nat /\ \A f \in Files : FileSizes[f] \in Nat
BY ExtractedAssumption DEF NumFiles, Files

\* The partial sums of the first n sizes
SumsTo(n, sum) == /\ sum \in [0..n -> Nat]
                  /\ \A f \in 0..n : sum[f] = IF f = 0 THEN 0 ELSE sum[f - 1] + FileSizes[f]

\* The partial sums exist, up to any file: those of one file less can be extended.
LEMMA SumsExist == \A n \in 0..NumFiles : \E sum : SumsTo(n, sum)
<1> DEFINE Bad == {n \in Nat : n <= NumFiles /\ ~ \E sum : SumsTo(n, sum)}
<1> SUFFICES ASSUME Bad # {} PROVE FALSE
  BY SizesAreNat
<1>1. PICK n \in Bad : \A k \in Bad : n <= k
  <2>1. Bad \subseteq Nat
    OBVIOUS
  <2> HIDE DEF Bad
  <2> QED BY <2>1, LeastElement
<1>2. n # 0
  <2>1. SumsTo(0, [f \in {0} |-> 0])
    BY DEF SumsTo
  <2> QED BY <2>1
<1>3. PICK sum : SumsTo(n - 1, sum)
  BY <1>1, <1>2, SizesAreNat
<1> DEFINE longer == [f \in 0..n |-> IF f = n THEN sum[n - 1] + FileSizes[n] ELSE sum[f]]
<1>4. SumsTo(n, longer)
  <2>1. n \in Nat \ {0} /\ n - 1 \in Nat /\ FileSizes[n] \in Nat
    BY <1>1, <1>2, SizesAreNat DEF Files
  <2>2. longer \in [0..n -> Nat]
    BY <1>3, <2>1 DEF SumsTo
  <2>3. ASSUME NEW f \in 0..n
        PROVE  longer[f] = IF f = 0 THEN 0 ELSE longer[f - 1] + FileSizes[f]
    <3>1. CASE f = n
      BY <2>1, <3>1
    <3>2. CASE f # n
      <4>1. f \in 0..(n - 1) /\ (f # 0 => f - 1 \in 0..(n - 1))
        BY <2>1, <3>2
      <4>2. sum[f] = IF f = 0 THEN 0 ELSE sum[f - 1] + FileSizes[f]
        BY <1>3, <4>1 DEF SumsTo
      <4>3. longer[f] = sum[f] /\ (f # 0 => longer[f - 1] = sum[f - 1])
        BY <2>1, <4>1
      <4> QED BY <4>2, <4>3
    <3> QED BY <3>1, <3>2
  <2> QED BY <2>2, <2>3 DEF SumsTo
<1> QED BY <1>1, <1>4

\* ChunksUpTo satisfies its own definition, and its values are natural numbers.
LEMMA ChunksUpToDef ==
  \A f \in 0..NumFiles : /\ ChunksUpTo[f] = IF f = 0 THEN 0 ELSE ChunksUpTo[f - 1] + FileSizes[f]
                         /\ ChunksUpTo[f] \in Nat
<1>1. PICK sum : SumsTo(NumFiles, sum)
  BY SizesAreNat, SumsExist
<1>2. sum = [f \in 0..NumFiles |-> IF f = 0 THEN 0 ELSE sum[f - 1] + FileSizes[f]]
  BY <1>1 DEF SumsTo
<1>3. ChunksUpTo = [f \in 0..NumFiles |-> IF f = 0 THEN 0 ELSE ChunksUpTo[f - 1] + FileSizes[f]]
  BY <1>2 DEF ChunksUpTo
<1>4. \A f \in 0..NumFiles :
        ChunksUpTo[f] = IF f = 0 THEN 0 ELSE ChunksUpTo[f - 1] + FileSizes[f]
  <2> HIDE DEF ChunksUpTo
  <2> QED BY ONLY <1>3
<1>5. \A f \in 0..NumFiles : ChunksUpTo[f] \in Nat
  <2> DEFINE Bad == {n \in Nat : n <= NumFiles /\ ChunksUpTo[n] \notin Nat}
  <2> SUFFICES ASSUME Bad # {} PROVE FALSE
    BY SizesAreNat
  <2>1. Bad \subseteq Nat
    OBVIOUS
  <2>2. PICK n \in Bad : \A k \in Bad : n <= k
    <3> HIDE DEF Bad
    <3> QED BY <2>1, LeastElement
  <2>3. CASE n = 0
    BY SizesAreNat, <1>4, <2>2, <2>3
  <2>4. CASE n # 0
    <3>1. ChunksUpTo[n - 1] \in Nat
      BY SizesAreNat, <2>2, <2>4
    <3> QED BY SizesAreNat, <1>4, <2>2, <2>4, <3>1 DEF Files
  <2> QED BY <2>3, <2>4
<1> QED BY <1>4, <1>5

\* The sums never decrease.
LEMMA Monotone == \A g \in 0..NumFiles : \A f \in 0..g : ChunksUpTo[f] <= ChunksUpTo[g]
<1> SUFFICES ASSUME NEW g \in 0..NumFiles
             PROVE  \A f \in 0..g : ChunksUpTo[f] <= ChunksUpTo[g]
  OBVIOUS
<1> DEFINE Bad == {n \in Nat : n <= g /\ ~(ChunksUpTo[g - n] <= ChunksUpTo[g])}
<1> SUFFICES ASSUME Bad # {} PROVE FALSE
  <2> SUFFICES ASSUME NEW f \in 0..g PROVE ChunksUpTo[f] <= ChunksUpTo[g]
    OBVIOUS
  <2>1. g - f \notin Bad
    OBVIOUS
  <2> QED BY <2>1, SizesAreNat
<1>1. Bad \subseteq Nat
  OBVIOUS
<1>2. PICK n \in Bad : \A k \in Bad : n <= k
  <2> HIDE DEF Bad
  <2> QED BY <1>1, LeastElement
<1> DEFINE f == g - n
<1>3. f \in 0..g /\ ~(ChunksUpTo[f] <= ChunksUpTo[g])
  BY <1>2, SizesAreNat
<1>4. f # g
  BY <1>3, ChunksUpToDef, SizesAreNat
<1>5. f + 1 \in 1..g /\ ChunksUpTo[f + 1] <= ChunksUpTo[g]
  <2>1. n - 1 \notin Bad /\ n - 1 \in Nat /\ g - (n - 1) = f + 1
    BY <1>2, <1>4, SizesAreNat
  <2> QED BY <1>3, <1>4, <2>1, SizesAreNat
<1>6. ChunksUpTo[f + 1] = ChunksUpTo[f] + FileSizes[f + 1]
  BY <1>3, <1>5, ChunksUpToDef, SizesAreNat
<1> HIDE DEF f
<1> QED BY <1>3, <1>5, <1>6, ChunksUpToDef, SizesAreNat DEF Files

\* The facts about the sums that the proofs below use
LEMMA Sums ==
  /\ NumFiles \in Nat /\ Total \in Nat
  /\ \A f \in 1..NumFiles : FileSizes[f] \in Nat
  /\ ChunksUpTo[0] = 0 /\ ChunksUpTo[NumFiles] = Total
  /\ \A f \in 0..NumFiles : ChunksUpTo[f] \in Nat /\ ChunksUpTo[f] <= Total
  /\ \A f \in 1..NumFiles : ChunksUpTo[f] = ChunksUpTo[f - 1] + FileSizes[f]
BY SizesAreNat, ChunksUpToDef, Monotone DEF Total, Files

\* Once the sum is the total, the files after it are empty.
LEMMA EmptyAfterTotal ==
  ASSUME NEW g \in 0..NumFiles, ChunksUpTo[g] = Total
  PROVE  \A f \in (g + 1)..NumFiles : FileSizes[f] = 0
<1> SUFFICES ASSUME NEW f \in (g + 1)..NumFiles PROVE FileSizes[f] = 0
  OBVIOUS
<1>1. f \in 1..NumFiles /\ f - 1 \in 0..NumFiles /\ g \in 0..(f - 1)
  BY Sums
<1>2. ChunksUpTo[g] <= ChunksUpTo[f - 1] /\ ChunksUpTo[f] <= Total
  BY <1>1, Monotone, Sums
<1> QED BY <1>1, <1>2, Sums

\* Appending the next chunk of a file
LEMMA ChunksAppend ==
  ASSUME NEW f, NEW n \in Nat \ {0}
  PROVE  Append(Chunks(f, n - 1), <<f, n>>) = Chunks(f, n)
BY DEF Chunks

-----------------------------------------------------------------------------
\* What the invariant says of a state

\* No more is handed over than there is.
LEMMA HandedBound == IInv => Handed \in Nat /\ Handed <= Total
<1> SUFFICES ASSUME IInv PROVE Handed \in Nat /\ Handed <= Total
  OBVIOUS
<1>1. file \in 1..(NumFiles + 1) /\ chunk \in Nat /\ NumFiles \in Nat
  BY Sums DEF IInv, TypeOK, CounterTypes
<1>2. file - 1 \in 0..NumFiles /\ ChunksUpTo[file - 1] \in Nat /\ ChunksUpTo[file - 1] <= Total
  BY <1>1, Sums
<1>3. CASE rpc = "entry" \/ chunk = 0
  BY <1>1, <1>2, <1>3 DEF Handed
<1>4. CASE rpc # "entry" /\ file <= NumFiles /\ chunk <= FileSizes[file]
  <2>1. /\ file \in 1..NumFiles /\ FileSizes[file] \in Nat
        /\ ChunksUpTo[file] = ChunksUpTo[file - 1] + FileSizes[file] /\ ChunksUpTo[file] <= Total
    BY <1>1, <1>4, Sums
  <2> QED BY <1>1, <1>2, <1>4, <2>1, Sums DEF Handed
<1> QED BY <1>3, <1>4 DEF IInv, CountersOK

\* A reader that has left its loop without a failure leaves every file whole, but for empty ones that
\* the reader of a RomFS may leave out.
LEMMA Complete ==
  ASSUME IInv, rpc \in {"finish", "end", "done"}, cwd = <<>>, Sound
  PROVE  \A f \in Files : Whole(f) \/ (kind = "romfs" /\ FileSizes[f] = 0)
<1>1. file \in 1..(NumFiles + 1) /\ NumFiles \in Nat /\ data_written \in Nat /\ Total \in Nat
  BY Sums DEF IInv, TypeOK, CounterTypes
<1>2. NoFileLeft /\ chunk = 0 /\ data_size = 0
  BY DEF IInv, EndOK, Sound, LoopEnds
<1>3. Opened = file - 1 /\ (file > 1 => Progress = FileSizes[file - 1])
  BY <1>1 DEF Opened, Progress, InFile, Waits
<1>4. ASSUME NEW f \in 1..(file - 1) PROVE Whole(f)
  <2>1. f \in DOMAIN output /\ f \in Files /\ FileSizes[f] \in Nat
    BY <1>1, <1>3, Sums DEF IInv, ContentOK, Files
  <2>2. output[f] = Chunks(f, FileSizes[f])
    <3>1. output[f] = Chunks(f, IF f = Opened THEN Progress - data_size ELSE FileSizes[f])
      BY <1>3 DEF IInv, ContentOK
    <3>2. f = Opened => Progress - data_size = FileSizes[f]
      BY <1>1, <1>2, <1>3, <2>1
    <3> QED BY <3>1, <3>2
  <2> QED BY <2>1, <2>2 DEF Whole, Chunks
<1>5. ASSUME NEW f \in Files, f > file - 1 PROVE kind = "romfs" /\ FileSizes[f] = 0
  <2>1. kind = "romfs" /\ data_written >= Total
    BY <1>1, <1>2, <1>5 DEF NoFileLeft, Files
  <2>2. file - 1 \in 0..NumFiles /\ ChunksUpTo[file - 1] \in Nat /\ ChunksUpTo[file - 1] <= Total
    BY <1>1, Sums
  <2>3. data_written = ChunksUpTo[file - 1]
    BY <1>2, <1>1, <2>2 DEF IInv, CountersOK, Sound, Handed
  <2> QED BY <1>1, <1>5, <2>1, <2>2, <2>3, EmptyAfterTotal DEF Files
<1> QED BY <1>1, <1>4, <1>5 DEF Files

-----------------------------------------------------------------------------
\* The steps

\* The invariant holds when the threads are created.
LEMMA InitInv == Init => IInv
<1> SUFFICES ASSUME Init PROVE IInv
  OBVIOUS
<1>1. TypeOK
  <2>1. ThreadTypes
    BY DEF Init, ThreadTypes, ReaderPcs
  <2>2. CounterTypes
    BY Sums DEF Init, CounterTypes
  <2>3. FlagTypes
    BY DEF Init, FlagTypes
  <2> QED BY <2>1, <2>2, <2>3 DEF TypeOK
<1>2. CountersOK
  BY Sums DEF Init, CountersOK, Handed, InFile, Waits
<1>3. FlagsOK /\ OpenOK
  BY DEF Init, FlagsOK, OpenOK, Failed, InFile, Waits
<1>4. ContentOK
  BY DEF Init, ContentOK, Opened, InFile, Waits, Target
<1>5. EndOK
  BY DEF Init, EndOK, Finishing, Waits
<1> QED BY <1>1, <1>2, <1>3, <1>4, <1>5 DEF IInv

\* A step of the reader keeps the invariant.
LEMMA ReaderKeeps == IInv /\ Reader => IInv'
<1> SUFFICES ASSUME IInv, Reader PROVE IInv'
  OBVIOUS
<1> USE DEF IInv, TypeOK, walkVars
<1>1. CASE ReaderStart
  <2>1. ThreadTypes'
    BY <1>1 DEF ReaderPcs, ThreadTypes, ReaderStart, ReaderGoes, ReadFails, dataVars
  <2>2. CounterTypes'
    BY <1>1 DEF CounterTypes, ReaderStart, ReaderGoes, ReadFails, dataVars
  <2>3. FlagTypes'
    BY <1>1 DEF FlagTypes, Kinds, ReaderStart, ReaderGoes, ReadFails, dataVars
  <2>4. CountersOK'
    BY <1>1 DEF CountersOK, Handed, InFile, Waits, ReaderStart, ReaderGoes, ReadFails, dataVars
  <2>5. FlagsOK'
    BY <1>1 DEF FlagsOK, Failed, ReaderStart, ReaderGoes, ReadFails, dataVars
  <2>6. OpenOK'
    BY <1>1 DEF OpenOK, Closed, InFile, Waits, Target, ReaderStart, ReaderGoes, ReadFails, dataVars
  <2>7. ContentOK'
    BY <1>1 DEF ContentOK, Closed, Sound, Failed, InFile, Waits, Opened, Progress, Target, ReaderStart,
         ReaderGoes, ReadFails, dataVars
  <2>8. EndOK'
    BY <1>1 DEF EndOK, Finishing, Waits, Over, LoopEnds, NoFileLeft, Sound, Failed, Whole, ReaderStart, ReaderGoes,
         ReadFails, dataVars
  <2> QED BY <2>1, <2>2, <2>3, <2>4, <2>5, <2>6, <2>7, <2>8
<1>2. CASE NextEntry
  <2>1. ThreadTypes'
    BY <1>2 DEF ReaderPcs, ThreadTypes, NextEntry, ReaderGoes, FileIsHere, LoopEnds, ReadFails, NoFileLeft, dataVars,
         outputVars
  <2>2. CounterTypes'
    BY <1>2 DEF CounterTypes, NextEntry, ReaderGoes, FileIsHere, LoopEnds, ReadFails, NoFileLeft, dataVars, outputVars
  <2>3. FlagTypes'
    BY <1>2 DEF FlagTypes, NextEntry, ReaderGoes, FileIsHere, LoopEnds, ReadFails, NoFileLeft, dataVars, outputVars
  <2>4. CountersOK'
    BY <1>2, Sums DEF CountersOK, Handed, InFile, Waits, CounterTypes, NextEntry, ReaderGoes, FileIsHere, LoopEnds,
         ReadFails, NoFileLeft, dataVars, outputVars
  <2>5. FlagsOK'
    BY <1>2 DEF FlagsOK, Failed, NextEntry, ReaderGoes, FileIsHere, LoopEnds, ReadFails, NoFileLeft, dataVars, outputVars
  <2>6. OpenOK'
    BY <1>2 DEF OpenOK, Closed, InFile, Waits, Target, NextEntry, ReaderGoes, FileIsHere, LoopEnds, ReadFails, NoFileLeft,
         dataVars, outputVars
  <2>7. ContentOK'
    BY <1>2 DEF ContentOK, Closed, Sound, Failed, InFile, Waits, Opened, Progress, Target, NextEntry,
         ReaderGoes, ReadFails, NoFileLeft, dataVars, outputVars
  <2>8. EndOK'
    BY <1>2 DEF EndOK, Finishing, Waits, Over, NoFileLeft, Sound, Failed, Whole, NextEntry, ReaderGoes, FileIsHere, LoopEnds,
         ReadFails, dataVars, outputVars
  <2> QED BY <2>1, <2>2, <2>3, <2>4, <2>5, <2>6, <2>7, <2>8
<1>3. CASE LockForFile
  <2>1. ThreadTypes'
    BY <1>3 DEF ReaderPcs, ThreadTypes, LockForFile, ReaderGoes, CloseFile, FileIsHere, Pending, MutexFree,
         flagVars, dataVars, outputVars
  <2>2. CounterTypes'
    BY <1>3, Sums DEF CounterTypes, LockForFile, ReaderGoes, CloseFile, FileIsHere, Pending, MutexFree,
         flagVars, dataVars, outputVars
  <2>3. FlagTypes'
    BY <1>3 DEF FlagTypes, LockForFile, ReaderGoes, CloseFile, FileIsHere, Pending, MutexFree, flagVars,
         dataVars, outputVars
  <2>4. CountersOK'
    BY <1>3 DEF CountersOK, Handed, InFile, Waits, LockForFile, ReaderGoes, CloseFile, FileIsHere, Pending,
         MutexFree, flagVars, dataVars, outputVars
  <2>5. FlagsOK'
    BY <1>3 DEF FlagsOK, Failed, LockForFile, ReaderGoes, CloseFile, FileIsHere, Pending, MutexFree, flagVars,
         dataVars, outputVars
  <2>6. OpenOK'
    BY <1>3 DEF OpenOK, Closed, InFile, Waits, Target, LockForFile, ReaderGoes, CloseFile, FileIsHere, Pending,
         MutexFree, flagVars, dataVars, outputVars
  <2>7. ContentOK'
    BY <1>3 DEF ContentOK, Closed, Sound, Failed, InFile, Waits, Opened, Progress, Target, LockForFile,
         ReaderGoes, CloseFile, FileIsHere, Pending, MutexFree, flagVars, dataVars, outputVars
  <2>8. EndOK'
    BY <1>3 DEF EndOK, Finishing, Waits, Over, LoopEnds, NoFileLeft, Sound, Failed, Whole, LockForFile, ReaderGoes,
         CloseFile, FileIsHere, Pending, MutexFree, flagVars, dataVars, outputVars
  <2> QED BY <2>1, <2>2, <2>3, <2>4, <2>5, <2>6, <2>7, <2>8
<1>4. CASE OpenFile
  <2>1. ThreadTypes'
    BY <1>4 DEF ReaderPcs, ThreadTypes, OpenFile, ReaderGoes, ReadFails, Created,
         PropertiesAccepted, dataVars
  <2>2. CounterTypes'
    BY <1>4, Sums DEF CounterTypes, CountersOK, InFile, Waits, OpenFile, ReaderGoes, ReadFails,
         Created, PropertiesAccepted, dataVars
  <2>3. FlagTypes'
    <3>1. /\ UNCHANGED <<kind, usb, cwd, write_error, transfer_cancelled, hostFs, overtaken>>
          /\ read_error' = read_error \/ read_error' = TRUE
          /\ dir' = dir \/ dir' = "there"
      BY <1>4 DEF OpenFile, ReadFails
    <3>2. crossed' = crossed \/ crossed' = FALSE
      BY <1>4 DEF OpenFile
    <3>3. crossed' \in BOOLEAN /\ (crossed' \/ cwd' # <<>> => kind' = "browser")
      <4>1. CASE crossed' = crossed
        BY <3>1, <4>1, Zenon DEF FlagTypes
      <4>2. CASE crossed' = FALSE
        BY <3>1, <4>2, Zenon DEF FlagTypes
      <4> QED BY <3>2, <4>1, <4>2
    <3> QED
      BY <3>1, <3>3 DEF FlagTypes
  <2>4. CountersOK'
    BY <1>4, Sums DEF CountersOK, Handed, InFile, Waits, CounterTypes, OpenFile, ReaderGoes,
         ReadFails, Created, PropertiesAccepted, dataVars
  <2>5. FlagsOK'
    BY <1>4 DEF FlagsOK, Failed, OpenFile, ReaderGoes, ReadFails, Created, PropertiesAccepted,
         dataVars
  <2>6. OpenOK'
    BY <1>4 DEF OpenOK, Closed, InFile, Waits, Target, OpenFile, ReaderGoes, ReadFails, Created,
         PropertiesAccepted, dataVars
  <2>7. ContentOK'
    <3>1. /\ file \in 1..NumFiles /\ NumFiles \in Nat /\ FileSizes[file] \in Nat /\ chunk = 0
          /\ rpc = "open" /\ data_size \in {0, 1}
      <4>1. rpc = "open"
        BY <1>4 DEF OpenFile
      <4> QED BY <4>1, Sums DEF CountersOK, CounterTypes
    <3>2. /\ UNCHANGED <<file, chunk, rwait, data, data_size, write_error, transfer_cancelled,
                         overtaken, usb>>
          /\ \/ rpc' = "abort" /\ read_error'
             \/ /\ rpc' = "chunk" /\ UNCHANGED read_error /\ output' = Created
                /\ usb => remaining' = FileSizes[file] /\ hostFile' = file
                /\ ~usb => fp' = file
      BY <1>4 DEF OpenFile, ReadFails, ReaderGoes, dataVars
    <3>3. SUFFICES ASSUME Sound' PROVE ContentOK'
      BY DEF ContentOK
    <3>4. Sound /\ rpc' = "chunk" /\ output' = Created
      BY <3>2, <3>3 DEF Sound, Failed
    <3>5. Opened = file - 1 /\ Opened' = file /\ Progress' = 0 /\ Target' = file
      BY <3>1, <3>2, <3>4 DEF Opened, Progress, InFile, Waits, Target
    <3>6. DOMAIN output = 1..(file - 1) /\ data_size = 0
      BY <3>1, <3>4, <3>5 DEF ContentOK
    <3>7. DOMAIN output' = 1..file /\ output'[file] = <<>>
          /\ \A f \in 1..(file - 1) : output'[f] = output[f]
      BY <3>1, <3>4, <3>6 DEF Created
    <3>8. Chunks(file, 0) = <<>>
      BY DEF Chunks
    <3>9. \A f \in 1..(file - 1) : output[f] = Chunks(f, FileSizes[f])
      <4> SUFFICES ASSUME NEW f \in 1..(file - 1) PROVE output[f] = Chunks(f, FileSizes[f])
        OBVIOUS
      <4>1. output[f] = Chunks(f, IF f = Opened THEN Progress - data_size ELSE FileSizes[f])
        BY <3>4, <3>5 DEF ContentOK
      <4>2. f = Opened => Progress - data_size = FileSizes[f]
        BY <3>1, <3>5, <3>6, Sums DEF Progress, InFile, Waits
      <4> QED BY <4>1, <4>2
    <3>10. \A f \in 1..Opened' :
             output'[f] = Chunks(f, IF f = Opened' THEN Progress' - data_size' ELSE FileSizes[f])
      <4> SUFFICES ASSUME NEW f \in 1..file
                   PROVE  output'[f] = Chunks(f, IF f = file THEN 0 ELSE FileSizes[f])
        BY <3>2, <3>5, <3>6
      <4>1. CASE f = file
        BY <4>1, <3>7, <3>8
      <4>2. CASE f # file
        BY <4>2, <3>1, <3>7, <3>9
      <4> QED BY <4>1, <4>2
    <3> QED
      BY <3>1, <3>2, <3>4, <3>5, <3>6, <3>7, <3>10 DEF ContentOK
  <2>8. EndOK'
    BY <1>4 DEF EndOK, Finishing, Waits, Over, LoopEnds, NoFileLeft, Sound, Failed, Whole, OpenFile, ReaderGoes,
         ReadFails, Created, PropertiesAccepted, dataVars
  <2> QED BY <2>1, <2>2, <2>3, <2>4, <2>5, <2>6, <2>7, <2>8
<1>5. CASE ReadChunk
  <2>1. ThreadTypes'
    BY <1>5 DEF ReaderPcs, ThreadTypes, ReadChunk, ReaderGoes, ReadFails, dataVars, outputVars
  <2>2. CounterTypes'
    BY <1>5, Sums DEF CounterTypes, CountersOK, InFile, Waits, ReadChunk, ReaderGoes, ReadFails,
         dataVars, outputVars
  <2>3. FlagTypes'
    BY <1>5 DEF FlagTypes, ReadChunk, ReaderGoes, ReadFails, dataVars, outputVars
  <2>4. CountersOK'
    BY <1>5, Sums DEF CountersOK, Handed, InFile, Waits, CounterTypes, ReadChunk, ReaderGoes,
         ReadFails, dataVars, outputVars
  <2>5. FlagsOK'
    BY <1>5 DEF FlagsOK, Failed, ReadChunk, ReaderGoes, ReadFails, dataVars, outputVars
  <2>6. OpenOK'
    BY <1>5 DEF OpenOK, Closed, InFile, Waits, Target, ReadChunk, ReaderGoes, ReadFails, dataVars,
         outputVars
  <2>7. ContentOK'
    <3>1. /\ file \in 1..NumFiles /\ NumFiles \in Nat /\ FileSizes[file] \in Nat
          /\ chunk \in 0..FileSizes[file] /\ rpc = "chunk"
      <4>1. rpc = "chunk"
        BY <1>5 DEF ReadChunk
      <4> QED BY <4>1, Sums DEF CountersOK, InFile, CounterTypes
    <3>2. UNCHANGED <<chunk, data_written, data_size, overtaken, fp, hostFile, remaining>>
      BY <1>5 DEF ReadChunk, dataVars, outputVars
    <3>3. \/ rpc' \in {"end", "abort"} /\ file' = file
          \/ rpc' = "lockChunk" /\ file' = file /\ chunk < FileSizes[file]
          \/ rpc' = "entry" /\ file' = file + 1 /\ chunk = FileSizes[file]
      BY <1>5 DEF ReadChunk, ReaderGoes, ReadFails
    <3>4. UNCHANGED <<rwait, output, data, transfer_cancelled, write_error, usb>>
      BY <1>5 DEF ReadChunk, dataVars, outputVars
    <3>5. SUFFICES ASSUME Sound' PROVE ContentOK'
      BY DEF ContentOK
    <3>6. Sound /\ (rpc' \in {"lockChunk", "entry"})
      BY <1>5, <3>5 DEF Sound, Failed, ReadChunk, ReadFails, ReaderGoes
    <3>7. Opened' = Opened /\ Opened = file /\ Progress' = Progress /\ Target' = Target
      BY <3>1, <3>2, <3>3, <3>4, <3>6 DEF Opened, Progress, InFile, Waits, Target
    <3>8. ~Closed /\ ~Closed'
      <4>1. UNCHANGED <<kind, crossed>>
        BY <1>5 DEF ReadChunk
      <4> QED BY <3>1, <3>6, <4>1 DEF Closed, OpenOK, InFile
    <3> QED
      BY <3>1, <3>2, <3>4, <3>6, <3>7, <3>8 DEF ContentOK
  <2>8. EndOK'
    BY <1>5 DEF EndOK, Finishing, Waits, Over, LoopEnds, NoFileLeft, Sound, Failed, Whole, ReadChunk, ReaderGoes,
         ReadFails, dataVars, outputVars
  <2> QED BY <2>1, <2>2, <2>3, <2>4, <2>5, <2>6, <2>7, <2>8
<1>6. CASE LockForChunk
  <2>1. ThreadTypes'
    BY <1>6 DEF ReaderPcs, ThreadTypes, LockForChunk, ReaderGoes, Deposit, Pending, MutexFree,
         flagVars, dataVars, outputVars
  <2>2. CounterTypes'
    BY <1>6 DEF CounterTypes, LockForChunk, ReaderGoes, Deposit, Pending, MutexFree, flagVars,
         dataVars, outputVars
  <2>3. FlagTypes'
    BY <1>6 DEF FlagTypes, LockForChunk, ReaderGoes, Deposit, Pending, MutexFree, flagVars,
         dataVars, outputVars
  <2>4. CountersOK'
    BY <1>6, Sums DEF CountersOK, Handed, InFile, Waits, CounterTypes, LockForChunk, ReaderGoes,
         Deposit, Pending, MutexFree, flagVars, dataVars, outputVars
  <2>5. FlagsOK'
    BY <1>6 DEF FlagsOK, Failed, LockForChunk, ReaderGoes, Deposit, Pending, MutexFree, flagVars,
         dataVars, outputVars
  <2>6. OpenOK'
    BY <1>6 DEF OpenOK, Closed, InFile, Waits, Target, LockForChunk, ReaderGoes, Deposit, Pending,
         MutexFree, flagVars, dataVars, outputVars
  <2>7. ContentOK'
    <3>1. /\ file \in 1..NumFiles /\ NumFiles \in Nat /\ FileSizes[file] \in Nat /\ chunk \in Nat
          /\ rpc = "lockChunk" /\ data_size \in {0, 1}
      <4>1. rpc = "lockChunk"
        BY <1>6 DEF LockForChunk
      <4> QED BY <4>1, Sums DEF CountersOK, InFile, CounterTypes
    <3>2. UNCHANGED <<file, usb, flagVars, fp, output, remaining, hostFile, overtaken>>
      BY <1>6 DEF LockForChunk, outputVars
    <3>3. \/ UNCHANGED <<chunk, data, data_size>> /\ rpc' = "asleep" /\ rwait' = "chunk"
          \/ UNCHANGED <<chunk, data, data_size>> /\ rpc' = "end" /\ write_error
          \/ /\ ~write_error /\ data_size' = 1 /\ data' = <<file, chunk + 1>> /\ chunk' = chunk + 1
             /\ rpc' = "wake" /\ data_size = 0
      BY <1>6, <3>1 DEF LockForChunk, Deposit, Pending, ReaderGoes, dataVars
    <3>4. SUFFICES ASSUME Sound' PROVE ContentOK'
      BY DEF ContentOK
    <3>5. Sound
      BY <3>2, <3>4 DEF Sound, Failed, flagVars
    <3>6. /\ Opened = file /\ Progress = chunk /\ Target' = Target
          /\ ~Closed /\ (rpc' \in {"asleep", "wake"} => ~Closed')
      <4>1. UNCHANGED <<kind, crossed>>
        BY <1>6 DEF LockForChunk
      <4> QED BY <3>1, <3>2, <4>1 DEF Opened, Progress, InFile, Waits, Target, Closed, OpenOK
    <3>7. CASE UNCHANGED <<chunk, data, data_size>> /\ rpc' = "asleep" /\ rwait' = "chunk"
      <4>1. Opened' = Opened /\ Progress' = Progress
        BY <3>1, <3>2, <3>6, <3>7 DEF Opened, Progress, InFile, Waits
      <4> QED BY <3>1, <3>2, <3>5, <3>6, <3>7, <4>1 DEF ContentOK
    <3>8. CASE data_size' = 1 /\ data' = <<file, chunk + 1>> /\ chunk' = chunk + 1 /\ rpc' = "wake"
               /\ data_size = 0
      <4>1. Opened' = file /\ Progress' = chunk + 1
        BY <3>2, <3>8 DEF Opened, Progress, InFile
      <4> QED BY <3>1, <3>2, <3>5, <3>6, <3>8, <4>1 DEF ContentOK
    <3> QED
      BY <3>2, <3>3, <3>4, <3>7, <3>8 DEF Sound, Failed, flagVars
  <2>8. EndOK'
    BY <1>6 DEF EndOK, Finishing, Waits, Over, LoopEnds, NoFileLeft, Sound, Failed, Whole, LockForChunk, ReaderGoes,
         Deposit, Pending, MutexFree, flagVars, dataVars, outputVars
  <2> QED BY <2>1, <2>2, <2>3, <2>4, <2>5, <2>6, <2>7, <2>8
<1>7. CASE ReaderWakes
  <2>1. ThreadTypes'
    BY <1>7 DEF ReaderPcs, ThreadTypes, ReaderWakes, ReaderGoes, WakeWriter, flagVars, dataVars,
         outputVars
  <2>2. CounterTypes'
    BY <1>7 DEF CounterTypes, ReaderWakes, ReaderGoes, WakeWriter, flagVars, dataVars, outputVars
  <2>3. FlagTypes'
    BY <1>7 DEF FlagTypes, ReaderWakes, ReaderGoes, WakeWriter, flagVars, dataVars, outputVars
  <2>4. CountersOK'
    BY <1>7 DEF CountersOK, Handed, InFile, Waits, ReaderWakes, ReaderGoes, WakeWriter, flagVars,
         dataVars, outputVars
  <2>5. FlagsOK'
    BY <1>7 DEF FlagsOK, Failed, ReaderWakes, ReaderGoes, WakeWriter, flagVars, dataVars, outputVars
  <2>6. OpenOK'
    BY <1>7 DEF OpenOK, Closed, InFile, Waits, Target, ReaderWakes, ReaderGoes, WakeWriter, flagVars,
         dataVars, outputVars
  <2>7. ContentOK'
    BY <1>7 DEF ContentOK, Closed, Sound, Failed, InFile, Waits, Opened, Progress, Target, ReaderWakes,
         ReaderGoes, WakeWriter, flagVars, dataVars, outputVars
  <2>8. EndOK'
    BY <1>7 DEF EndOK, Finishing, Waits, Over, LoopEnds, NoFileLeft, Sound, Failed, Whole, ReaderWakes, ReaderGoes,
         WakeWriter, flagVars, dataVars, outputVars
  <2> QED BY <2>1, <2>2, <2>3, <2>4, <2>5, <2>6, <2>7, <2>8
<1>8. CASE CheckLast
  <2>1. ThreadTypes'
    BY <1>8 DEF ReaderPcs, ThreadTypes, CheckLast, ReaderGoes, flagVars, dataVars, outputVars
  <2>2. CounterTypes'
    BY <1>8 DEF CounterTypes, CheckLast, ReaderGoes, flagVars, dataVars, outputVars
  <2>3. FlagTypes'
    BY <1>8 DEF FlagTypes, CheckLast, ReaderGoes, flagVars, dataVars, outputVars
  <2>4. CountersOK'
    BY <1>8 DEF CountersOK, Handed, InFile, Waits, CheckLast, ReaderGoes, flagVars, dataVars,
         outputVars
  <2>5. FlagsOK'
    BY <1>8 DEF FlagsOK, Failed, CheckLast, ReaderGoes, flagVars, dataVars, outputVars
  <2>6. OpenOK'
    BY <1>8 DEF OpenOK, Closed, InFile, Waits, Target, CheckLast, ReaderGoes, flagVars, dataVars, outputVars
  <2>7. ContentOK'
    BY <1>8 DEF ContentOK, Closed, Sound, Failed, InFile, Waits, Opened, Progress, Target, CheckLast,
         ReaderGoes, flagVars, dataVars, outputVars
  <2>8. EndOK'
    BY <1>8 DEF EndOK, Finishing, Waits, Over, LoopEnds, NoFileLeft, Sound, Failed, Whole, CheckLast, ReaderGoes,
         flagVars, dataVars, outputVars
  <2> QED BY <2>1, <2>2, <2>3, <2>4, <2>5, <2>6, <2>7, <2>8
<1>9. CASE LockForLast
  <2>1. ThreadTypes'
    BY <1>9 DEF ReaderPcs, ThreadTypes, LockForLast, AfterLast, ReaderGoes, MutexFree, flagVars, dataVars,
         outputVars
  <2>2. CounterTypes'
    BY <1>9 DEF CounterTypes, LockForLast, AfterLast, ReaderGoes, MutexFree, flagVars, dataVars, outputVars
  <2>3. FlagTypes'
    BY <1>9 DEF FlagTypes, LockForLast, AfterLast, ReaderGoes, MutexFree, flagVars, dataVars, outputVars
  <2>4. CountersOK'
    BY <1>9 DEF CountersOK, Handed, InFile, Waits, LockForLast, AfterLast, ReaderGoes, MutexFree, flagVars,
         dataVars, outputVars
  <2>5. FlagsOK'
    BY <1>9 DEF FlagsOK, Failed, LockForLast, AfterLast, ReaderGoes, MutexFree, flagVars, dataVars, outputVars
  <2>6. OpenOK'
    BY <1>9 DEF OpenOK, Closed, InFile, Waits, Target, LockForLast, AfterLast, ReaderGoes, MutexFree, flagVars,
         dataVars, outputVars
  <2>7. ContentOK'
    <3>1. /\ rpc = "lockLast"
          /\ UNCHANGED <<kind, usb, file, chunk, cwd, crossed, data, data_size, flagVars, fp, output,
                         remaining, hostFile, overtaken>>
          /\ \/ data_size > 0 /\ rpc' = "asleep" /\ rwait' = "last"
             \/ ~(data_size > 0) /\ rpc' = AfterLast
      BY <1>9 DEF LockForLast, ReaderGoes, dataVars, outputVars
    <3>2. SUFFICES ASSUME Sound' PROVE ContentOK'
      BY DEF ContentOK
    <3>3. Sound
      BY <3>1, <3>2 DEF Sound, Failed, flagVars
    <3>4. Opened' = Opened /\ Progress' = Progress /\ Target' = Target /\ Closed' = Closed
      BY <3>1 DEF Opened, Progress, InFile, Waits, Target, Closed, AfterLast
    <3> QED
      BY <3>1, <3>3, <3>4 DEF ContentOK
  <2>8. EndOK'
    BY <1>9 DEF FlagTypes, CounterTypes, EndOK, Finishing, Waits, Over, LoopEnds, NoFileLeft, Sound, Failed, Whole, LockForLast, AfterLast, ReaderGoes,
         MutexFree, flagVars, dataVars, outputVars
  <2> QED BY <2>1, <2>2, <2>3, <2>4, <2>5, <2>6, <2>7, <2>8
<1>10. CASE ReaderResumes
  <2>1. ThreadTypes'
    BY <1>10 DEF ReaderPcs, ThreadTypes, ReaderResumes, ReaderGoes, AfterLast, FileIsHere, CloseFile, Deposit, Pending,
         MutexFree, flagVars, dataVars, outputVars
  <2>2. CounterTypes'
    BY <1>10, Sums DEF CounterTypes, ReaderResumes, ReaderGoes, AfterLast, FileIsHere, CloseFile, Deposit, Pending,
         MutexFree, flagVars, dataVars, outputVars
  <2>3. FlagTypes'
    BY <1>10 DEF FlagTypes, ReaderResumes, ReaderGoes, AfterLast, FileIsHere, CloseFile, Deposit, Pending, MutexFree,
         flagVars, dataVars, outputVars
  <2>4. CountersOK'
    <3>1. /\ rpc = "woken" /\ overtaken' = (overtaken \/ Pending)
          /\ UNCHANGED <<kind, usb, rwait, file, walkVars, wpc, mpc, data_written, flagVars, outputVars,
                         result>>
      BY <1>10 DEF ReaderResumes
    <3>2. \/ rwait = "file" /\ CloseFile /\ UNCHANGED <<chunk, dataVars>>
          \/ rwait = "chunk" /\ Deposit /\ UNCHANGED fp
          \/ rwait = "last" /\ rpc' = AfterLast /\ UNCHANGED <<chunk, dataVars, fp>>
      BY <1>10 DEF ReaderResumes, ReaderGoes, ThreadTypes
    <3>3. /\ file \in Nat \ {0} /\ data_size \in {0, 1} /\ NumFiles \in Nat /\ chunk \in Nat
          /\ data_written \in Nat
      BY Sums DEF CounterTypes
    <3>4. CASE UNCHANGED <<chunk, dataVars>> /\ rpc' \in {"end", "open", "enter", "finish"}
      <4>1. Handed' = Handed
        BY <3>1, <3>4 DEF Handed
      <4>2. /\ rpc' \in {"open", "enter"} => rwait = "file"
            /\ rpc' = "enter" => kind = "browser"
        BY <3>2, <3>4 DEF Deposit, CloseFile, FileIsHere, AfterLast, ReaderGoes
      <4> QED BY <3>1, <3>4, <4>1, <4>2 DEF CountersOK, InFile, Waits, dataVars
    <3>5. CASE /\ rwait = "chunk" /\ data_size' = 1 /\ chunk' = chunk + 1 /\ rpc' = "wake"
               /\ ~write_error
      <4>1. file <= NumFiles /\ chunk < FileSizes[file] /\ FileSizes[file] \in Nat
        BY <3>1, <3>3, <3>5, Sums DEF CountersOK, InFile, Waits
      <4>2. Handed' = Handed + 1 /\ Handed \in Nat
        <5>1. ChunksUpTo[file - 1] \in Nat
          BY <3>3, <4>1, Sums
        <5> QED BY <3>1, <3>3, <3>5, <5>1 DEF Handed
      <4>3. ~overtaken' => ~overtaken /\ data_size = 0
        <5>1. ~overtaken' => ~overtaken /\ ~Pending
          BY <3>1
        <5> QED BY <3>3, <3>5, <5>1 DEF Pending
      <4>4. data_written' + data_size' <= Handed'
        BY <3>1, <3>3, <3>5, <4>2 DEF CountersOK
      <4>5. ~overtaken' => data_written' + data_size' = Handed'
        BY <3>1, <3>3, <3>5, <4>2, <4>3 DEF CountersOK
      <4> QED BY <3>1, <3>3, <3>5, <4>1, <4>4, <4>5 DEF CountersOK, InFile, Waits
    <3> QED
      BY <3>2, <3>4, <3>5 DEF CloseFile, FileIsHere, AfterLast, Deposit, ReaderGoes
  <2>5. FlagsOK'
    BY <1>10 DEF FlagsOK, Failed, ReaderResumes, ReaderGoes, AfterLast, FileIsHere, CloseFile, Deposit, Pending, MutexFree,
         flagVars, dataVars, outputVars
  <2>6. OpenOK'
    BY <1>10 DEF OpenOK, Closed, InFile, Waits, Target, ReaderResumes, ReaderGoes, AfterLast, FileIsHere, CloseFile, Deposit,
         Pending, MutexFree, flagVars, dataVars, outputVars
  <2>7. ContentOK'
    <3>1. /\ rpc = "woken" /\ overtaken' = (overtaken \/ Pending)
          /\ UNCHANGED <<kind, usb, rwait, file, walkVars, wpc, mpc, data_written, flagVars, outputVars,
                         result>>
      BY <1>10 DEF ReaderResumes
    <3>2. \/ rwait = "file" /\ CloseFile /\ UNCHANGED <<chunk, dataVars>>
          \/ rwait = "chunk" /\ Deposit /\ UNCHANGED fp
          \/ rwait = "last" /\ rpc' = AfterLast /\ UNCHANGED <<chunk, dataVars, fp>>
      BY <1>10 DEF ReaderResumes, ReaderGoes, ThreadTypes
    <3>3. /\ file \in Nat \ {0} /\ data_size \in {0, 1} /\ NumFiles \in Nat /\ chunk \in Nat
          /\ data_written \in Nat
      BY Sums DEF CounterTypes
    <3>4. SUFFICES ASSUME Sound' PROVE ContentOK'
      BY DEF ContentOK
    <3>5. Sound /\ ~write_error /\ ~Pending
      BY <3>1, <3>4 DEF Sound, Failed, flagVars
    <3>6. data_size = 0
      BY <3>3, <3>5 DEF Pending
    <3>7. CASE rwait = "file" /\ CloseFile /\ UNCHANGED <<chunk, dataVars>>
      <4>1. rpc' \in {"open", "enter"} /\ fp' = 0
        BY <3>5, <3>7 DEF CloseFile, FileIsHere, ReaderGoes
      <4>2. Opened' = Opened /\ Progress' = Progress /\ (usb => Target' = Target)
        BY <3>1, <3>7, <4>1 DEF Opened, Progress, InFile, Waits, Target, AfterLast, outputVars
      <4> QED BY <3>1, <3>5, <3>6, <3>7, <4>1, <4>2 DEF ContentOK, Closed, dataVars, outputVars
    <3>8. CASE rwait = "chunk" /\ Deposit /\ UNCHANGED fp
      <4>1. rpc' = "wake" /\ data_size' = 1 /\ data' = <<file, chunk + 1>> /\ chunk' = chunk + 1
        BY <3>5, <3>8 DEF Deposit, ReaderGoes
      <4>2. /\ Opened = file /\ Progress = chunk /\ Opened' = file /\ Progress' = chunk + 1
            /\ Target' = Target
        BY <3>1, <3>8, <4>1 DEF Opened, Progress, InFile, Waits, Target, AfterLast, outputVars
      <4>3. FileSizes[file] \in Nat
        BY <3>1, <3>3, <3>8, Sums DEF CountersOK, InFile, Waits
      <4> QED BY <3>1, <3>3, <3>5, <3>6, <3>8, <4>1, <4>2, <4>3 DEF ContentOK, OpenOK,
              Closed, InFile, Waits, outputVars
    <3>9. CASE rwait = "last" /\ rpc' = AfterLast /\ UNCHANGED <<chunk, dataVars, fp>>
      <4>1. Opened' = Opened /\ Progress' = Progress /\ Target' = Target
        BY <3>1, <3>9 DEF Opened, Progress, InFile, Waits, Target, AfterLast, outputVars
      <4>2. usb \/ ~Closed' => usb \/ ~Closed
        BY <3>1, <3>9 DEF Closed
      <4> QED BY <3>1, <3>5, <3>6, <3>9, <4>1, <4>2 DEF ContentOK, AfterLast, dataVars, outputVars
    <3> QED
      BY <3>2, <3>7, <3>8, <3>9
  <2>8. EndOK'
    <3>1. /\ rpc = "woken" /\ UNCHANGED <<kind, file, cwd, crossed, data_written, flagVars>>
          /\ rwait \in {"file", "chunk", "last"} /\ overtaken' = (overtaken \/ Pending)
          /\ data_size \in {0, 1} /\ kind \in Kinds /\ (cwd = <<>> \/ kind = "browser")
      BY <1>10 DEF ReaderResumes, ThreadTypes, CounterTypes, FlagTypes
    <3>2. \/ rwait = "last" /\ rpc' = AfterLast /\ UNCHANGED <<chunk, data_size>>
          \/ rpc' = "end" /\ write_error
          \/ rpc' \in {"open", "enter", "wake"}
      BY <1>10, <3>1 DEF ReaderResumes, CloseFile, FileIsHere, Deposit, ReaderGoes, dataVars
    <3>3. LoopEnds' = LoopEnds
      BY <3>1 DEF LoopEnds, NoFileLeft
    <3>4. CASE rwait = "last" /\ rpc' = AfterLast /\ UNCHANGED <<chunk, data_size>>
      <4>1. LoopEnds /\ chunk = 0
        BY <3>1, <3>4 DEF EndOK, Finishing, Waits
      <4>2. ~Failed' /\ ~overtaken' => data_size = 0
        <5>1. ~overtaken' => ~Pending
          BY <3>1
        <5>2. ~Failed' => ~write_error
          BY <3>1 DEF Failed, flagVars
        <5> QED BY <3>1, <5>1, <5>2 DEF Pending
      <4>3. rpc' = (IF kind = "browser" THEN "end" ELSE "finish")
        BY <3>4 DEF AfterLast
      <4> QED BY <3>1, <3>3, <3>4, <4>1, <4>2, <4>3 DEF EndOK, Finishing, Waits, Over
    <3>5. CASE (rpc' = "end" /\ write_error) \/ rpc' \in {"open", "enter", "wake"}
      BY <3>1, <3>5 DEF EndOK, Finishing, Waits, Over, Sound, Failed, flagVars
    <3> QED
      BY <3>2, <3>4, <3>5
  <2> QED BY <2>1, <2>2, <2>3, <2>4, <2>5, <2>6, <2>7, <2>8
<1>11. CASE FinishFs
  <2>1. ThreadTypes'
    BY <1>11 DEF ReaderPcs, ThreadTypes, FinishFs, ReaderGoes, flagVars, dataVars
  <2>2. CounterTypes'
    BY <1>11 DEF CounterTypes, FinishFs, ReaderGoes, flagVars, dataVars
  <2>3. FlagTypes'
    BY <1>11 DEF FlagTypes, FinishFs, ReaderGoes, flagVars, dataVars
  <2>4. CountersOK'
    BY <1>11 DEF CountersOK, Handed, InFile, Waits, FinishFs, ReaderGoes, flagVars, dataVars
  <2>5. FlagsOK'
    BY <1>11 DEF FlagsOK, Failed, FinishFs, ReaderGoes, flagVars, dataVars
  <2>6. OpenOK'
    BY <1>11 DEF OpenOK, Closed, InFile, Waits, Target, FinishFs, ReaderGoes, flagVars, dataVars
  <2>7. ContentOK'
    BY <1>11 DEF ContentOK, Closed, Sound, Failed, InFile, Waits, Opened, Progress, Target, FinishFs,
         ReaderGoes, flagVars, dataVars
  <2>8. EndOK'
    <3>1. /\ LoopEnds /\ chunk = 0 /\ cwd = <<>> /\ (Sound => data_size = 0)
      BY <1>11 DEF FinishFs, EndOK, Finishing, Sound
    <3>2. /\ rpc = "finish" /\ rpc' = (IF kind = "browser" THEN "done" ELSE "end")
          /\ hostFs' = (IF usb /\ remaining = 0 THEN FALSE ELSE hostFs)
          /\ UNCHANGED <<kind, usb, file, chunk, cwd, crossed, data_size, data_written, flagVars, overtaken,
                         output, dir>>
      BY <1>11 DEF FinishFs, ReaderGoes, dataVars
    <3>3. Sound => ~hostFs'
      <4>1. CASE ~usb
        BY <3>2, <4>1 DEF OpenOK, FlagTypes
      <4>2. CASE usb /\ Sound
        <5>1. Opened = 0 \/ (Opened \in 1..NumFiles /\ Progress = FileSizes[Opened])
          BY <3>2, Sums DEF Opened, Progress, InFile, Waits, CounterTypes
        <5>2. remaining = 0
          BY <3>1, <4>2, <5>1, Sums DEF ContentOK
        <5> QED BY <3>2, <4>2, <5>2
      <4> QED BY <4>1, <4>2
    <3>4. /\ LoopEnds' = LoopEnds /\ Failed' = Failed /\ Sound' = Sound
          /\ \A f \in Files : Whole(f)' = Whole(f)
      BY <3>2 DEF LoopEnds, NoFileLeft, Failed, Sound, Whole, flagVars
    <3>5. Over' /\ kind # "browser" => FALSE
      BY <3>2 DEF Over
    <3>6. kind = "browser" => Over
      BY <3>2 DEF Over
    <3> QED
      BY <3>1, <3>2, <3>3, <3>4, <3>5, <3>6 DEF EndOK, Finishing, Waits, Sound, flagVars, Files
  <2> QED BY <2>1, <2>2, <2>3, <2>4, <2>5, <2>6, <2>7, <2>8
<1>12. CASE ReaderAborts
  <2>1. ThreadTypes'
    BY <1>12 DEF ReaderPcs, ThreadTypes, ReaderAborts, ReaderGoes, WakeWriter, flagVars, dataVars,
         outputVars
  <2>2. CounterTypes'
    BY <1>12 DEF CounterTypes, ReaderAborts, ReaderGoes, WakeWriter, flagVars, dataVars, outputVars
  <2>3. FlagTypes'
    BY <1>12 DEF FlagTypes, ReaderAborts, ReaderGoes, WakeWriter, flagVars, dataVars, outputVars
  <2>4. CountersOK'
    BY <1>12 DEF CountersOK, Handed, InFile, Waits, ReaderAborts, ReaderGoes, WakeWriter, flagVars,
         dataVars, outputVars
  <2>5. FlagsOK'
    BY <1>12 DEF FlagsOK, Failed, ReaderAborts, ReaderGoes, WakeWriter, flagVars, dataVars,
         outputVars
  <2>6. OpenOK'
    BY <1>12 DEF OpenOK, Closed, InFile, Waits, Target, ReaderAborts, ReaderGoes, WakeWriter, flagVars,
         dataVars, outputVars
  <2>7. ContentOK'
    BY <1>12 DEF ContentOK, Closed, Sound, Failed, InFile, Waits, Opened, Progress, Target, ReaderAborts,
         ReaderGoes, WakeWriter, flagVars, dataVars, outputVars
  <2>8. EndOK'
    <3>1. /\ rpc' = "end" /\ (read_error' \/ transfer_cancelled')
      BY <1>12 DEF ReaderAborts, ReaderGoes, FlagsOK, flagVars
    <3> QED
      BY <3>1 DEF EndOK, Finishing, Waits, Over, Sound, Failed
  <2> QED BY <2>1, <2>2, <2>3, <2>4, <2>5, <2>6, <2>7, <2>8
<1>13. CASE ReaderEnds
  <2>1. ThreadTypes'
    BY <1>13 DEF ReaderPcs, ThreadTypes, ReaderEnds, ReturnFromDirectory, LeaveReader,
         ReaderGoes, MustRemove, flagVars, dataVars
  <2>2. CounterTypes'
    <3>1. fp' = 0 /\ UNCHANGED <<file, chunk, data_size, data_written, hostFile, remaining>>
      BY <1>13 DEF ReaderEnds, dataVars
    <3> QED
      BY <3>1, Sums DEF CounterTypes
  <2>3. FlagTypes'
    <3>1. /\ UNCHANGED <<kind, usb, read_error, write_error, transfer_cancelled, hostFs, overtaken>>
          /\ dir' = dir \/ dir' = "removed"
      BY <1>13 DEF ReaderEnds, flagVars
    <3>2. \/ UNCHANGED <<crossed, cwd>>
          \/ cwd # <<>> /\ crossed' = TRUE
      BY <1>13 DEF ReaderEnds, ReturnFromDirectory, LeaveReader
    <3>3. CASE UNCHANGED <<crossed, cwd>>
      BY <3>1, <3>3 DEF FlagTypes
    <3>4. CASE cwd # <<>> /\ crossed' = TRUE
      BY <3>1, <3>4 DEF FlagTypes
    <3> QED
      BY <3>2, <3>3, <3>4
  <2>4. CountersOK'
    <3>1. /\ rpc = "end" /\ fp' = 0
          /\ dir' = (IF MustRemove THEN "removed" ELSE dir)
          /\ UNCHANGED <<kind, usb, rwait, file, chunk, wpc, mpc, dataVars, data_written, flagVars, output,
                         remaining, hostFile, hostFs, overtaken, result>>
          /\ \/ /\ ~read_error /\ cwd # <<>> /\ crossed'
                /\ rpc' = (IF Failed THEN "unwind" ELSE "entry")
             \/ /\ cwd = <<>> \/ read_error
                /\ rpc' = (IF kind = "browser" /\ ~Failed THEN "finish" ELSE "done")
                /\ UNCHANGED walkVars
      BY <1>13 DEF ReaderEnds, ReturnFromDirectory, LeaveReader, ReaderGoes
    <3>2. rpc' = "entry" => chunk = 0
      BY <3>1 DEF EndOK
    <3>3. Handed' = Handed
      BY <3>1, <3>2, Sums DEF Handed, CounterTypes
    <3> QED
      BY <3>1, <3>3 DEF CountersOK, InFile, Waits, dataVars
  <2>5. FlagsOK'
    <3>1. /\ rpc = "end" /\ fp' = 0
          /\ dir' = (IF MustRemove THEN "removed" ELSE dir)
          /\ UNCHANGED <<kind, usb, rwait, file, chunk, wpc, mpc, dataVars, data_written, flagVars, output,
                         remaining, hostFile, hostFs, overtaken, result>>
          /\ \/ /\ ~read_error /\ cwd # <<>> /\ crossed'
                /\ rpc' = (IF Failed THEN "unwind" ELSE "entry")
             \/ /\ cwd = <<>> \/ read_error
                /\ rpc' = (IF kind = "browser" /\ ~Failed THEN "finish" ELSE "done")
                /\ UNCHANGED walkVars
      BY <1>13 DEF ReaderEnds, ReturnFromDirectory, LeaveReader, ReaderGoes
    <3> QED
      BY <3>1 DEF FlagsOK, Failed, flagVars
  <2>6. OpenOK'
    <3>1. /\ rpc = "end" /\ fp' = 0
          /\ dir' = (IF MustRemove THEN "removed" ELSE dir)
          /\ UNCHANGED <<kind, usb, rwait, file, chunk, wpc, mpc, dataVars, data_written, flagVars, output,
                         remaining, hostFile, hostFs, overtaken, result>>
          /\ \/ /\ ~read_error /\ cwd # <<>> /\ crossed'
                /\ rpc' = (IF Failed THEN "unwind" ELSE "entry")
             \/ /\ cwd = <<>> \/ read_error
                /\ rpc' = (IF kind = "browser" /\ ~Failed THEN "finish" ELSE "done")
                /\ UNCHANGED walkVars
      BY <1>13 DEF ReaderEnds, ReturnFromDirectory, LeaveReader, ReaderGoes
    <3>2. ~InFile' /\ (usb => Target' = Target)
      BY <3>1 DEF InFile, Waits, Target
    <3>3. Closed' \/ rpc' = "done"
      BY <3>1 DEF Closed
    <3> QED
      BY <3>1, <3>2, <3>3 DEF OpenOK, Closed
  <2>7. ContentOK'
    <3>1. /\ rpc = "end" /\ fp' = 0
          /\ dir' = (IF MustRemove THEN "removed" ELSE dir)
          /\ UNCHANGED <<kind, usb, rwait, file, chunk, wpc, mpc, dataVars, data_written, flagVars, output,
                         remaining, hostFile, hostFs, overtaken, result>>
          /\ \/ /\ ~read_error /\ cwd # <<>> /\ crossed'
                /\ rpc' = (IF Failed THEN "unwind" ELSE "entry")
             \/ /\ cwd = <<>> \/ read_error
                /\ rpc' = (IF kind = "browser" /\ ~Failed THEN "finish" ELSE "done")
                /\ UNCHANGED walkVars
      BY <1>13 DEF ReaderEnds, ReturnFromDirectory, LeaveReader, ReaderGoes
    <3>2. SUFFICES ASSUME Sound' PROVE ContentOK'
      BY DEF ContentOK
    <3>3. Sound /\ data_size = 0
      BY <3>1, <3>2 DEF Sound, Failed, EndOK, flagVars
    <3>4. Opened' = Opened /\ Progress' = Progress /\ (usb => Target' = Target) /\ Closed'
      BY <3>1 DEF Opened, Progress, InFile, Waits, Target, Closed
    <3> QED
      BY <3>1, <3>3, <3>4 DEF ContentOK, dataVars
  <2>8. EndOK'
    <3>1. /\ rpc = "end" /\ fp' = 0
          /\ dir' = (IF MustRemove THEN "removed" ELSE dir)
          /\ UNCHANGED <<kind, usb, rwait, file, chunk, wpc, mpc, dataVars, data_written, flagVars, output,
                         remaining, hostFile, hostFs, overtaken, result>>
          /\ \/ /\ ~read_error /\ cwd # <<>> /\ crossed'
                /\ rpc' = (IF Failed THEN "unwind" ELSE "entry")
             \/ /\ cwd = <<>> \/ read_error
                /\ rpc' = (IF kind = "browser" /\ ~Failed THEN "finish" ELSE "done")
                /\ UNCHANGED walkVars
      BY <1>13 DEF ReaderEnds, ReturnFromDirectory, LeaveReader, ReaderGoes
    <3>2. LoopEnds' = LoopEnds \/ UNCHANGED cwd => LoopEnds' = LoopEnds
      BY <3>1 DEF LoopEnds, NoFileLeft
    <3>3. /\ Failed' = Failed /\ Sound' = Sound
          /\ \A f \in Files : Whole(f)' = Whole(f)
      BY <3>1 DEF Failed, Sound, Whole, flagVars
    <3>4. CASE rpc' \in {"unwind", "entry"}
      BY <3>4 DEF EndOK, Finishing, Waits, Over
    <3>5. CASE rpc' \in {"finish", "done"}
      <4>1. /\ cwd = <<>> \/ read_error
            /\ rpc' = (IF kind = "browser" /\ ~Failed THEN "finish" ELSE "done")
            /\ UNCHANGED <<cwd, crossed>>
        BY <3>1, <3>5
      <4>2. LoopEnds' = LoopEnds
        BY <3>2, <4>1
      <4>3. ~Failed => LoopEnds /\ chunk = 0 /\ cwd = <<>> /\ (~overtaken => data_size = 0)
        BY <3>1, <4>1 DEF EndOK, Failed
      <4>4. rpc' = "done" /\ Sound => ~hostFs
        BY <3>1, <4>1 DEF EndOK, Sound
      <4>5. ASSUME ~usb, ~read_error, ~write_error, ~overtaken, dir' = "there", ~crossed
            PROVE  data_size = 0 /\ \A f \in Files : FileSizes[f] = 0 \/ Whole(f)
        <5>1. ~Closed /\ dir = "there" /\ ~MustRemove
          BY <3>1, <4>5 DEF Closed
        <5>2. fp # 0
          BY <4>5, <5>1 DEF OpenOK
        <5>3. Sound
          BY <4>5, <5>1, <5>2 DEF MustRemove, Sound
        <5>4. cwd = <<>>
          BY <4>1, <4>5
        <5> QED BY <3>1, <4>3, <5>3, <5>4, Complete DEF Sound
      <4>6. rpc' = "finish" => cwd = <<>>
        BY <4>1, <4>3
      <4> QED BY <3>1, <3>3, <3>5, <4>1, <4>2, <4>3, <4>4, <4>5, <4>6 DEF EndOK, Finishing, Waits, Over,
              flagVars, dataVars, Files
    <3> QED
      BY <3>1, <3>4, <3>5
  <2> QED BY <2>1, <2>2, <2>3, <2>4, <2>5, <2>6, <2>7, <2>8
<1>14. CASE EnterDirectory
  <2>1. ThreadTypes'
    BY <1>14 DEF ReaderPcs, ThreadTypes, EnterDirectory, ReaderGoes, ReadFails, dataVars,
         outputVars
  <2>2. CounterTypes'
    BY <1>14 DEF CounterTypes, EnterDirectory, ReaderGoes, ReadFails, dataVars, outputVars
  <2>3. FlagTypes'
    BY <1>14 DEF FlagTypes, CountersOK, EnterDirectory, ReaderGoes, ReadFails, dataVars, outputVars
  <2>4. CountersOK'
    BY <1>14 DEF CountersOK, Handed, InFile, Waits, EnterDirectory, ReaderGoes, ReadFails,
         dataVars, outputVars
  <2>5. FlagsOK'
    BY <1>14 DEF FlagsOK, Failed, EnterDirectory, ReaderGoes, ReadFails, dataVars, outputVars
  <2>6. OpenOK'
    BY <1>14 DEF OpenOK, Closed, InFile, Waits, Target, EnterDirectory, ReaderGoes, ReadFails,
         dataVars, outputVars
  <2>7. ContentOK'
    BY <1>14 DEF ContentOK, Closed, Sound, Failed, InFile, Waits, Opened, Progress, Target,
         EnterDirectory, ReaderGoes, ReadFails, dataVars, outputVars
  <2>8. EndOK'
    BY <1>14 DEF EndOK, Finishing, Waits, Over, LoopEnds, NoFileLeft, Sound, Failed, Whole,
         EnterDirectory, ReaderGoes, ReadFails, dataVars, outputVars
  <2> QED BY <2>1, <2>2, <2>3, <2>4, <2>5, <2>6, <2>7, <2>8
<1>15. CASE ReaderUnwinds
  <2>1. ThreadTypes'
    BY <1>15 DEF ReaderPcs, ThreadTypes, ReaderUnwinds, ReaderGoes, ReadFails, dataVars,
         outputVars
  <2>2. CounterTypes'
    BY <1>15 DEF CounterTypes, ReaderUnwinds, ReaderGoes, ReadFails, dataVars, outputVars
  <2>3. FlagTypes'
    BY <1>15 DEF FlagTypes, ReaderUnwinds, ReaderGoes, ReadFails, dataVars, outputVars
  <2>4. CountersOK'
    BY <1>15 DEF CountersOK, Handed, InFile, Waits, ReaderUnwinds, ReaderGoes, ReadFails,
         dataVars, outputVars
  <2>5. FlagsOK'
    BY <1>15 DEF FlagsOK, Failed, ReaderUnwinds, ReaderGoes, ReadFails, dataVars, outputVars
  <2>6. OpenOK'
    BY <1>15 DEF OpenOK, Closed, InFile, Waits, Target, ReaderUnwinds, ReaderGoes, ReadFails,
         dataVars, outputVars
  <2>7. ContentOK'
    <3>1. Failed'
      BY <1>15 DEF FlagsOK, Failed, ReaderUnwinds, ReadFails
    <3> QED
      BY <3>1 DEF ContentOK, Sound
  <2>8. EndOK'
    BY <1>15 DEF FlagsOK, EndOK, Finishing, Waits, Over, LoopEnds, NoFileLeft, Sound, Failed, Whole,
         ReaderUnwinds, ReaderGoes, ReadFails, dataVars, outputVars
  <2> QED BY <2>1, <2>2, <2>3, <2>4, <2>5, <2>6, <2>7, <2>8
<1> QED BY <1>1, <1>2, <1>3, <1>4, <1>5, <1>6, <1>7, <1>8, <1>9, <1>10, <1>11, <1>12, <1>13, <1>14,
        <1>15 DEF Reader

\* A step of the writer keeps it: only WriteChunk moves a chunk.
LEMMA WriterKeeps == IInv /\ Writer => IInv'
<1> SUFFICES ASSUME IInv, Writer PROVE IInv'
  OBVIOUS
<1> USE DEF IInv, TypeOK, walkVars
<1>1. CASE WriterLoop
  <2>1. ThreadTypes'
    BY <1>1 DEF ReaderPcs, ThreadTypes, WriterLoop, WriterGoes, readerVars, flagVars, dataVars,
         outputVars
  <2>2. CounterTypes'
    BY <1>1 DEF CounterTypes, WriterLoop, WriterGoes, readerVars, flagVars, dataVars, outputVars
  <2>3. FlagTypes'
    BY <1>1 DEF FlagTypes, WriterLoop, WriterGoes, readerVars, flagVars, dataVars, outputVars
  <2>4. CountersOK'
    BY <1>1 DEF CountersOK, Handed, InFile, Waits, WriterLoop, WriterGoes, readerVars, flagVars,
         dataVars, outputVars
  <2>5. FlagsOK'
    BY <1>1 DEF FlagsOK, Failed, WriterLoop, WriterGoes, readerVars, flagVars, dataVars, outputVars
  <2>6. OpenOK'
    BY <1>1 DEF OpenOK, Closed, InFile, Waits, Target, WriterLoop, WriterGoes, readerVars, flagVars,
         dataVars, outputVars
  <2>7. ContentOK'
    BY <1>1 DEF ContentOK, Closed, Sound, Failed, InFile, Waits, Opened, Progress, Target, WriterLoop,
         WriterGoes, readerVars, flagVars, dataVars, outputVars
  <2>8. EndOK'
    BY <1>1 DEF EndOK, Finishing, Waits, Over, LoopEnds, NoFileLeft, Sound, Failed, Whole, WriterLoop, WriterGoes,
         readerVars, flagVars, dataVars, outputVars
  <2> QED BY <2>1, <2>2, <2>3, <2>4, <2>5, <2>6, <2>7, <2>8
<1>2. CASE WriterLock
  <2>1. ThreadTypes'
    BY <1>2 DEF ReaderPcs, ThreadTypes, WriterLock, WriterGoes, readerVars, flagVars, dataVars,
         outputVars
  <2>2. CounterTypes'
    BY <1>2 DEF CounterTypes, WriterLock, WriterGoes, readerVars, flagVars, dataVars, outputVars
  <2>3. FlagTypes'
    BY <1>2 DEF FlagTypes, WriterLock, WriterGoes, readerVars, flagVars, dataVars, outputVars
  <2>4. CountersOK'
    BY <1>2 DEF CountersOK, Handed, InFile, Waits, WriterLock, WriterGoes, readerVars, flagVars,
         dataVars, outputVars
  <2>5. FlagsOK'
    BY <1>2 DEF FlagsOK, Failed, WriterLock, WriterGoes, readerVars, flagVars, dataVars, outputVars
  <2>6. OpenOK'
    BY <1>2 DEF OpenOK, Closed, InFile, Waits, Target, WriterLock, WriterGoes, readerVars, flagVars,
         dataVars, outputVars
  <2>7. ContentOK'
    BY <1>2 DEF ContentOK, Closed, Sound, Failed, InFile, Waits, Opened, Progress, Target, WriterLock,
         WriterGoes, readerVars, flagVars, dataVars, outputVars
  <2>8. EndOK'
    BY <1>2 DEF EndOK, Finishing, Waits, Over, LoopEnds, NoFileLeft, Sound, Failed, Whole, WriterLock, WriterGoes,
         readerVars, flagVars, dataVars, outputVars
  <2> QED BY <2>1, <2>2, <2>3, <2>4, <2>5, <2>6, <2>7, <2>8
<1>3. CASE WriterSleeps
  <2>1. ThreadTypes'
    BY <1>3 DEF ReaderPcs, ThreadTypes, WriterSleeps, WriterGoes, readerVars, flagVars, dataVars,
         outputVars
  <2>2. CounterTypes'
    BY <1>3 DEF CounterTypes, WriterSleeps, WriterGoes, readerVars, flagVars, dataVars, outputVars
  <2>3. FlagTypes'
    BY <1>3 DEF FlagTypes, WriterSleeps, WriterGoes, readerVars, flagVars, dataVars, outputVars
  <2>4. CountersOK'
    BY <1>3 DEF CountersOK, Handed, InFile, Waits, WriterSleeps, WriterGoes, readerVars, flagVars,
         dataVars, outputVars
  <2>5. FlagsOK'
    BY <1>3 DEF FlagsOK, Failed, WriterSleeps, WriterGoes, readerVars, flagVars, dataVars,
         outputVars
  <2>6. OpenOK'
    BY <1>3 DEF OpenOK, Closed, InFile, Waits, Target, WriterSleeps, WriterGoes, readerVars, flagVars,
         dataVars, outputVars
  <2>7. ContentOK'
    BY <1>3 DEF ContentOK, Closed, Sound, Failed, InFile, Waits, Opened, Progress, Target, WriterSleeps,
         WriterGoes, readerVars, flagVars, dataVars, outputVars
  <2>8. EndOK'
    BY <1>3 DEF EndOK, Finishing, Waits, Over, LoopEnds, NoFileLeft, Sound, Failed, Whole, WriterSleeps, WriterGoes,
         readerVars, flagVars, dataVars, outputVars
  <2> QED BY <2>1, <2>2, <2>3, <2>4, <2>5, <2>6, <2>7, <2>8
<1>4. CASE WriterTest
  <2>1. ThreadTypes'
    BY <1>4 DEF ReaderPcs, ThreadTypes, WriterTest, WriterGoes, readerVars, flagVars, dataVars
  <2>2. CounterTypes'
    BY <1>4 DEF CounterTypes, WriterTest, WriterGoes, readerVars, flagVars, dataVars
  <2>3. FlagTypes'
    BY <1>4 DEF FlagTypes, WriterTest, WriterGoes, readerVars, flagVars, dataVars
  <2>4. CountersOK'
    BY <1>4 DEF CountersOK, Handed, InFile, Waits, WriterTest, WriterGoes, readerVars, flagVars,
         dataVars
  <2>5. FlagsOK'
    BY <1>4 DEF FlagsOK, Failed, WriterTest, WriterGoes, readerVars, flagVars, dataVars
  <2>6. OpenOK'
    BY <1>4 DEF OpenOK, Closed, InFile, Waits, Target, FlagTypes, WriterTest, WriterGoes, readerVars,
         flagVars, dataVars
  <2>7. ContentOK'
    BY <1>4 DEF ContentOK, Closed, Sound, Failed, InFile, Waits, Opened, Progress, Target, WriterTest,
         WriterGoes, readerVars, flagVars, dataVars
  <2>8. EndOK'
    <3>1. /\ hostFs' = hostFs \/ (hostFs => ~hostFs') \/ ~hostFs'
          /\ UNCHANGED <<rpc, rwait, kind, usb, file, chunk, cwd, crossed, data_size, data_written, flagVars,
                         overtaken, output, dir>>
      BY <1>4 DEF WriterTest, dataVars, readerVars
    <3>2. ~hostFs => ~hostFs'
      BY <1>4 DEF WriterTest
    <3>3. \A f \in Files : Whole(f)' = Whole(f)
      BY <3>1 DEF Whole
    <3> QED
      BY <3>1, <3>2, <3>3 DEF EndOK, Finishing, Waits, Over, LoopEnds, NoFileLeft, Sound, Failed, flagVars, Files
  <2> QED BY <2>1, <2>2, <2>3, <2>4, <2>5, <2>6, <2>7, <2>8
<1>5. CASE WriteChunk
  <2>1. ThreadTypes'
    BY <1>5 DEF ReaderPcs, ThreadTypes, WriteChunk, WriterGoes, Store, FailToStore, MayStore,
         readerVars
  <2>2. CounterTypes'
    <3>1. /\ wpc = "write" /\ wpc' = "wake"
          /\ UNCHANGED <<rpc, rwait, file, chunk, cwd, crossed, kind, usb, data, read_error, transfer_cancelled,
                         fp, dir, hostFile, overtaken>>
      BY <1>5 DEF WriteChunk, WriterGoes, readerVars
    <3>2. /\ data_size \in {0, 1} /\ data_written \in Nat /\ remaining \in Nat
          /\ usb \in BOOLEAN
      BY Sums DEF CounterTypes, FlagTypes
    <3>3. Handed' = Handed
      BY <3>1 DEF Handed
    <3>4. Handed \in Nat /\ Handed <= Total /\ Total \in Nat
      BY HandedBound, Sums
    <3>5. \/ /\ data_written' = data_written + data_size /\ data_size' = 0
             /\ UNCHANGED write_error
             /\ usb => remaining' = remaining - data_size /\ data_size <= remaining /\ 0 < data_size
             /\ ~usb => remaining' = remaining
          \/ /\ UNCHANGED <<data_written, data_size>>
             /\ remaining' = 0 /\ write_error' = TRUE
      BY <1>5, <3>2 DEF WriteChunk, Store, FailToStore, MayStore
    <3>6. data_written' \in 0..Total /\ data_size' \in {0, 1}
      BY <3>2, <3>4, <3>5 DEF CountersOK
    <3>7. remaining' \in Nat
      BY <3>2, <3>5
    <3> QED
      BY <3>1, <3>6, <3>7 DEF CounterTypes
  <2>3. FlagTypes'
    BY <1>5 DEF FlagTypes, WriteChunk, WriterGoes, Store, FailToStore, MayStore, readerVars
  <2>4. CountersOK'
    <3>1. /\ wpc = "write" /\ wpc' = "wake"
          /\ UNCHANGED <<rpc, rwait, file, chunk, cwd, crossed, kind, usb, data, read_error, transfer_cancelled,
                         fp, dir, hostFile, overtaken>>
      BY <1>5 DEF WriteChunk, WriterGoes, readerVars
    <3>2. /\ data_size \in {0, 1} /\ data_written \in Nat /\ remaining \in Nat
          /\ usb \in BOOLEAN
      BY Sums DEF CounterTypes, FlagTypes
    <3>3. Handed' = Handed
      BY <3>1 DEF Handed
    <3>4. Handed \in Nat /\ Handed <= Total /\ Total \in Nat
      BY HandedBound, Sums
    <3>5. \/ /\ data_written' = data_written + data_size /\ data_size' = 0
             /\ UNCHANGED write_error
             /\ usb => remaining' = remaining - data_size /\ data_size <= remaining /\ 0 < data_size
             /\ ~usb => remaining' = remaining
          \/ /\ UNCHANGED <<data_written, data_size>>
             /\ remaining' = 0 /\ write_error' = TRUE
      BY <1>5, <3>2 DEF WriteChunk, Store, FailToStore, MayStore
    <3>6. data_written' + data_size' = data_written + data_size
      BY <3>2, <3>5
    <3> QED
      BY <3>1, <3>3, <3>6 DEF CountersOK, InFile, Waits
  <2>5. FlagsOK'
    BY <1>5 DEF FlagsOK, Failed, WriteChunk, WriterGoes, Store, FailToStore, MayStore, readerVars
  <2>6. OpenOK'
    <3>1. /\ UNCHANGED <<rpc, rwait, file, kind, crossed, usb, fp, hostFile, read_error, dir>>
      BY <1>5 DEF WriteChunk, readerVars
    <3>2. /\ write_error' = write_error \/ write_error' = TRUE
          /\ hostFs' = hostFs \/ hostFs' = FALSE
      BY <1>5 DEF WriteChunk, Store, FailToStore
    <3> QED
      BY <3>1, <3>2 DEF OpenOK, Closed, InFile, Waits, Target
  <2>7. ContentOK'
    <3>1. /\ wpc = "write" /\ wpc' = "wake"
          /\ UNCHANGED <<rpc, rwait, file, chunk, cwd, crossed, kind, usb, data, read_error, transfer_cancelled,
                         fp, dir, hostFile, overtaken>>
      BY <1>5 DEF WriteChunk, WriterGoes, readerVars
    <3>2. /\ data_size \in {0, 1} /\ data_written \in Nat /\ remaining \in Nat
          /\ usb \in BOOLEAN
      BY Sums DEF CounterTypes, FlagTypes
    <3>3. Handed' = Handed
      BY <3>1 DEF Handed
    <3>4. Handed \in Nat /\ Handed <= Total /\ Total \in Nat
      BY HandedBound, Sums
    <3>5. \/ /\ data_written' = data_written + data_size /\ data_size' = 0
             /\ UNCHANGED write_error
             /\ usb => remaining' = remaining - data_size /\ data_size <= remaining /\ 0 < data_size
             /\ ~usb => remaining' = remaining
          \/ /\ UNCHANGED <<data_written, data_size>>
             /\ remaining' = 0 /\ write_error' = TRUE
      BY <1>5, <3>2 DEF WriteChunk, Store, FailToStore, MayStore
    <3>6. SUFFICES ASSUME Sound' PROVE ContentOK'
      BY DEF ContentOK
    <3>7. /\ Store /\ Sound
          /\ data_written' = data_written + data_size /\ data_size' = 0
          /\ usb => remaining' = remaining - data_size /\ data_size <= remaining /\ 0 < data_size
      <4>1. ~write_error'
        BY <3>6 DEF Sound, Failed
      <4>2. Store
        BY <1>5, <4>1 DEF WriteChunk, FailToStore
      <4>3. UNCHANGED write_error
        BY <4>2 DEF Store
      <4>4. Sound
        BY <3>1, <3>6, <4>3 DEF Sound, Failed
      <4> QED BY <3>5, <4>1, <4>2, <4>4
    <3>8. Opened' = Opened /\ Progress' = Progress /\ Target' = Target /\ Closed' = Closed
      BY <3>1 DEF Opened, Progress, InFile, Waits, Target, Closed
    <3>9. CASE data_size = 0
      <4>1. output' = output /\ ~usb
        BY <3>7, <3>9 DEF Store
      <4> QED BY <3>1, <3>7, <3>8, <3>9, <4>1 DEF ContentOK
    <3>10. CASE data_size = 1
      <4>1. /\ Opened > 0 /\ data = <<Opened, Progress>> /\ DOMAIN output = 1..Opened
            /\ rpc \notin {"start", "open", "finish", "abort", "end", "done"} /\ Target = Opened
        BY <3>7, <3>10 DEF ContentOK
      <4>2. Opened \in 1..NumFiles /\ Progress \in Nat /\ FileSizes[Opened] \in Nat
        <5>1. file \in 1..(NumFiles + 1) /\ chunk \in Nat /\ NumFiles \in Nat
          BY Sums DEF CounterTypes
        <5>2. InFile => file <= NumFiles
          BY DEF CountersOK
        <5> QED BY <4>1, <5>1, <5>2, Sums DEF Opened, Progress
      <4>3. output' = [output EXCEPT ![Opened] = Append(@, data)]
        BY <3>7, <3>10, <4>1, <4>2 DEF Store
      <4>4. output[Opened] = Chunks(Opened, Progress - 1)
        BY <3>7, <3>10, <4>1, <4>2 DEF ContentOK
      <4>5. Progress \in Nat \ {0}
        BY <3>7, <3>10, <4>2 DEF ContentOK
      <4>6. Append(Chunks(Opened, Progress - 1), <<Opened, Progress>>) = Chunks(Opened, Progress)
        BY <4>2, <4>5, ChunksAppend
      <4>7. output'[Opened] = Chunks(Opened, Progress)
        BY <4>1, <4>2, <4>3, <4>4, <4>6
      <4>8. \A f \in 1..Opened : f # Opened => output'[f] = output[f]
        BY <4>1, <4>3
      <4>9. DOMAIN output' = 1..Opened'
        BY <3>8, <4>1, <4>3
      <4>10. ASSUME NEW f \in 1..Opened
             PROVE  output'[f] = Chunks(f, IF f = Opened THEN Progress - 0 ELSE FileSizes[f])
        <5>1. f # Opened => output[f] = Chunks(f, FileSizes[f])
          BY <3>7 DEF ContentOK
        <5> QED BY <4>2, <4>7, <4>8, <5>1
      <4>11. usb => remaining' = FileSizes[Opened] - Progress + 0
        BY <3>7, <3>10, <4>1, <4>2 DEF ContentOK
      <4> QED BY <3>1, <3>7, <3>8, <4>1, <4>9, <4>10, <4>11 DEF ContentOK
    <3> QED
      BY <3>2, <3>9, <3>10
  <2>8. EndOK'
    <3>1. /\ wpc = "write" /\ wpc' = "wake"
          /\ UNCHANGED <<rpc, rwait, file, chunk, cwd, crossed, kind, usb, data, read_error, transfer_cancelled,
                         fp, dir, hostFile, overtaken>>
      BY <1>5 DEF WriteChunk, WriterGoes, readerVars
    <3>2. /\ data_size \in {0, 1} /\ data_written \in Nat /\ remaining \in Nat
          /\ usb \in BOOLEAN
      BY Sums DEF CounterTypes, FlagTypes
    <3>3. Handed' = Handed
      BY <3>1 DEF Handed
    <3>4. Handed \in Nat /\ Handed <= Total /\ Total \in Nat
      BY HandedBound, Sums
    <3>5. \/ /\ data_written' = data_written + data_size /\ data_size' = 0
             /\ UNCHANGED write_error
             /\ usb => remaining' = remaining - data_size /\ data_size <= remaining /\ 0 < data_size
             /\ ~usb => remaining' = remaining
          \/ /\ UNCHANGED <<data_written, data_size>>
             /\ remaining' = 0 /\ write_error' = TRUE
      BY <1>5, <3>2 DEF WriteChunk, Store, FailToStore, MayStore
    <3>6. \/ write_error'
          \/ UNCHANGED <<write_error, hostFs>> /\ (data_size = 0 => output' = output)
      BY <1>5 DEF WriteChunk, Store, FailToStore
    <3>7. data_size = 0 => data_size' = 0
      BY <3>5
    <3>8. data_written <= data_written'
      BY <3>2, <3>5
    <3>9. \A f \in Files : output' = output => Whole(f)' = Whole(f)
      BY DEF Whole
    <3>10. LoopEnds => LoopEnds'
      <4>1. NoFileLeft => NoFileLeft'
        BY <3>1, <3>2, <3>4, <3>5, <3>8 DEF NoFileLeft
      <4> QED BY <3>1, <4>1 DEF LoopEnds
    <3>11. /\ Finishing' = Finishing /\ Over' = Over
           /\ (Sound' => Sound) /\ (~Failed' => ~Failed)
      <4>1. write_error => write_error'
        BY <3>6
      <4> QED BY <3>1, <4>1 DEF Finishing, Waits, Over, Sound, Failed
    <3>12. CASE write_error'
      BY <3>1, <3>10, <3>11, <3>12 DEF EndOK, Sound, Failed
    <3>13. CASE UNCHANGED <<write_error, hostFs>> /\ (data_size = 0 => output' = output)
      BY <3>1, <3>7, <3>9, <3>10, <3>11, <3>13 DEF EndOK
    <3> QED
      BY <3>6, <3>12, <3>13
  <2> QED BY <2>1, <2>2, <2>3, <2>4, <2>5, <2>6, <2>7, <2>8
<1>6. CASE WriterWakes
  <2>1. ThreadTypes'
    BY <1>6 DEF ReaderPcs, ThreadTypes, WriterWakes, WriterGoes, WakeReader, flagVars, dataVars,
         outputVars
  <2>2. CounterTypes'
    BY <1>6 DEF CounterTypes, WriterWakes, WriterGoes, WakeReader, flagVars, dataVars, outputVars
  <2>3. FlagTypes'
    BY <1>6 DEF FlagTypes, WriterWakes, WriterGoes, WakeReader, flagVars, dataVars, outputVars
  <2>4. CountersOK'
    BY <1>6 DEF CountersOK, Handed, InFile, Waits, WriterWakes, WriterGoes, WakeReader, flagVars,
         dataVars, outputVars
  <2>5. FlagsOK'
    BY <1>6 DEF FlagsOK, Failed, WriterWakes, WriterGoes, WakeReader, flagVars, dataVars, outputVars
  <2>6. OpenOK'
    BY <1>6 DEF OpenOK, Closed, InFile, Waits, Target, WriterWakes, WriterGoes, WakeReader, flagVars,
         dataVars, outputVars
  <2>7. ContentOK'
    BY <1>6 DEF ContentOK, Closed, Sound, Failed, InFile, Waits, Opened, Progress, Target, WriterWakes,
         WriterGoes, WakeReader, flagVars, dataVars, outputVars
  <2>8. EndOK'
    BY <1>6 DEF EndOK, Finishing, Waits, Over, LoopEnds, NoFileLeft, Sound, Failed, Whole, WriterWakes, WriterGoes,
         WakeReader, flagVars, dataVars, outputVars
  <2> QED BY <2>1, <2>2, <2>3, <2>4, <2>5, <2>6, <2>7, <2>8
<1> QED BY <1>1, <1>2, <1>3, <1>4, <1>5, <1>6 DEF Writer

\* A step of the main thread keeps it.
LEMMA MainKeeps == IInv /\ Main => IInv'
<1> SUFFICES ASSUME IInv, Main PROVE IInv'
  OBVIOUS
<1> USE DEF IInv, TypeOK, walkVars
<1>1. CASE MainDecidesToCancel
  <2>1. ThreadTypes'
    BY <1>1 DEF ReaderPcs, ThreadTypes, MainDecidesToCancel, readerVars, flagVars, dataVars,
         outputVars
  <2>2. CounterTypes'
    BY <1>1 DEF CounterTypes, MainDecidesToCancel, readerVars, flagVars, dataVars, outputVars
  <2>3. FlagTypes'
    BY <1>1 DEF FlagTypes, MainDecidesToCancel, readerVars, flagVars, dataVars, outputVars
  <2>4. CountersOK'
    BY <1>1 DEF CountersOK, Handed, InFile, Waits, MainDecidesToCancel, readerVars, flagVars,
         dataVars, outputVars
  <2>5. FlagsOK'
    BY <1>1 DEF FlagsOK, Failed, MainDecidesToCancel, readerVars, flagVars, dataVars, outputVars
  <2>6. OpenOK'
    BY <1>1 DEF OpenOK, Closed, InFile, Waits, Target, MainDecidesToCancel, readerVars, flagVars, dataVars,
         outputVars
  <2>7. ContentOK'
    BY <1>1 DEF ContentOK, Closed, Sound, Failed, InFile, Waits, Opened, Progress, Target,
         MainDecidesToCancel, readerVars, flagVars, dataVars, outputVars
  <2>8. EndOK'
    BY <1>1 DEF EndOK, Finishing, Waits, Over, LoopEnds, NoFileLeft, Sound, Failed, Whole, MainDecidesToCancel,
         readerVars, flagVars, dataVars, outputVars
  <2> QED BY <2>1, <2>2, <2>3, <2>4, <2>5, <2>6, <2>7, <2>8
<1>2. CASE MainCancels
  <2>1. ThreadTypes'
    BY <1>2 DEF ReaderPcs, ThreadTypes, MainCancels, MutexFree, readerVars, dataVars, outputVars
  <2>2. CounterTypes'
    BY <1>2 DEF CounterTypes, MainCancels, MutexFree, readerVars, dataVars, outputVars
  <2>3. FlagTypes'
    BY <1>2 DEF FlagTypes, MainCancels, MutexFree, readerVars, dataVars, outputVars
  <2>4. CountersOK'
    BY <1>2 DEF CountersOK, Handed, InFile, Waits, MainCancels, MutexFree, readerVars, dataVars,
         outputVars
  <2>5. FlagsOK'
    BY <1>2 DEF FlagsOK, Failed, MainCancels, MutexFree, readerVars, dataVars, outputVars
  <2>6. OpenOK'
    BY <1>2 DEF OpenOK, Closed, InFile, Waits, Target, MainCancels, MutexFree, readerVars, dataVars,
         outputVars
  <2>7. ContentOK'
    BY <1>2 DEF ContentOK, Closed, Sound, Failed, InFile, Waits, Opened, Progress, Target, MainCancels,
         MutexFree, readerVars, dataVars, outputVars
  <2>8. EndOK'
    BY <1>2 DEF EndOK, Finishing, Waits, Over, LoopEnds, NoFileLeft, Sound, Failed, Whole, MainCancels, MutexFree,
         readerVars, dataVars, outputVars
  <2> QED BY <2>1, <2>2, <2>3, <2>4, <2>5, <2>6, <2>7, <2>8
<1>3. CASE MainLeaves
  <2>1. ThreadTypes'
    BY <1>3 DEF ReaderPcs, ThreadTypes, MainLeaves, readerVars, flagVars, dataVars, outputVars
  <2>2. CounterTypes'
    BY <1>3 DEF CounterTypes, MainLeaves, readerVars, flagVars, dataVars, outputVars
  <2>3. FlagTypes'
    BY <1>3 DEF FlagTypes, MainLeaves, readerVars, flagVars, dataVars, outputVars
  <2>4. CountersOK'
    BY <1>3 DEF CountersOK, Handed, InFile, Waits, MainLeaves, readerVars, flagVars, dataVars,
         outputVars
  <2>5. FlagsOK'
    BY <1>3 DEF FlagsOK, Failed, MainLeaves, readerVars, flagVars, dataVars, outputVars
  <2>6. OpenOK'
    BY <1>3 DEF OpenOK, Closed, InFile, Waits, Target, MainLeaves, readerVars, flagVars, dataVars,
         outputVars
  <2>7. ContentOK'
    BY <1>3 DEF ContentOK, Closed, Sound, Failed, InFile, Waits, Opened, Progress, Target, MainLeaves,
         readerVars, flagVars, dataVars, outputVars
  <2>8. EndOK'
    BY <1>3 DEF EndOK, Finishing, Waits, Over, LoopEnds, NoFileLeft, Sound, Failed, Whole, MainLeaves, readerVars,
         flagVars, dataVars, outputVars
  <2> QED BY <2>1, <2>2, <2>3, <2>4, <2>5, <2>6, <2>7, <2>8
<1>4. CASE MainJoins
  <2>1. ThreadTypes'
    BY <1>4 DEF ReaderPcs, ThreadTypes, MainJoins, readerVars, flagVars, dataVars, outputVars
  <2>2. CounterTypes'
    BY <1>4 DEF CounterTypes, MainJoins, readerVars, flagVars, dataVars, outputVars
  <2>3. FlagTypes'
    BY <1>4 DEF FlagTypes, MainJoins, readerVars, flagVars, dataVars, outputVars
  <2>4. CountersOK'
    BY <1>4 DEF CountersOK, Handed, InFile, Waits, MainJoins, readerVars, flagVars, dataVars,
         outputVars
  <2>5. FlagsOK'
    <3>1. /\ rpc = "done" /\ wpc = "done" /\ mpc' = "done"
          /\ UNCHANGED <<rpc, wpc, flagVars>>
      BY <1>4 DEF MainJoins, readerVars
    <3>2. /\ result' \in {"error", "cancelled", "success"}
          /\ result' = "success" => ~Failed
          /\ result' = "cancelled" => ~read_error /\ ~write_error
      <4>1. CASE read_error \/ write_error
        <5>1. result' = "error"
          BY <1>4, <4>1 DEF MainJoins
        <5> QED BY <5>1
      <4>2. CASE ~(read_error \/ write_error) /\ transfer_cancelled
        BY <1>4, <4>2 DEF MainJoins
      <4>3. CASE ~(read_error \/ write_error) /\ ~transfer_cancelled
        BY <1>4, <4>3 DEF MainJoins, Failed
      <4> QED BY <4>1, <4>2, <4>3
    <3> QED
      BY <3>1, <3>2 DEF FlagsOK, Failed, flagVars
  <2>6. OpenOK'
    BY <1>4 DEF OpenOK, Closed, InFile, Waits, Target, MainJoins, readerVars, flagVars, dataVars, outputVars
  <2>7. ContentOK'
    BY <1>4 DEF ContentOK, Closed, Sound, Failed, InFile, Waits, Opened, Progress, Target, MainJoins,
         readerVars, flagVars, dataVars, outputVars
  <2>8. EndOK'
    BY <1>4 DEF EndOK, Finishing, Waits, Over, LoopEnds, NoFileLeft, Sound, Failed, Whole, MainJoins, readerVars,
         flagVars, dataVars, outputVars
  <2> QED BY <2>1, <2>2, <2>3, <2>4, <2>5, <2>6, <2>7, <2>8
<1> QED BY <1>1, <1>2, <1>3, <1>4 DEF Main

\* A step that changes nothing keeps it.
LEMMA StutteringKeeps == IInv /\ UNCHANGED vars => IInv'
<1> SUFFICES ASSUME IInv, UNCHANGED vars PROVE IInv'
  OBVIOUS
<1> USE DEF IInv, vars, readerVars, walkVars, flagVars, dataVars, outputVars
<1>1. TypeOK'
  BY DEF TypeOK, ThreadTypes, CounterTypes, FlagTypes
<1>2. CountersOK' /\ FlagsOK' /\ OpenOK'
  BY DEF CountersOK, FlagsOK, OpenOK, Closed, Handed, InFile, Waits, Failed, Target
<1>3. ContentOK'
  BY DEF ContentOK, Closed, Sound, Failed, Opened, Progress, InFile, Waits, Target
<1>4. EndOK'
  BY DEF EndOK, Finishing, Waits, Over, LoopEnds, NoFileLeft, Sound, Failed, Whole
<1> QED BY <1>1, <1>2, <1>3, <1>4

-----------------------------------------------------------------------------
\* The theorems

\* The inductive invariant holds in every dump.
THEOREM InvariantHolds == Spec => []IInv
<1>1. IInv /\ [Next]_vars => IInv'
  BY ReaderKeeps, WriterKeeps, MainKeeps, StutteringKeeps DEF Next
<1> QED BY InitInv, <1>1, PTL DEF Spec

\* Every counter keeps its range: the reader's table index, and what genericWriteThreadFunc counts as
\* written, which is never more than the files' sizes add up to.
THEOREM TypeCorrect == Spec => []TypeOK
<1>1. IInv => TypeOK
  BY DEF IInv
<1> QED BY <1>1, InvariantHolds, PTL

\* Whenever the writer writes a chunk, the file open in nxdt_rw_poc.c's readers, or announced to the
\* host, is the chunk's own, unless a wake-up was late or the reader has failed.
THEOREM ChunksMeetTheirFiles == Spec => []ChunkMeetsItsFile
<1>1. IInv => ChunkMeetsItsFile
  <2> SUFFICES ASSUME IInv, wpc = "write", data_size > 0, ~overtaken, ~read_error
               PROVE  Target = data[1]
    BY DEF ChunkMeetsItsFile
  <2>1. Sound
    BY DEF IInv, FlagsOK, Sound, Failed
  <2>2. data = <<Opened, Progress>> /\ Target = Opened
    BY <2>1 DEF IInv, ContentOK
  <2> QED BY <2>2
<1> QED BY <1>1, InvariantHolds, PTL

\* What spanDumpThreads reports as a success is every file of the table, whole and in order, and the end
\* of the dump was told to the host.
THEOREM SuccessfulDumpIsWhole == Spec => []SuccessIsWhole
<1>1. IInv => SuccessIsWhole
  <2> SUFFICES ASSUME IInv, result = "success", ~overtaken
               PROVE  /\ \A f \in Files : Whole(f) \/ (kind = "romfs" /\ FileSizes[f] = 0)
                      /\ ~hostFs
    BY DEF SuccessIsWhole
  <2>1. rpc = "done" /\ Sound
    BY DEF IInv, FlagsOK, Sound
  <2>2. ~hostFs /\ cwd = <<>>
    BY <2>1 DEF IInv, EndOK, Sound
  <2> QED BY <2>1, <2>2, Complete
<1> QED BY <1>1, InvariantHolds, PTL

\* A cancelled local dump leaves either no directory, or one in which nothing is missing.
THEOREM CancelledDumpIsRemoved == Spec => []CancelledIsRemoved
<1>1. IInv => CancelledIsRemoved
  <2> SUFFICES ASSUME IInv, result = "cancelled", ~usb, ~overtaken, dir = "there", ~(kind = "browser" /\ crossed)
               PROVE  \A f \in Files : FileSizes[f] = 0 \/ Whole(f)
    BY DEF CancelledIsRemoved
  <2>1. rpc = "done" /\ ~read_error /\ ~write_error
    BY DEF IInv, FlagsOK
  <2>2. ~crossed
    BY DEF IInv, TypeOK, FlagTypes
  <2> QED BY <2>1, <2>2 DEF IInv, EndOK, Over
<1> QED BY <1>1, InvariantHolds, PTL
=============================================================================
