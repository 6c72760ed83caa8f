--------------------------- MODULE ExtractedDump ---------------------------
(***************************************************************************)
(* A dump of many files as NXDump's code_templates/nxdt_rw_poc.c runs it:   *)
(* an extracted game card partition, Partition FS or RomFS section, or the  *)
(* entries highlighted in the file browser, whose reader calls itself for   *)
(* every directory among them.  The reader thread opens and closes the      *)
(* output files the writer thread writes to; the threads wait for each      *)
(* other as in DumpPipeline, whose conventions are kept: a critical section *)
(* of g_fileMutex is one step except for the writer's, a condvarWait is the *)
(* counter "asleep", and a wake-up that finds nobody asleep is lost.        *)
(* Sizes are in chunks; the two buffers are left out, and so are the        *)
(* directories that have no file below them.                                *)
(***************************************************************************)
EXTENDS Integers, Sequences

CONSTANTS FileSizes,   \* the chunks of each file, in the order of the file table
          Directory,   \* the directory the file browser finds each file in, as a path of names
          Faults       \* what the environment may do: a subset of FaultKinds

FaultKinds == {"setup", "read", "write", "cancel"}

ASSUME ExtractedAssumption == FileSizes \in Seq(Nat) /\ Faults \subseteq FaultKinds
ASSUME DirectoryAssumption == Directory \in [1..Len(FileSizes) -> Seq(STRING)]

VARIABLES
  kind, usb,            \* which reader runs, and whether the USB host is the output
  rpc, rwait,           \* the reader, and what it waits for while asleep
  wpc, mpc,             \* the writer and the main thread
  file, chunk,          \* the reader's loop counters: the file it is at, its chunks handed over
  cwd,                  \* the directory of the reader's innermost loop: the stack of its calls
  data, data_size,      \* SharedThreadData: the chunk handed over, as <<file, chunk>>
  data_written,
  read_error, write_error, transfer_cancelled,
  fp,                   \* SharedThreadData: the file open for writing, 0 for NULL
  output,               \* the chunks each file created, or announced to the host, holds
  dir,                  \* the output directory: "none", "there" or "removed"
  remaining, hostFile,  \* g_usbTransferRemainingSize, and the file the host is receiving
  hostFs,               \* the host is in an extracted file system dump
  overtaken,            \* history: the reader went on while the chunk it waited for was pending
  crossed,              \* history: a directory was entered or left since the last file was opened
  result

walkVars == <<cwd, crossed>>
readerVars == <<rpc, rwait, file, chunk, walkVars>>
flagVars == <<read_error, write_error, transfer_cancelled>>
dataVars == <<data, data_size>>
outputVars == <<output, dir, remaining, hostFile, hostFs>>
vars == <<kind, usb, readerVars, wpc, mpc, dataVars, data_written, flagVars, fp, outputVars,
          overtaken, result>>

NumFiles == Len(FileSizes)
Files == 1..NumFiles
ChunksUpTo[f \in 0..NumFiles] == IF f = 0 THEN 0 ELSE ChunksUpTo[f - 1] + FileSizes[f]
Total == ChunksUpTo[NumFiles]

Failed == read_error \/ write_error \/ transfer_cancelled

\* "table" is the loop over a counted list of entries; "romfs" the one that also ends once everything
\* has been written; "browser" the one that calls itself for a directory.
Kinds == {"table", "romfs", "browser"}

Init == /\ kind \in Kinds /\ usb \in BOOLEAN
        /\ rpc = "start" /\ rwait = "chunk" /\ wpc = "loop" /\ mpc = "loop"
        /\ file = 1 /\ chunk = 0 /\ cwd = <<>> /\ crossed = FALSE
        /\ data = <<0, 0>> /\ data_size = 0 /\ data_written = 0
        /\ read_error = FALSE /\ write_error = FALSE /\ transfer_cancelled = FALSE
        /\ fp = 0 /\ output = <<>> /\ dir = "none"
        /\ remaining = 0 /\ hostFile = 0 /\ hostFs = FALSE
        /\ overtaken = FALSE /\ result = "running"

MutexFree == wpc \notin {"sleep", "held", "write"}
WakeWriter == wpc' = IF wpc = "asleep" THEN "woken" ELSE wpc

\* A mutant: the writer wakes the reader only while more is to come.
WakeReaderForMore == rpc' = IF rpc = "asleep" /\ data_written < Total THEN "woken" ELSE rpc
WakeReader == rpc' = IF rpc = "asleep" THEN "woken" ELSE rpc

-----------------------------------------------------------------------------
\* The reader thread

ReaderGoes(pc) == rpc' = pc

\* Sets read_error and leaves; only a failed allocation wakes nobody.
ReadFails(pc) == /\ read_error' = TRUE
                 /\ ReaderGoes(pc)

ReaderStart ==
  /\ rpc = "start"
  /\ \/ /\ Total = 0 \/ "setup" \in Faults
        /\ ReadFails("end")
        /\ UNCHANGED hostFs
     \/ /\ Total > 0 /\ "setup" \in Faults
        /\ ReadFails("abort")
        /\ UNCHANGED hostFs
     \/ /\ Total > 0
        /\ ReaderGoes("entry")
        /\ hostFs' = usb
        /\ UNCHANGED read_error
  /\ UNCHANGED <<kind, usb, rwait, file, chunk, walkVars, wpc, mpc, dataVars, data_written, write_error,
                 transfer_cancelled, fp, output, dir, remaining, hostFile, overtaken, result>>

\* A mutant, in which every reader stops like the one of a RomFS; then the head of the loop over the
\* files, where data_written is read without the mutex.
AllWrittenIsTheEnd == file > NumFiles \/ data_written >= Total
NoFileLeft == file > NumFiles \/ (kind = "romfs" /\ data_written >= Total)

\* Whether the next file is in the directory of this loop, and whether this loop, of a directory the
\* browser has entered or of the whole dump, has come to its end.
FileIsHere == kind # "browser" \/ cwd = Directory[file]
LoopEnds ==
  IF cwd = <<>> THEN NoFileLeft
  ELSE ~ (/\ file <= NumFiles
          /\ Len(cwd) <= Len(Directory[file])
          /\ cwd = SubSeq(Directory[file], 1, Len(cwd)))

\* Only a reader with a USB host opens its input before it waits; it does not wait at a directory.
NextEntry ==
  /\ rpc = "entry"
  /\ \/ /\ LoopEnds
        /\ ReaderGoes("last")
        /\ UNCHANGED read_error
     \/ /\ ~LoopEnds /\ transfer_cancelled
        /\ ReaderGoes("abort")
        /\ UNCHANGED read_error
     \/ /\ ~LoopEnds /\ ~transfer_cancelled /\ usb /\ "read" \in Faults
        /\ ReadFails("abort")
     \/ /\ ~LoopEnds /\ ~transfer_cancelled
        /\ ReaderGoes(IF usb /\ ~FileIsHere THEN "enter" ELSE "lockFile")
        /\ UNCHANGED read_error
  /\ chunk' = 0
  /\ UNCHANGED <<kind, usb, rwait, file, walkVars, wpc, mpc, dataVars, data_written, write_error,
                 transfer_cancelled, fp, outputVars, overtaken, result>>

\* A mutant: no wait for a chunk of another file, so that its file is closed, or the next one announced,
\* before it is written; and the condition of two of the three waits, each in an `if'.
PendingInFile == data_size > 0 /\ ~write_error /\ data[1] = file
Pending == data_size > 0 /\ ~write_error

\* The previous file is closed before anything is known of the next entry.
CloseFile ==
  IF write_error THEN ReaderGoes("end") /\ UNCHANGED fp
                 ELSE ReaderGoes(IF FileIsHere THEN "open" ELSE "enter") /\ fp' = 0

LockForFile ==
  /\ rpc = "lockFile" /\ MutexFree
  /\ \/ /\ Pending
        /\ ReaderGoes("asleep") /\ rwait' = "file"
        /\ UNCHANGED fp
     \/ /\ ~Pending
        /\ CloseFile
        /\ UNCHANGED rwait
  /\ UNCHANGED <<kind, usb, file, chunk, walkVars, wpc, mpc, dataVars, data_written, flagVars,
                 outputVars, overtaken, result>>

\* The browser's reader calls itself for a directory, which it has to list first.
EnterDirectory ==
  /\ rpc = "enter"
  /\ \/ /\ "read" \in Faults
        /\ ReadFails("abort")
        /\ UNCHANGED walkVars
     \/ /\ cwd' = SubSeq(Directory[file], 1, Len(cwd) + 1) /\ crossed' = TRUE
        /\ ReaderGoes("entry")
        /\ UNCHANGED read_error
  /\ UNCHANGED <<kind, usb, rwait, file, chunk, wpc, mpc, dataVars, data_written, write_error,
                 transfer_cancelled, fp, outputVars, overtaken, result>>

\* usbSendFileProperties is refused while the host expects data of another file.
PropertiesAccepted == remaining = 0
Created == [f \in DOMAIN output \cup {file} |-> IF f = file THEN <<>> ELSE output[f]]

OpenFile ==
  /\ rpc = "open"
  /\ \/ /\ "read" \in Faults \/ (usb /\ ~PropertiesAccepted)
        /\ ReadFails("abort")
        /\ UNCHANGED <<fp, dir, output, remaining, hostFile, crossed>>
     \/ /\ usb /\ PropertiesAccepted
        /\ remaining' = FileSizes[file] /\ hostFile' = file
        /\ output' = Created /\ crossed' = FALSE
        /\ ReaderGoes("chunk")
        /\ UNCHANGED <<read_error, fp, dir>>
     \/ /\ ~usb
        /\ fp' = file /\ dir' = "there"
        /\ output' = Created /\ crossed' = FALSE
        /\ ReaderGoes("chunk")
        /\ UNCHANGED <<read_error, remaining, hostFile>>
  /\ UNCHANGED <<kind, usb, rwait, file, chunk, cwd, wpc, mpc, dataVars, data_written, write_error,
                 transfer_cancelled, hostFs, overtaken, result>>

\* The loop over the chunks: the cancellation is read without the mutex, then the chunk.
ReadChunk ==
  /\ rpc = "chunk"
  /\ \/ /\ chunk = FileSizes[file]
        /\ ReaderGoes(IF Failed THEN "end" ELSE "entry")
        /\ file' = IF Failed THEN file ELSE file + 1
        /\ UNCHANGED read_error
     \/ /\ chunk < FileSizes[file] /\ transfer_cancelled
        /\ ReaderGoes("abort")
        /\ UNCHANGED <<file, read_error>>
     \/ /\ chunk < FileSizes[file] /\ ~transfer_cancelled /\ "read" \in Faults
        /\ ReadFails("abort")
        /\ UNCHANGED file
     \/ /\ chunk < FileSizes[file] /\ ~transfer_cancelled
        /\ ReaderGoes("lockChunk")
        /\ UNCHANGED <<file, read_error>>
  /\ UNCHANGED <<kind, usb, rwait, chunk, walkVars, wpc, mpc, dataVars, data_written, write_error,
                 transfer_cancelled, fp, outputVars, overtaken, result>>

Deposit ==
  IF write_error THEN ReaderGoes("end") /\ UNCHANGED <<chunk, dataVars>>
                 ELSE /\ data' = <<file, chunk + 1>> /\ data_size' = 1
                      /\ chunk' = chunk + 1
                      /\ ReaderGoes("wake")

LockForChunk ==
  /\ rpc = "lockChunk" /\ MutexFree
  /\ \/ /\ Pending
        /\ ReaderGoes("asleep") /\ rwait' = "chunk"
        /\ UNCHANGED <<chunk, dataVars>>
     \/ /\ ~Pending
        /\ Deposit
        /\ UNCHANGED rwait
  /\ UNCHANGED <<kind, usb, file, walkVars, wpc, mpc, data_written, flagVars, fp, outputVars,
                 overtaken, result>>

ReaderWakes ==
  /\ rpc = "wake"
  /\ ReaderGoes("chunk")
  /\ WakeWriter
  /\ UNCHANGED <<kind, usb, rwait, file, chunk, walkVars, mpc, dataVars, data_written, flagVars, fp, outputVars,
                 overtaken, result>>

\* After the last entry of a loop, unless something failed: waits for the last chunk.
CheckLast ==
  /\ rpc = "last"
  /\ ReaderGoes(IF Failed THEN "end" ELSE "lockLast")
  /\ UNCHANGED <<kind, usb, rwait, file, chunk, walkVars, wpc, mpc, dataVars, data_written, flagVars, fp,
                 outputVars, overtaken, result>>

\* The file browser's loops tidy up before they look whether the dump is over.
AfterLast == IF kind = "browser" THEN "end" ELSE "finish"

LockForLast ==
  /\ rpc = "lockLast" /\ MutexFree
  /\ ReaderGoes(IF data_size > 0 THEN "asleep" ELSE AfterLast) /\ rwait' = "last"
  /\ UNCHANGED <<kind, usb, file, chunk, walkVars, wpc, mpc, dataVars, data_written, flagVars, fp, outputVars,
                 overtaken, result>>

\* Back from condvarWait: what was waited for is not looked at again.
ReaderResumes ==
  /\ rpc = "woken" /\ MutexFree
  /\ overtaken' = (overtaken \/ Pending)
  /\ CASE rwait = "file"  -> CloseFile /\ UNCHANGED <<chunk, dataVars>>
       [] rwait = "chunk" -> Deposit /\ UNCHANGED fp
       [] OTHER           -> ReaderGoes(AfterLast) /\ UNCHANGED <<chunk, dataVars, fp>>
  /\ UNCHANGED <<kind, usb, rwait, file, walkVars, wpc, mpc, data_written, flagVars, outputVars,
                 result>>

\* usbEndExtractedFsDump, refused while data is expected.
FinishFs ==
  /\ rpc = "finish"
  /\ ReaderGoes(IF kind = "browser" THEN "done" ELSE "end")
  /\ hostFs' = IF usb /\ remaining = 0 THEN FALSE ELSE hostFs
  /\ UNCHANGED <<kind, usb, rwait, file, chunk, walkVars, wpc, mpc, dataVars, data_written, flagVars, fp,
                 output, dir, remaining, hostFile, overtaken, result>>

ReaderAborts ==
  /\ rpc = "abort"
  /\ ReaderGoes("end")
  /\ WakeWriter
  /\ UNCHANGED <<kind, usb, rwait, file, chunk, walkVars, mpc, dataVars, data_written, flagVars, fp,
                 outputVars, overtaken, result>>

\* A mutant, and whether the directory is removed: only if a file is open, and something failed.
RemoveOnErrorOnly == fp # 0 /\ (read_error \/ write_error)
MustRemove == fp # 0 /\ Failed

\* A call for a directory returns whether nothing went wrong with reading; the loop it was made from
\* goes on, or unwinds in its turn.  The one for the whole dump tells the host, if nothing failed.
ReturnFromDirectory ==
  /\ cwd # <<>> /\ ~read_error
  /\ cwd' = SubSeq(cwd, 1, Len(cwd) - 1) /\ crossed' = TRUE
  /\ ReaderGoes(IF Failed THEN "unwind" ELSE "entry")

LeaveReader ==
  /\ cwd = <<>> \/ read_error
  /\ ReaderGoes(IF kind = "browser" /\ ~Failed THEN "finish" ELSE "done")
  /\ UNCHANGED walkVars

ReaderEnds ==
  /\ rpc = "end"
  /\ ReturnFromDirectory \/ LeaveReader
  /\ fp' = 0
  /\ dir' = IF MustRemove THEN "removed" ELSE dir
  /\ UNCHANGED <<kind, usb, rwait, file, chunk, wpc, mpc, dataVars, data_written, flagVars, output,
                 remaining, hostFile, hostFs, overtaken, result>>

\* The loop a failed call returns to may have entries left.  It stops at the next one for a
\* cancellation, which it tells the writer, or for a write error; with a host, an input may fail first.
ReaderUnwinds ==
  /\ rpc = "unwind"
  /\ \/ /\ transfer_cancelled
        /\ ReaderGoes("abort")
        /\ UNCHANGED read_error
     \/ /\ usb /\ ~transfer_cancelled /\ "read" \in Faults
        /\ ReadFails("abort")
     \/ /\ ReaderGoes("end")
        /\ UNCHANGED read_error
  /\ UNCHANGED <<kind, usb, rwait, file, chunk, walkVars, wpc, mpc, dataVars, data_written, write_error,
                 transfer_cancelled, fp, outputVars, overtaken, result>>

Reader == \/ ReaderStart \/ NextEntry \/ LockForFile \/ EnterDirectory \/ OpenFile \/ ReadChunk
          \/ LockForChunk \/ ReaderWakes \/ CheckLast \/ LockForLast \/ ReaderResumes \/ FinishFs
          \/ ReaderAborts \/ ReaderEnds \/ ReaderUnwinds

-----------------------------------------------------------------------------
\* The writer thread: genericWriteThreadFunc

WriterGoes(pc) == wpc' = pc

WriterLoop ==
  /\ wpc = "loop"
  /\ WriterGoes(IF data_written >= Total THEN "done" ELSE "lock")
  /\ UNCHANGED <<kind, usb, readerVars, mpc, dataVars, data_written, flagVars, fp, outputVars,
                 overtaken, result>>

WriterLock ==
  /\ wpc = "lock"
  /\ WriterGoes(IF data_size = 0 /\ ~read_error THEN "sleep" ELSE "held")
  /\ UNCHANGED <<kind, usb, readerVars, mpc, dataVars, data_written, flagVars, fp, outputVars,
                 overtaken, result>>

\* condvarWait and the return from it
WriterSleeps ==
  /\ wpc \in {"sleep", "woken"}
  /\ WriterGoes(IF wpc = "sleep" THEN "asleep" ELSE "held")
  /\ UNCHANGED <<kind, usb, readerVars, mpc, dataVars, data_written, flagVars, fp, outputVars,
                 overtaken, result>>

\* A cancellation is told to the host if a transfer is under way; it ends the whole dump there.
WriterTest ==
  /\ wpc = "held"
  /\ \/ /\ read_error \/ transfer_cancelled \/ (~usb /\ fp = 0)
        /\ WriterGoes("done")
        /\ remaining' = IF usb /\ transfer_cancelled THEN 0 ELSE remaining
        /\ hostFs' = (hostFs /\ ~(usb /\ transfer_cancelled /\ remaining > 0))
     \/ /\ ~read_error /\ ~transfer_cancelled /\ (usb \/ fp # 0)
        /\ WriterGoes("write")
        /\ UNCHANGED <<remaining, hostFs>>
  /\ UNCHANGED <<kind, usb, readerVars, mpc, dataVars, data_written, flagVars, fp, output, dir,
                 hostFile, overtaken, result>>

\* The file a write goes to: the one open here, or the one the host is receiving.
Target == IF usb THEN hostFile ELSE fp
MayStore == IF usb THEN 0 < data_size /\ data_size <= remaining ELSE TRUE

\* A mutant: a local write counts as data sent to the host.
StoreAndCount ==
  /\ MayStore
  /\ output' = IF data_size = 0 \/ Target = 0 THEN output
               ELSE [output EXCEPT ![Target] = Append(@, data)]
  /\ remaining' = remaining - data_size
  /\ data_written' = data_written + data_size
  /\ data_size' = 0
  /\ UNCHANGED <<write_error, hostFs>>

\* A file the reader has closed under the writer's feet takes nothing.
Store ==
  /\ MayStore
  /\ output' = IF data_size = 0 \/ Target = 0 THEN output
               ELSE [output EXCEPT ![Target] = Append(@, data)]
  /\ remaining' = IF usb THEN remaining - data_size ELSE remaining
  /\ data_written' = data_written + data_size
  /\ data_size' = 0
  /\ UNCHANGED <<write_error, hostFs>>

FailToStore ==
  /\ "write" \in Faults \/ ~MayStore \/ Target = 0
  /\ write_error' = TRUE
  /\ remaining' = 0
  /\ hostFs' \in {hostFs, FALSE}
  /\ UNCHANGED <<output, data_written, data_size>>

WriteChunk ==
  /\ wpc = "write"
  /\ Store \/ FailToStore
  /\ WriterGoes("wake")
  /\ UNCHANGED <<kind, usb, readerVars, mpc, data, read_error, transfer_cancelled, fp, dir, hostFile,
                 overtaken, result>>

WriterWakes ==
  /\ wpc = "wake"
  /\ WriterGoes(IF write_error THEN "done" ELSE "loop")
  /\ WakeReader
  /\ UNCHANGED <<kind, usb, rwait, file, chunk, walkVars, mpc, dataVars, data_written, flagVars, fp,
                 outputVars, overtaken, result>>

Writer == WriterLoop \/ WriterLock \/ WriterSleeps \/ WriterTest \/ WriteChunk \/ WriterWakes

-----------------------------------------------------------------------------
\* The main thread: spanDumpThreads

MainDecidesToCancel ==
  /\ mpc = "loop" /\ data_written < Total /\ "cancel" \in Faults
  /\ mpc' = "cancel"
  /\ UNCHANGED <<kind, usb, readerVars, wpc, dataVars, data_written, flagVars, fp, outputVars,
                 overtaken, result>>

MainCancels ==
  /\ mpc = "cancel" /\ MutexFree
  /\ transfer_cancelled' = TRUE
  /\ mpc' = "join"
  /\ UNCHANGED <<kind, usb, readerVars, wpc, dataVars, data_written, read_error, write_error, fp,
                 outputVars, overtaken, result>>

MainLeaves ==
  /\ mpc = "loop" /\ (data_written >= Total \/ read_error \/ write_error)
  /\ mpc' = "join"
  /\ UNCHANGED <<kind, usb, readerVars, wpc, dataVars, data_written, flagVars, fp, outputVars,
                 overtaken, result>>

MainJoins ==
  /\ mpc = "join" /\ rpc = "done" /\ wpc = "done"
  /\ mpc' = "done"
  /\ result' = CASE read_error \/ write_error -> "error"
                 [] ~read_error /\ ~write_error /\ transfer_cancelled -> "cancelled"
                 [] OTHER -> "success"
  /\ UNCHANGED <<kind, usb, readerVars, wpc, dataVars, data_written, flagVars, fp, outputVars,
                 overtaken>>

Main == MainDecidesToCancel \/ MainCancels \/ MainLeaves \/ MainJoins

Next == Reader \/ Writer \/ Main

Fairness == /\ WF_vars(Reader)
            /\ WF_vars(Writer)
            /\ WF_vars(MainCancels \/ MainLeaves \/ MainJoins)

Spec == Init /\ [][Next]_vars /\ Fairness

-----------------------------------------------------------------------------
\* Properties

ReaderPcs == {"start", "entry", "lockFile", "enter", "unwind", "open", "chunk", "lockChunk", "wake", "last",
              "lockLast", "asleep", "woken", "finish", "abort", "end", "done"}

ThreadTypes == /\ rpc \in ReaderPcs /\ rwait \in {"file", "chunk", "last"}
               /\ wpc \in {"loop", "lock", "sleep", "asleep", "woken", "held", "write", "wake", "done"}
               /\ mpc \in {"loop", "cancel", "join", "done"}
               /\ result \in {"running", "success", "error", "cancelled"}
CounterTypes == /\ file \in 1..(NumFiles + 1) /\ chunk \in Nat
                /\ data_size \in {0, 1} /\ data_written \in 0..Total
                /\ fp \in 0..NumFiles /\ hostFile \in 0..NumFiles /\ remaining \in Nat
FlagTypes == /\ kind \in Kinds /\ usb \in BOOLEAN
             /\ crossed \in BOOLEAN /\ (crossed \/ cwd # <<>> => kind = "browser")
             /\ read_error \in BOOLEAN /\ write_error \in BOOLEAN /\ transfer_cancelled \in BOOLEAN
             /\ dir \in {"none", "there", "removed"} /\ hostFs \in BOOLEAN /\ overtaken \in BOOLEAN

\* The values the threads' counters and the shared structure keep to; no more is written than there is.
TypeOK == ThreadTypes /\ CounterTypes /\ FlagTypes

Whole(f) == f \in DOMAIN output /\ output[f] = [c \in 1..FileSizes[f] |-> <<f, c>>]

\* A dump reported as successful has every chunk in its own file and in order, every file of the table
\* (the RomFS reader may leave out empty files at its end), and the host was told that it is over,
\* unless the reader was overtaken by a late wake-up.
SuccessIsWhole ==
  result = "success" /\ ~overtaken =>
    /\ \A f \in Files : Whole(f) \/ (kind = "romfs" /\ FileSizes[f] = 0)
    /\ ~hostFs

\* While the writer is at work on a chunk, the output open, or announced to the host, is the chunk's
\* own file: the reader never closes a file or announces the next one early, unless it was overtaken,
\* or reading failed: then it closes the file without a look at the writer.
ChunkMeetsItsFile ==
  wpc = "write" /\ data_size > 0 /\ ~overtaken /\ ~read_error => Target = data[1]

\* A cancelled local dump leaves no part of it, whenever the user cancels: the directory is removed
\* unless nothing was created or nothing is missing.  The file browser's reader keeps this only while it
\* is among the files of one directory: it closes the last file where a directory begins or ends, a
\* cancellation it notices there finds no file open, and what was dumped so far is left behind.
CancelledIsRemoved ==
  result = "cancelled" /\ ~usb /\ ~overtaken =>
    \/ dir # "there" \/ \A f \in Files : FileSizes[f] = 0 \/ Whole(f)
    \/ kind = "browser" /\ crossed

\* Once everything has been written the dump ends, whatever is left of the table and whatever the user
\* does by then: no wait of the reader is for a writer that is gone.
WrittenExtractionEnds == (data_written = Total) ~> (mpc = "done")

\* spanDumpThreads reports "i/o error" (nxdt_rw_poc.c:6067-6069) when a write fails: it gets there.
WriteErrorEndsExtraction == write_error ~> (mpc = "done")

\* The reader's comments (nxdt_rw_poc.c:4715, 4745, 4815, 4844) say what it waits for: "until the
\* previous data chunk has been written".
PreviousChunkWritten == ~overtaken
=============================================================================
