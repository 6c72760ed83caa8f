---------------------------- MODULE DumpPipeline ----------------------------
(***************************************************************************)
(* A single-file dump (game card image, raw partition, NCA, raw file        *)
(* system section) as NXDump's code_templates/nxdt_rw_poc.c runs it: a      *)
(* reader thread fills one of two buffers and hands it over, a writer       *)
(* thread sends the buffer to a file or to the USB host, and the main       *)
(* thread polls both, lets the user cancel, and joins them.                 *)
(*                                                                          *)
(* Sizes are counted in chunks of BLOCK_SIZE bytes: data_size is 0 or 1.    *)
(* A critical section of g_fileMutex is one step, except for the writer's   *)
(* two long ones (its wait test and the write itself), so the only holder   *)
(* a step can observe is the writer.  A condvarWait is the program counter  *)
(* "asleep"; condvarWakeAll, which every caller issues after it has         *)
(* released the mutex, is a step of its own and moves a sleeper to "woken", *)
(* from where it must take the mutex again.  A wake that finds nobody       *)
(* asleep is lost.                                                          *)
(***************************************************************************)
EXTENDS Integers, Sequences

CONSTANTS NumChunks,   \* total_size, in chunks
          UseUsbHost,  \* output storage: the USB host, or a local file already open
          Faults       \* what the environment may do: a subset of FaultKinds

FaultKinds == {"spawn", "alloc", "read", "write", "cancel"}

ASSUME DumpAssumption == /\ NumChunks \in Nat
                         /\ UseUsbHost \in BOOLEAN
                         /\ Faults \subseteq FaultKinds

VARIABLES
  rpc, wpc, mpc,        \* where the reader, the writer and the main thread are
  buf1,                 \* which of the two page-aligned buffers the reader calls buf1
  content,              \* the chunk each buffer holds, 0 for none
  offset,               \* chunks the reader is done with
  crc,                  \* the chunks folded into xci_crc
  data, data_size,      \* SharedThreadData: the chunk handed over (a buffer, 0 is NULL)
  data_written,
  read_error, write_error, transfer_cancelled,
  output,               \* what the file, or the host, has stored
  usbRemaining,         \* g_usbTransferRemainingSize, in chunks
  success               \* the value spanDumpThreads returns

readerVars == <<rpc, buf1, content, offset, crc>>
sharedVars == <<data, data_size, data_written, read_error, write_error, transfer_cancelled>>
outputVars == <<output, usbRemaining>>
vars == <<readerVars, sharedVars, outputVars, wpc, mpc, success>>

Buffers == {1, 2}

\* Mutant: the buffers are not swapped.
SameBuffer(b) == b
OtherBuffer(b) == 3 - b

\* g_fileMutex: see the header for why no other holder is ever seen.
MutexFree == wpc \notin {"sleep", "held", "write"}

\* condvarWakeAll(&g_writeCondvar) and condvarWakeAll(&g_readCondvar)
WakeNobody == wpc' = wpc   \* a mutant
WakeWriter == wpc' = IF wpc = "asleep" THEN "woken" ELSE wpc
WakeReader == rpc' = IF rpc = "asleep" THEN "woken" ELSE rpc

(***************************************************************************)
(* spanDumpThreads ignores what utilsCreateThread returns, so either thread *)
(* may not exist: joining it then returns at once.                          *)
(***************************************************************************)
Spawned(pc) == {pc} \cup (IF "spawn" \in Faults THEN {"done"} ELSE {})

Init == /\ rpc \in Spawned("start")
        /\ wpc \in Spawned("loop")
        /\ mpc = "loop"
        /\ buf1 = 1
        /\ content = [b \in Buffers |-> 0]
        /\ offset = 0
        /\ crc = <<>>
        /\ data = 0 /\ data_size = 0 /\ data_written = 0
        /\ read_error = FALSE /\ write_error = FALSE /\ transfer_cancelled = FALSE
        /\ output = <<>>
        /\ usbRemaining = IF UseUsbHost THEN NumChunks ELSE 0
        /\ success = FALSE

-----------------------------------------------------------------------------
\* The reader thread

\* On a failed allocation or an empty dump the reader leaves without waking anyone.
ReaderStart ==
  /\ rpc = "start"
  /\ \/ /\ NumChunks = 0 \/ "alloc" \in Faults
        /\ read_error' = TRUE
        /\ rpc' = "done"
        /\ UNCHANGED <<data, data_size>>
     \/ /\ NumChunks > 0
        /\ data' = 0 /\ data_size' = 0
        /\ rpc' = "loop"
        /\ UNCHANGED read_error
  /\ UNCHANGED <<buf1, content, offset, crc, data_written, write_error, transfer_cancelled,
                 outputVars, wpc, mpc, success>>

\* A mutant, and the test of the loop over the chunks.
ReaderOneTooMany == offset > NumChunks
ReaderFinished == offset >= NumChunks

\* The loop's head: the user's cancellation is read without the mutex.
ReaderLoop ==
  /\ rpc = "loop"
  /\ rpc' = CASE ReaderFinished -> "done"
              [] ~ReaderFinished /\ transfer_cancelled -> "abort"
              [] OTHER -> "read"
  /\ UNCHANGED <<buf1, content, offset, crc, sharedVars, outputVars, wpc, mpc, success>>

\* gamecardReadStorage into buf1, then the checksum; read_error is set without the mutex.
ReadChunk ==
  /\ rpc = "read"
  /\ \/ /\ content' = [content EXCEPT ![buf1] = offset + 1]
        /\ crc' = Append(crc, offset + 1)
        /\ rpc' = "lock"
        /\ UNCHANGED read_error
     \/ /\ "read" \in Faults
        /\ read_error' = TRUE
        /\ rpc' = "abort"
        /\ UNCHANGED <<content, crc>>
  /\ UNCHANGED <<buf1, offset, data, data_size, data_written, write_error, transfer_cancelled,
                 outputVars, wpc, mpc, success>>

ReaderAbort ==
  /\ rpc = "abort"
  /\ rpc' = "done"
  /\ WakeWriter
  /\ UNCHANGED <<buf1, content, offset, crc, sharedVars, outputVars, mpc, success>>

\* Hands buf1 over and swaps the buffers, unless the writer has failed.
Deposit ==
  \/ /\ write_error
     /\ rpc' = "done"
     /\ UNCHANGED <<buf1, data, data_size>>
  \/ /\ ~write_error
     /\ data' = buf1 /\ data_size' = 1
     /\ buf1' = OtherBuffer(buf1)
     /\ rpc' = "wake"

\* A mutant, and the wait condition.
MustWaitOnSize == data_size > 0
MustWait == data_size > 0 /\ ~write_error

ReaderLock ==
  /\ rpc = "lock" /\ MutexFree
  /\ \/ /\ MustWait
        /\ rpc' = "asleep"
        /\ UNCHANGED <<buf1, data, data_size>>
     \/ /\ ~MustWait
        /\ Deposit
  /\ UNCHANGED <<content, offset, crc, data_written, read_error, write_error,
                 transfer_cancelled, outputVars, wpc, mpc, success>>

\* Back from condvarWait, which stands in an `if': data_size is not looked at again.
ReaderResume ==
  /\ rpc = "woken" /\ MutexFree
  /\ Deposit
  /\ UNCHANGED <<content, offset, crc, data_written, read_error, write_error,
                 transfer_cancelled, outputVars, wpc, mpc, success>>

ReaderWake ==
  /\ rpc = "wake"
  /\ rpc' = "loop" /\ offset' = offset + 1
  /\ WakeWriter
  /\ UNCHANGED <<buf1, content, crc, sharedVars, outputVars, mpc, success>>

Reader == \/ ReaderStart \/ ReaderLoop \/ ReadChunk \/ ReaderAbort
          \/ ReaderLock \/ ReaderResume \/ ReaderWake

-----------------------------------------------------------------------------
\* The writer thread

\* A mutant, and the test of the writer's loop.
WriterOneTooMany == data_written > NumChunks
WriterFinished == data_written >= NumChunks

WriterLoop ==
  /\ wpc = "loop"
  /\ wpc' = IF WriterFinished THEN "done" ELSE "lock"
  /\ UNCHANGED <<readerVars, sharedVars, outputVars, mpc, success>>

\* The wait test.  transfer_cancelled is not part of it.
WriterLock ==
  /\ wpc = "lock"
  /\ wpc' = IF data_size = 0 /\ ~read_error THEN "sleep" ELSE "held"
  /\ UNCHANGED <<readerVars, sharedVars, outputVars, mpc, success>>

\* condvarWait: between the test and this step the reader may set read_error and wake nobody.
WriterSleep ==
  /\ wpc = "sleep"
  /\ wpc' = "asleep"
  /\ UNCHANGED <<readerVars, sharedVars, outputVars, mpc, success>>

WriterResume ==
  /\ wpc = "woken"
  /\ wpc' = "held"
  /\ UNCHANGED <<readerVars, sharedVars, outputVars, mpc, success>>

\* Leaves on an error or a cancellation; only a cancellation is told to the USB host.
WriterTest ==
  /\ wpc = "held"
  /\ \/ /\ read_error \/ transfer_cancelled
        /\ wpc' = "done"
        /\ usbRemaining' = IF UseUsbHost /\ transfer_cancelled THEN 0 ELSE usbRemaining
     \/ /\ ~read_error /\ ~transfer_cancelled
        /\ wpc' = "write"
        /\ UNCHANGED usbRemaining
  /\ UNCHANGED <<readerVars, sharedVars, output, mpc, success>>

\* fwrite accepts an empty chunk; usbSendFileData refuses one.
MayStore == IF UseUsbHost THEN 0 < data_size /\ data_size <= usbRemaining ELSE TRUE
MayFail  == "write" \in Faults \/ ~MayStore

\* A mutant: data_size is not reset, so a chunk can be written again.
StoreAndKeep ==
  /\ MayStore
  /\ output' = IF data_size = 0 THEN output ELSE Append(output, content[data])
  /\ usbRemaining' = IF UseUsbHost THEN usbRemaining - data_size ELSE usbRemaining
  /\ data_written' = data_written + data_size
  /\ UNCHANGED <<data_size, write_error>>

Store ==
  /\ MayStore
  /\ output' = IF data_size = 0 THEN output ELSE Append(output, content[data])
  /\ usbRemaining' = IF UseUsbHost THEN usbRemaining - data_size ELSE usbRemaining
  /\ data_written' = data_written + data_size
  /\ data_size' = 0
  /\ UNCHANGED write_error

\* A mutant, and what usbSendFileData leaves of the remaining size when it fails.
RemainingAfterLoss == IF UseUsbHost THEN usbRemaining - data_size ELSE usbRemaining
RemainingAfterError == 0

FailToStore ==
  /\ MayFail
  /\ write_error' = TRUE
  /\ usbRemaining' = RemainingAfterError
  /\ UNCHANGED <<output, data_written, data_size>>

WriteChunk ==
  /\ wpc = "write"
  /\ Store \/ FailToStore
  /\ wpc' = "wake"
  /\ UNCHANGED <<readerVars, data, read_error, transfer_cancelled, mpc, success>>

WriterWake ==
  /\ wpc = "wake"
  /\ wpc' = IF write_error THEN "done" ELSE "loop"
  /\ WakeReader
  /\ UNCHANGED <<buf1, content, offset, crc, sharedVars, outputVars, mpc, success>>

Writer == \/ WriterLoop \/ WriterLock \/ WriterSleep \/ WriterResume
          \/ WriterTest \/ WriteChunk \/ WriterWake

-----------------------------------------------------------------------------
\* The main thread: spanDumpThreads after both threads were created

\* B was held for three seconds, or the applet is being closed.
MainDecidesToCancel ==
  /\ mpc = "loop" /\ data_written < NumChunks /\ "cancel" \in Faults
  /\ mpc' = "cancel"
  /\ UNCHANGED <<readerVars, sharedVars, outputVars, wpc, success>>

MainCancels ==
  /\ mpc = "cancel" /\ MutexFree
  /\ transfer_cancelled' = TRUE
  /\ mpc' = "join"
  /\ UNCHANGED <<readerVars, data, data_size, data_written, read_error, write_error,
                 outputVars, wpc, success>>

\* The polling loop's exits.
MainLeaves ==
  /\ mpc = "loop"
  /\ data_written >= NumChunks \/ read_error \/ write_error
  /\ mpc' = "join"
  /\ UNCHANGED <<readerVars, sharedVars, outputVars, wpc, success>>

\* A mutant, and the value spanDumpThreads returns.
NoErrors == ~read_error /\ ~write_error
Succeeded == ~read_error /\ ~write_error /\ ~transfer_cancelled

MainJoins ==
  /\ mpc = "join" /\ rpc = "done" /\ wpc = "done"
  /\ mpc' = "done"
  /\ success' = Succeeded
  /\ UNCHANGED <<readerVars, sharedVars, outputVars, wpc>>

Main == MainDecidesToCancel \/ MainCancels \/ MainLeaves \/ MainJoins

-----------------------------------------------------------------------------
Next == Reader \/ Writer \/ Main

\* Both threads are preempted every few milliseconds (priority 0x3B) and never starved;
\* nothing makes the user cancel.
Fairness == /\ WF_vars(Reader)
            /\ WF_vars(Writer)
            /\ WF_vars(MainCancels \/ MainLeaves \/ MainJoins)

Spec == Init /\ [][Next]_vars /\ Fairness

-----------------------------------------------------------------------------
\* Properties

ThreadTypes ==
  /\ rpc \in {"start", "loop", "read", "abort", "lock", "asleep", "woken", "wake", "done"}
  /\ wpc \in {"loop", "lock", "sleep", "asleep", "woken", "held", "write", "wake", "done"}
  /\ mpc \in {"loop", "cancel", "join", "done"}

BufferTypes == /\ buf1 \in Buffers
               /\ content \in [Buffers -> 0..NumChunks]
               /\ offset \in 0..NumChunks
               /\ crc \in Seq(1..NumChunks)

SharedTypes == /\ data \in {0} \cup Buffers /\ data_size \in {0, 1} /\ data_written \in Nat
               /\ read_error \in BOOLEAN /\ write_error \in BOOLEAN
               /\ transfer_cancelled \in BOOLEAN

OutputTypes == /\ output \in Seq(1..NumChunks)
               /\ usbRemaining \in 0..NumChunks
               /\ success \in BOOLEAN

\* The values every variable keeps to, each a record of the C structures' fields.
TypeOK == ThreadTypes /\ BufferTypes /\ SharedTypes /\ OutputTypes

\* What has been reported, in DumpService's words.
Reported == IF mpc # "done" THEN "running" ELSE IF success THEN "success" ELSE "failure"

Service == INSTANCE DumpService WITH result <- Reported

\* The dump does what it promises: chunks reach the output in source order and at most once, none
\* after the outcome is reported, and "success" is reported only for a complete output, whatever
\* errors, cancellations, lost or stale wakes occur (spanDumpThreads' return value).
ImplementsService == Service!Spec

\* The checksum shown for a successful dump is that of the bytes in the output: xci_crc is updated
\* by the reader, before the hand-over, so a chunk lost between the threads would make them differ.
SuccessMatchesChecksum == mpc = "done" /\ success => crc = output

\* Double buffering: the reader never fills the buffer that the writer is sending.
NoBufferRace == rpc = "read" /\ wpc = "write" => data # buf1

\* The two threads never sleep on their condition variables at once, each waiting for the other.
NoMutualSleep == ~(rpc = "asleep" /\ wpc = "asleep")

\* While the USB host is still owed data, console and host agree on how much: a failed or cancelled
\* transfer leaves nothing pending rather than a wrong amount (g_usbTransferRemainingSize).
UsbAccounting == usbRemaining > 0 => usbRemaining + Len(output) = NumChunks

\* A write error ends the dump: the reader, wherever it is, notices and both threads can be joined.
WriteErrorEndsDump == write_error ~> mpc = "done"

\* Once everything has been written the dump ends, whatever the user does at the last moment.
WrittenDumpEnds == data_written = NumChunks /\ NumChunks > 0 ~> mpc = "done"

-----------------------------------------------------------------------------
\* What the source's comments and prompts say, and the code does not do

\* "Wait until the previous data chunk has been written", "Wait until the current file data chunk has
\* been read": past its wait, a thread finds what it waited for, or the other one's error.
WaitsHold == [][/\ rpc # "wake" /\ rpc' = "wake" => data_size = 0 \/ write_error
                /\ wpc = "held" => data_size > 0 \/ read_error]_vars

\* "hold b to cancel", and "i/o error" where the source cannot be read: a dump that is stopped ends.
StoppedDumpEnds == transfer_cancelled \/ read_error ~> mpc = "done"
=============================================================================
