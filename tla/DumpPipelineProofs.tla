------------------------- MODULE DumpPipelineProofs -------------------------
(***************************************************************************)
(* Proofs about DumpPipeline, for every number of chunks, either storage    *)
(* and every set of faults.                                                 *)
(***************************************************************************)
EXTENDS DumpPipeline, TLAPS

\* Chunks handed over so far: offset is advanced only after the writer has been woken.
Deposited == IF rpc = "wake" THEN offset + 1 ELSE offset

\* The reader has buf1 filled with the chunk at its offset.
ReaderHoldsChunk == rpc \in {"lock", "asleep", "woken"}

ReaderInv ==
  /\ rpc \in {"read", "lock", "asleep", "woken", "wake"} => offset < NumChunks
  /\ ReaderHoldsChunk => content[buf1] = offset + 1
  /\ \A i \in 1..Len(crc) : crc[i] = i
  /\ rpc \in {"start", "loop", "read", "abort"} => Len(crc) = offset
  /\ ReaderHoldsChunk \/ rpc = "wake" => Len(crc) = offset + 1
  /\ rpc = "done" => Len(crc) = offset \/ write_error

\* What is handed over is in the buffer the reader does not own.
HandOverInv ==
  /\ data # 0 => data = OtherBuffer(buf1)
  /\ data_size = 1 => data # 0 /\ content[data] = Deposited

\* Chunks are lost, if at all, between the threads: the i-th one stored is the i-th or a later one
\* of the source, and no later than leaves room for those stored after it.
OutputInv ==
  /\ data_written = Len(output)
  /\ Len(output) + data_size <= Deposited
  /\ \A i \in 1..Len(output) :
        i <= output[i] /\ output[i] + (Len(output) - i) + data_size <= Deposited

\* A sleeper has something to wait for, or somebody is about to wake it.
SleepInv ==
  /\ wpc = "sleep" => data_size = 0
  /\ wpc = "asleep" => data_size = 0 \/ rpc = "wake"
  /\ rpc = "asleep" => (data_size = 1 /\ ~write_error) \/ wpc = "wake"

MainInv ==
  /\ mpc \in {"join", "done"} =>
        data_written >= NumChunks \/ read_error \/ write_error \/ transfer_cancelled
  /\ mpc = "done" => rpc = "done" /\ wpc = "done"
  /\ success => mpc = "done" /\ Succeeded

UsbInv == /\ UsbAccounting
          /\ ~UseUsbHost => usbRemaining = 0

IInv == TypeOK /\ ReaderInv /\ HandOverInv /\ OutputInv /\ SleepInv /\ MainInv /\ UsbInv

\* A step that stores nothing and hands over at most what it adds to Deposited keeps OutputInv.
LEMMA OutputKept ==
  ASSUME OutputInv, TypeOK, output' = output, data_written' = data_written,
         Deposited \in Nat, Deposited' \in Nat, data_size \in Nat, data_size' \in Nat,
         data_size' - data_size <= Deposited' - Deposited
  PROVE  OutputInv'
  <1>1. Len(output) \in Nat /\ \A i \in 1..Len(output) : output[i] \in Nat
    BY DumpAssumption DEF TypeOK, OutputTypes
  <1>2. PICK d \in Nat, d2 \in Nat, z \in Nat, z2 \in Nat :
           d = Deposited /\ d2 = Deposited' /\ z = data_size /\ z2 = data_size'
    OBVIOUS
  <1>3. z2 - z <= d2 - d
    BY <1>2
  <1>4. data_written' = Len(output') /\ Len(output') + z2 <= d2
    <2>1. data_written = Len(output) /\ Len(output) + z <= d
      BY <1>2 DEF OutputInv
    <2> QED
      BY <1>1, <1>3, <2>1
  <1>5. ASSUME NEW i \in 1..Len(output)
        PROVE  i <= output[i] /\ output[i] + (Len(output) - i) + z2 <= d2
    <2>1. i <= output[i] /\ output[i] + (Len(output) - i) + z <= d
      BY <1>2 DEF OutputInv
    <2> QED
      BY <1>1, <1>3, <2>1
  <1> QED
    BY <1>2, <1>4, <1>5 DEF OutputInv

LEMMA InitInv == Init => IInv
  <1> SUFFICES ASSUME Init PROVE IInv
    OBVIOUS
  <1> USE DumpAssumption DEF Init, Spawned
  <1>1. TypeOK
    <2>1. ThreadTypes /\ SharedTypes
      BY DEF ThreadTypes, SharedTypes
    <2>2. BufferTypes
      BY DEF BufferTypes, Buffers
    <2>3. OutputTypes
      <3>1. output \in Seq(1..NumChunks)
        OBVIOUS
      <3>2. usbRemaining \in 0..NumChunks
        BY DEF OutputTypes
      <3> QED
        BY <3>1, <3>2 DEF OutputTypes
    <2> QED
      BY <2>1, <2>2, <2>3 DEF TypeOK
  <1>2. ReaderInv /\ HandOverInv /\ OutputInv
    BY DEF ReaderInv, ReaderHoldsChunk, HandOverInv, OutputInv, Deposited
  <1>3. SleepInv /\ MainInv /\ UsbInv
    BY DEF SleepInv, MainInv, UsbInv, UsbAccounting
  <1> QED
    BY <1>1, <1>2, <1>3 DEF IInv

LEMMA ReaderPreserves == IInv /\ Reader => IInv'
  <1> SUFFICES ASSUME IInv, Reader PROVE IInv'
    OBVIOUS
  <1> USE DumpAssumption DEF IInv
  <1>1. CASE ReaderStart
    <2>1. TypeOK'
      <3>1. ThreadTypes'
        BY <1>1 DEF ReaderStart, outputVars, TypeOK, ThreadTypes
      <3>2. BufferTypes'
        BY <1>1 DEF ReaderStart, outputVars, TypeOK, BufferTypes, Buffers, OtherBuffer,
                    ReaderInv
      <3>3. SharedTypes'
        BY <1>1 DEF ReaderStart, outputVars, TypeOK, SharedTypes, BufferTypes, Buffers
      <3>4. OutputTypes'
        BY <1>1 DEF ReaderStart, outputVars, TypeOK, OutputTypes, SharedTypes
      <3> QED
        BY <3>1, <3>2, <3>3, <3>4 DEF TypeOK
    <2>2. ReaderInv'
      BY <1>1 DEF ReaderStart, outputVars, TypeOK, BufferTypes, SharedTypes, Buffers, ReaderInv,
                  ReaderHoldsChunk
    <2>3. HandOverInv'
      BY <1>1 DEF ReaderStart, outputVars, TypeOK, BufferTypes, SharedTypes, Buffers,
                  HandOverInv, OtherBuffer, ReaderInv, ReaderHoldsChunk, Deposited
    <2>4. OutputInv'
      <3>1. /\ output' = output /\ data_written' = data_written
            /\ data_size' - data_size <= Deposited' - Deposited
        BY <1>1 DEF ReaderStart, outputVars, TypeOK, BufferTypes, SharedTypes, OutputTypes,
                    Deposited, ReaderInv
      <3>2. Deposited' \in Nat /\ Deposited \in Nat /\ data_size' \in Nat /\ data_size \in Nat
        BY <2>1, <1>1 DEF ReaderStart, TypeOK, BufferTypes, SharedTypes, OutputTypes, Deposited,
                        ReaderInv
      <3> QED
        BY <3>1, <3>2, OutputKept
    <2>5. SleepInv'
      BY <1>1 DEF ReaderStart, outputVars, TypeOK, ThreadTypes, SharedTypes, SleepInv, MutexFree
    <2>6. MainInv'
      BY <1>1 DEF ReaderStart, outputVars, TypeOK, ThreadTypes, SharedTypes, MainInv, Succeeded
    <2>7. UsbInv'
      BY <1>1 DEF ReaderStart, outputVars, TypeOK, SharedTypes, OutputTypes, UsbInv,
                  UsbAccounting
    <2> QED
      BY <2>1, <2>2, <2>3, <2>4, <2>5, <2>6, <2>7
  <1>2. CASE ReaderLoop
    <2>1. TypeOK'
      <3>1. ThreadTypes'
        BY <1>2 DEF ReaderLoop, ReaderFinished, sharedVars, outputVars, TypeOK, ThreadTypes
      <3>2. BufferTypes'
        BY <1>2 DEF ReaderLoop, ReaderFinished, sharedVars, outputVars, TypeOK, BufferTypes,
                    Buffers, OtherBuffer, ReaderInv
      <3>3. SharedTypes'
        BY <1>2 DEF ReaderLoop, ReaderFinished, sharedVars, outputVars, TypeOK, SharedTypes,
                    BufferTypes, Buffers
      <3>4. OutputTypes'
        BY <1>2 DEF ReaderLoop, ReaderFinished, sharedVars, outputVars, TypeOK, OutputTypes,
                    SharedTypes
      <3> QED
        BY <3>1, <3>2, <3>3, <3>4 DEF TypeOK
    <2>2. ReaderInv'
      BY <1>2 DEF ReaderLoop, ReaderFinished, sharedVars, outputVars, TypeOK, BufferTypes,
                  SharedTypes, Buffers, ReaderInv, ReaderHoldsChunk
    <2>3. HandOverInv'
      BY <1>2 DEF ReaderLoop, ReaderFinished, sharedVars, outputVars, TypeOK, BufferTypes,
                  SharedTypes, Buffers, HandOverInv, OtherBuffer, ReaderInv, ReaderHoldsChunk,
                  Deposited
    <2>4. OutputInv'
      BY <1>2 DEF ReaderLoop, ReaderFinished, sharedVars, outputVars, TypeOK, BufferTypes,
                  SharedTypes, OutputTypes, OutputInv, HandOverInv, ReaderInv, ReaderHoldsChunk,
                  Deposited, Buffers
    <2>5. SleepInv'
      BY <1>2 DEF ReaderLoop, ReaderFinished, sharedVars, outputVars, TypeOK, ThreadTypes,
                  SharedTypes, SleepInv, MutexFree
    <2>6. MainInv'
      BY <1>2 DEF ReaderLoop, ReaderFinished, sharedVars, outputVars, TypeOK, ThreadTypes,
                  SharedTypes, MainInv, Succeeded
    <2>7. UsbInv'
      BY <1>2 DEF ReaderLoop, ReaderFinished, sharedVars, outputVars, TypeOK, SharedTypes,
                  OutputTypes, UsbInv, UsbAccounting
    <2> QED
      BY <2>1, <2>2, <2>3, <2>4, <2>5, <2>6, <2>7
  <1>3. CASE ReadChunk
    <2>1. TypeOK'
      <3>1. ThreadTypes'
        BY <1>3 DEF ReadChunk, outputVars, TypeOK, ThreadTypes
      <3>2. BufferTypes'
        <4>1. offset < NumChunks /\ offset + 1 \in 1..NumChunks
          BY <1>3 DEF ReadChunk, TypeOK, BufferTypes, ReaderInv
        <4>2. CASE crc' = Append(crc, offset + 1) /\ content' = [content EXCEPT ![buf1] = offset + 1]
          <5>1. crc' \in Seq(1..NumChunks)
            BY <4>1, <4>2 DEF TypeOK, BufferTypes
          <5>2. content' \in [Buffers -> 0..NumChunks]
            BY <4>1, <4>2 DEF TypeOK, BufferTypes
          <5> QED
            BY <5>1, <5>2, <1>3 DEF ReadChunk, TypeOK, BufferTypes
        <4>3. CASE UNCHANGED <<content, crc>>
          BY <4>3, <1>3 DEF ReadChunk, TypeOK, BufferTypes
        <4> QED
          BY <4>2, <4>3, <1>3 DEF ReadChunk
      <3>3. SharedTypes'
        BY <1>3 DEF ReadChunk, outputVars, TypeOK, SharedTypes, BufferTypes, Buffers
      <3>4. OutputTypes'
        BY <1>3 DEF ReadChunk, outputVars, TypeOK, OutputTypes, SharedTypes
      <3> QED
        BY <3>1, <3>2, <3>3, <3>4 DEF TypeOK
    <2>2. ReaderInv'
      <3>1. CASE crc' = Append(crc, offset + 1) /\ rpc' = "lock" /\ content' = [content EXCEPT ![buf1] = offset + 1]
        <4>1. crc \in Seq(1..NumChunks) /\ Len(crc) = offset /\ offset \in Nat
          BY <1>3 DEF ReadChunk, TypeOK, BufferTypes, ReaderInv
        <4>2. Len(crc') = offset + 1 /\ \A i \in 1..Len(crc') : crc'[i] = i
          <5>1. \A i \in 1..Len(crc) : crc[i] = i
            BY DEF ReaderInv
          <5> QED
            BY <3>1, <4>1, <5>1
        <4>3. content'[buf1'] = offset' + 1
          BY <3>1, <1>3 DEF ReadChunk, TypeOK, BufferTypes
        <4> QED
          BY <3>1, <4>2, <4>3, <1>3 DEF ReadChunk, ReaderInv, ReaderHoldsChunk
      <3>2. CASE UNCHANGED <<content, crc>> /\ rpc' = "abort"
        BY <3>2, <1>3 DEF ReadChunk, ReaderInv, ReaderHoldsChunk
      <3> QED
        BY <3>1, <3>2, <1>3 DEF ReadChunk
    <2>3. HandOverInv'
      BY <1>3 DEF ReadChunk, outputVars, TypeOK, BufferTypes, SharedTypes, Buffers, HandOverInv,
                  OtherBuffer, ReaderInv, ReaderHoldsChunk, Deposited
    <2>4. OutputInv'
      BY <1>3 DEF ReadChunk, outputVars, TypeOK, BufferTypes, SharedTypes, OutputTypes,
                  OutputInv, HandOverInv, ReaderInv, ReaderHoldsChunk, Deposited, Buffers
    <2>5. SleepInv'
      BY <1>3 DEF ReadChunk, outputVars, TypeOK, ThreadTypes, SharedTypes, SleepInv, MutexFree
    <2>6. MainInv'
      BY <1>3 DEF ReadChunk, outputVars, TypeOK, ThreadTypes, SharedTypes, MainInv, Succeeded
    <2>7. UsbInv'
      BY <1>3 DEF ReadChunk, outputVars, TypeOK, SharedTypes, OutputTypes, UsbInv, UsbAccounting
    <2> QED
      BY <2>1, <2>2, <2>3, <2>4, <2>5, <2>6, <2>7
  <1>4. CASE ReaderAbort
    <2>1. TypeOK'
      <3>1. ThreadTypes'
        BY <1>4 DEF ReaderAbort, WakeWriter, sharedVars, outputVars, TypeOK, ThreadTypes
      <3>2. BufferTypes'
        BY <1>4 DEF ReaderAbort, WakeWriter, sharedVars, outputVars, TypeOK, BufferTypes,
                    Buffers, OtherBuffer, ReaderInv
      <3>3. SharedTypes'
        BY <1>4 DEF ReaderAbort, WakeWriter, sharedVars, outputVars, TypeOK, SharedTypes,
                    BufferTypes, Buffers
      <3>4. OutputTypes'
        BY <1>4 DEF ReaderAbort, WakeWriter, sharedVars, outputVars, TypeOK, OutputTypes,
                    SharedTypes
      <3> QED
        BY <3>1, <3>2, <3>3, <3>4 DEF TypeOK
    <2>2. ReaderInv'
      BY <1>4 DEF ReaderAbort, WakeWriter, sharedVars, outputVars, TypeOK, BufferTypes,
                  SharedTypes, Buffers, ReaderInv, ReaderHoldsChunk
    <2>3. HandOverInv'
      BY <1>4 DEF ReaderAbort, WakeWriter, sharedVars, outputVars, TypeOK, BufferTypes,
                  SharedTypes, Buffers, HandOverInv, OtherBuffer, ReaderInv, ReaderHoldsChunk,
                  Deposited
    <2>4. OutputInv'
      BY <1>4 DEF ReaderAbort, WakeWriter, sharedVars, outputVars, TypeOK, BufferTypes,
                  SharedTypes, OutputTypes, OutputInv, HandOverInv, ReaderInv, ReaderHoldsChunk,
                  Deposited, Buffers
    <2>5. SleepInv'
      BY <1>4 DEF ReaderAbort, WakeWriter, sharedVars, outputVars, TypeOK, ThreadTypes,
                  SharedTypes, SleepInv, MutexFree
    <2>6. MainInv'
      BY <1>4 DEF ReaderAbort, WakeWriter, sharedVars, outputVars, TypeOK, ThreadTypes,
                  SharedTypes, MainInv, Succeeded
    <2>7. UsbInv'
      BY <1>4 DEF ReaderAbort, WakeWriter, sharedVars, outputVars, TypeOK, SharedTypes,
                  OutputTypes, UsbInv, UsbAccounting
    <2> QED
      BY <2>1, <2>2, <2>3, <2>4, <2>5, <2>6, <2>7
  <1>5. CASE ReaderLock
    <2>1. TypeOK'
      <3>1. ThreadTypes'
        BY <1>5 DEF ReaderLock, MustWait, Deposit, outputVars, TypeOK, ThreadTypes
      <3>2. BufferTypes'
        BY <1>5 DEF ReaderLock, MustWait, Deposit, outputVars, TypeOK, BufferTypes, Buffers,
                    OtherBuffer, ReaderInv
      <3>3. SharedTypes'
        BY <1>5 DEF ReaderLock, MustWait, Deposit, outputVars, TypeOK, SharedTypes, BufferTypes,
                    Buffers
      <3>4. OutputTypes'
        BY <1>5 DEF ReaderLock, MustWait, Deposit, outputVars, TypeOK, OutputTypes, SharedTypes
      <3> QED
        BY <3>1, <3>2, <3>3, <3>4 DEF TypeOK
    <2>2. ReaderInv'
      BY <1>5 DEF ReaderLock, MustWait, Deposit, outputVars, TypeOK, BufferTypes, SharedTypes,
                  Buffers, ReaderInv, ReaderHoldsChunk
    <2>3. HandOverInv'
      BY <1>5 DEF ReaderLock, MustWait, Deposit, outputVars, TypeOK, BufferTypes, SharedTypes,
                  Buffers, HandOverInv, OtherBuffer, ReaderInv, ReaderHoldsChunk, Deposited
    <2>4. OutputInv'
      <3>1. /\ output' = output /\ data_written' = data_written
            /\ data_size' - data_size <= Deposited' - Deposited
        BY <1>5 DEF ReaderLock, MustWait, Deposit, ReaderHoldsChunk, outputVars, TypeOK,
                    BufferTypes, SharedTypes, OutputTypes, Deposited, ReaderInv
      <3>2. Deposited' \in Nat /\ Deposited \in Nat /\ data_size' \in Nat /\ data_size \in Nat
        BY <2>1, <1>5 DEF ReaderLock, MustWait, Deposit, ReaderHoldsChunk, TypeOK, BufferTypes,
                        SharedTypes, OutputTypes, Deposited, ReaderInv
      <3> QED
        BY <3>1, <3>2, OutputKept
    <2>5. SleepInv'
      BY <1>5 DEF ReaderLock, MustWait, Deposit, outputVars, TypeOK, ThreadTypes, SharedTypes,
                  SleepInv, MutexFree
    <2>6. MainInv'
      BY <1>5 DEF ReaderLock, MustWait, Deposit, outputVars, TypeOK, ThreadTypes, SharedTypes,
                  MainInv, Succeeded
    <2>7. UsbInv'
      BY <1>5 DEF ReaderLock, MustWait, Deposit, outputVars, TypeOK, SharedTypes, OutputTypes,
                  UsbInv, UsbAccounting
    <2> QED
      BY <2>1, <2>2, <2>3, <2>4, <2>5, <2>6, <2>7
  <1>6. CASE ReaderResume
    <2>1. TypeOK'
      <3>1. ThreadTypes'
        BY <1>6 DEF ReaderResume, Deposit, outputVars, TypeOK, ThreadTypes
      <3>2. BufferTypes'
        BY <1>6 DEF ReaderResume, Deposit, outputVars, TypeOK, BufferTypes, Buffers,
                    OtherBuffer, ReaderInv
      <3>3. SharedTypes'
        BY <1>6 DEF ReaderResume, Deposit, outputVars, TypeOK, SharedTypes, BufferTypes, Buffers
      <3>4. OutputTypes'
        BY <1>6 DEF ReaderResume, Deposit, outputVars, TypeOK, OutputTypes, SharedTypes
      <3> QED
        BY <3>1, <3>2, <3>3, <3>4 DEF TypeOK
    <2>2. ReaderInv'
      BY <1>6 DEF ReaderResume, Deposit, outputVars, TypeOK, BufferTypes, SharedTypes, Buffers,
                  ReaderInv, ReaderHoldsChunk
    <2>3. HandOverInv'
      BY <1>6 DEF ReaderResume, Deposit, outputVars, TypeOK, BufferTypes, SharedTypes, Buffers,
                  HandOverInv, OtherBuffer, ReaderInv, ReaderHoldsChunk, Deposited
    <2>4. OutputInv'
      <3>1. /\ output' = output /\ data_written' = data_written
            /\ data_size' - data_size <= Deposited' - Deposited
        BY <1>6 DEF ReaderResume, Deposit, ReaderHoldsChunk, outputVars, TypeOK, BufferTypes,
                    SharedTypes, OutputTypes, Deposited, ReaderInv
      <3>2. Deposited' \in Nat /\ Deposited \in Nat /\ data_size' \in Nat /\ data_size \in Nat
        BY <2>1, <1>6 DEF ReaderResume, Deposit, ReaderHoldsChunk, TypeOK, BufferTypes,
                        SharedTypes, OutputTypes, Deposited, ReaderInv
      <3> QED
        BY <3>1, <3>2, OutputKept
    <2>5. SleepInv'
      BY <1>6 DEF ReaderResume, Deposit, outputVars, TypeOK, ThreadTypes, SharedTypes, SleepInv,
                  MutexFree
    <2>6. MainInv'
      BY <1>6 DEF ReaderResume, Deposit, outputVars, TypeOK, ThreadTypes, SharedTypes, MainInv,
                  Succeeded
    <2>7. UsbInv'
      BY <1>6 DEF ReaderResume, Deposit, outputVars, TypeOK, SharedTypes, OutputTypes, UsbInv,
                  UsbAccounting
    <2> QED
      BY <2>1, <2>2, <2>3, <2>4, <2>5, <2>6, <2>7
  <1>7. CASE ReaderWake
    <2>1. TypeOK'
      <3>1. ThreadTypes'
        BY <1>7 DEF ReaderWake, WakeWriter, sharedVars, outputVars, TypeOK, ThreadTypes
      <3>2. BufferTypes'
        BY <1>7 DEF ReaderWake, WakeWriter, sharedVars, outputVars, TypeOK, BufferTypes,
                    Buffers, OtherBuffer, ReaderInv
      <3>3. SharedTypes'
        BY <1>7 DEF ReaderWake, WakeWriter, sharedVars, outputVars, TypeOK, SharedTypes,
                    BufferTypes, Buffers
      <3>4. OutputTypes'
        BY <1>7 DEF ReaderWake, WakeWriter, sharedVars, outputVars, TypeOK, OutputTypes,
                    SharedTypes
      <3> QED
        BY <3>1, <3>2, <3>3, <3>4 DEF TypeOK
    <2>2. ReaderInv'
      BY <1>7 DEF ReaderWake, WakeWriter, sharedVars, outputVars, TypeOK, BufferTypes,
                  SharedTypes, Buffers, ReaderInv, ReaderHoldsChunk
    <2>3. HandOverInv'
      BY <1>7 DEF ReaderWake, WakeWriter, sharedVars, outputVars, TypeOK, BufferTypes,
                  SharedTypes, Buffers, HandOverInv, OtherBuffer, ReaderInv, ReaderHoldsChunk,
                  Deposited
    <2>4. OutputInv'
      BY <1>7 DEF ReaderWake, WakeWriter, sharedVars, outputVars, TypeOK, BufferTypes,
                  SharedTypes, OutputTypes, OutputInv, HandOverInv, ReaderInv, ReaderHoldsChunk,
                  Deposited, Buffers
    <2>5. SleepInv'
      BY <1>7 DEF ReaderWake, WakeWriter, sharedVars, outputVars, TypeOK, ThreadTypes,
                  SharedTypes, SleepInv, MutexFree
    <2>6. MainInv'
      BY <1>7 DEF ReaderWake, WakeWriter, sharedVars, outputVars, TypeOK, ThreadTypes,
                  SharedTypes, MainInv, Succeeded
    <2>7. UsbInv'
      BY <1>7 DEF ReaderWake, WakeWriter, sharedVars, outputVars, TypeOK, SharedTypes,
                  OutputTypes, UsbInv, UsbAccounting
    <2> QED
      BY <2>1, <2>2, <2>3, <2>4, <2>5, <2>6, <2>7
  <1> QED
    BY <1>1, <1>2, <1>3, <1>4, <1>5, <1>6, <1>7 DEF Reader

LEMMA WriterPreserves == IInv /\ Writer => IInv'
  <1> SUFFICES ASSUME IInv, Writer PROVE IInv'
    OBVIOUS
  <1> USE DumpAssumption DEF IInv
  <1>1. CASE WriterLoop
    <2>1. TypeOK'
      <3>1. ThreadTypes'
        BY <1>1 DEF WriterLoop, WriterFinished, readerVars, sharedVars, outputVars, TypeOK,
                    ThreadTypes
      <3>2. BufferTypes'
        BY <1>1 DEF WriterLoop, WriterFinished, readerVars, sharedVars, outputVars, TypeOK,
                    BufferTypes, Buffers, OtherBuffer, ReaderInv
      <3>3. SharedTypes'
        BY <1>1 DEF WriterLoop, WriterFinished, readerVars, sharedVars, outputVars, TypeOK,
                    SharedTypes, BufferTypes, Buffers
      <3>4. OutputTypes'
        BY <1>1 DEF WriterLoop, WriterFinished, readerVars, sharedVars, outputVars, TypeOK,
                    OutputTypes, SharedTypes
      <3> QED
        BY <3>1, <3>2, <3>3, <3>4 DEF TypeOK
    <2>2. ReaderInv'
      BY <1>1 DEF WriterLoop, WriterFinished, readerVars, sharedVars, outputVars, TypeOK,
                  BufferTypes, SharedTypes, Buffers, ReaderInv, ReaderHoldsChunk
    <2>3. HandOverInv'
      BY <1>1 DEF WriterLoop, WriterFinished, readerVars, sharedVars, outputVars, TypeOK,
                  BufferTypes, SharedTypes, Buffers, HandOverInv, OtherBuffer, ReaderInv,
                  ReaderHoldsChunk, Deposited
    <2>4. OutputInv'
      BY <1>1 DEF WriterLoop, WriterFinished, readerVars, sharedVars, outputVars, TypeOK,
                  BufferTypes, SharedTypes, OutputTypes, OutputInv, HandOverInv, ReaderInv,
                  ReaderHoldsChunk, Deposited, Buffers
    <2>5. SleepInv'
      BY <1>1 DEF WriterLoop, WriterFinished, readerVars, sharedVars, outputVars, TypeOK,
                  ThreadTypes, SharedTypes, SleepInv, MutexFree
    <2>6. MainInv'
      BY <1>1 DEF WriterLoop, WriterFinished, readerVars, sharedVars, outputVars, TypeOK,
                  ThreadTypes, SharedTypes, MainInv, Succeeded
    <2>7. UsbInv'
      BY <1>1 DEF WriterLoop, WriterFinished, readerVars, sharedVars, outputVars, TypeOK,
                  SharedTypes, OutputTypes, UsbInv, UsbAccounting
    <2> QED
      BY <2>1, <2>2, <2>3, <2>4, <2>5, <2>6, <2>7
  <1>2. CASE WriterLock
    <2>1. TypeOK'
      <3>1. ThreadTypes'
        BY <1>2 DEF WriterLock, readerVars, sharedVars, outputVars, TypeOK, ThreadTypes
      <3>2. BufferTypes'
        BY <1>2 DEF WriterLock, readerVars, sharedVars, outputVars, TypeOK, BufferTypes,
                    Buffers, OtherBuffer, ReaderInv
      <3>3. SharedTypes'
        BY <1>2 DEF WriterLock, readerVars, sharedVars, outputVars, TypeOK, SharedTypes,
                    BufferTypes, Buffers
      <3>4. OutputTypes'
        BY <1>2 DEF WriterLock, readerVars, sharedVars, outputVars, TypeOK, OutputTypes,
                    SharedTypes
      <3> QED
        BY <3>1, <3>2, <3>3, <3>4 DEF TypeOK
    <2>2. ReaderInv'
      BY <1>2 DEF WriterLock, readerVars, sharedVars, outputVars, TypeOK, BufferTypes,
                  SharedTypes, Buffers, ReaderInv, ReaderHoldsChunk
    <2>3. HandOverInv'
      BY <1>2 DEF WriterLock, readerVars, sharedVars, outputVars, TypeOK, BufferTypes,
                  SharedTypes, Buffers, HandOverInv, OtherBuffer, ReaderInv, ReaderHoldsChunk,
                  Deposited
    <2>4. OutputInv'
      BY <1>2 DEF WriterLock, readerVars, sharedVars, outputVars, TypeOK, BufferTypes,
                  SharedTypes, OutputTypes, OutputInv, HandOverInv, ReaderInv, ReaderHoldsChunk,
                  Deposited, Buffers
    <2>5. SleepInv'
      BY <1>2 DEF WriterLock, readerVars, sharedVars, outputVars, TypeOK, ThreadTypes,
                  SharedTypes, SleepInv, MutexFree
    <2>6. MainInv'
      BY <1>2 DEF WriterLock, readerVars, sharedVars, outputVars, TypeOK, ThreadTypes,
                  SharedTypes, MainInv, Succeeded
    <2>7. UsbInv'
      BY <1>2 DEF WriterLock, readerVars, sharedVars, outputVars, TypeOK, SharedTypes,
                  OutputTypes, UsbInv, UsbAccounting
    <2> QED
      BY <2>1, <2>2, <2>3, <2>4, <2>5, <2>6, <2>7
  <1>3. CASE WriterSleep
    <2>1. TypeOK'
      <3>1. ThreadTypes'
        BY <1>3 DEF WriterSleep, readerVars, sharedVars, outputVars, TypeOK, ThreadTypes
      <3>2. BufferTypes'
        BY <1>3 DEF WriterSleep, readerVars, sharedVars, outputVars, TypeOK, BufferTypes,
                    Buffers, OtherBuffer, ReaderInv
      <3>3. SharedTypes'
        BY <1>3 DEF WriterSleep, readerVars, sharedVars, outputVars, TypeOK, SharedTypes,
                    BufferTypes, Buffers
      <3>4. OutputTypes'
        BY <1>3 DEF WriterSleep, readerVars, sharedVars, outputVars, TypeOK, OutputTypes,
                    SharedTypes
      <3> QED
        BY <3>1, <3>2, <3>3, <3>4 DEF TypeOK
    <2>2. ReaderInv'
      BY <1>3 DEF WriterSleep, readerVars, sharedVars, outputVars, TypeOK, BufferTypes,
                  SharedTypes, Buffers, ReaderInv, ReaderHoldsChunk
    <2>3. HandOverInv'
      BY <1>3 DEF WriterSleep, readerVars, sharedVars, outputVars, TypeOK, BufferTypes,
                  SharedTypes, Buffers, HandOverInv, OtherBuffer, ReaderInv, ReaderHoldsChunk,
                  Deposited
    <2>4. OutputInv'
      BY <1>3 DEF WriterSleep, readerVars, sharedVars, outputVars, TypeOK, BufferTypes,
                  SharedTypes, OutputTypes, OutputInv, HandOverInv, ReaderInv, ReaderHoldsChunk,
                  Deposited, Buffers
    <2>5. SleepInv'
      BY <1>3 DEF WriterSleep, readerVars, sharedVars, outputVars, TypeOK, ThreadTypes,
                  SharedTypes, SleepInv, MutexFree
    <2>6. MainInv'
      BY <1>3 DEF WriterSleep, readerVars, sharedVars, outputVars, TypeOK, ThreadTypes,
                  SharedTypes, MainInv, Succeeded
    <2>7. UsbInv'
      BY <1>3 DEF WriterSleep, readerVars, sharedVars, outputVars, TypeOK, SharedTypes,
                  OutputTypes, UsbInv, UsbAccounting
    <2> QED
      BY <2>1, <2>2, <2>3, <2>4, <2>5, <2>6, <2>7
  <1>4. CASE WriterResume
    <2>1. TypeOK'
      <3>1. ThreadTypes'
        BY <1>4 DEF WriterResume, readerVars, sharedVars, outputVars, TypeOK, ThreadTypes
      <3>2. BufferTypes'
        BY <1>4 DEF WriterResume, readerVars, sharedVars, outputVars, TypeOK, BufferTypes,
                    Buffers, OtherBuffer, ReaderInv
      <3>3. SharedTypes'
        BY <1>4 DEF WriterResume, readerVars, sharedVars, outputVars, TypeOK, SharedTypes,
                    BufferTypes, Buffers
      <3>4. OutputTypes'
        BY <1>4 DEF WriterResume, readerVars, sharedVars, outputVars, TypeOK, OutputTypes,
                    SharedTypes
      <3> QED
        BY <3>1, <3>2, <3>3, <3>4 DEF TypeOK
    <2>2. ReaderInv'
      BY <1>4 DEF WriterResume, readerVars, sharedVars, outputVars, TypeOK, BufferTypes,
                  SharedTypes, Buffers, ReaderInv, ReaderHoldsChunk
    <2>3. HandOverInv'
      BY <1>4 DEF WriterResume, readerVars, sharedVars, outputVars, TypeOK, BufferTypes,
                  SharedTypes, Buffers, HandOverInv, OtherBuffer, ReaderInv, ReaderHoldsChunk,
                  Deposited
    <2>4. OutputInv'
      BY <1>4 DEF WriterResume, readerVars, sharedVars, outputVars, TypeOK, BufferTypes,
                  SharedTypes, OutputTypes, OutputInv, HandOverInv, ReaderInv, ReaderHoldsChunk,
                  Deposited, Buffers
    <2>5. SleepInv'
      BY <1>4 DEF WriterResume, readerVars, sharedVars, outputVars, TypeOK, ThreadTypes,
                  SharedTypes, SleepInv, MutexFree
    <2>6. MainInv'
      BY <1>4 DEF WriterResume, readerVars, sharedVars, outputVars, TypeOK, ThreadTypes,
                  SharedTypes, MainInv, Succeeded
    <2>7. UsbInv'
      BY <1>4 DEF WriterResume, readerVars, sharedVars, outputVars, TypeOK, SharedTypes,
                  OutputTypes, UsbInv, UsbAccounting
    <2> QED
      BY <2>1, <2>2, <2>3, <2>4, <2>5, <2>6, <2>7
  <1>5. CASE WriterTest
    <2>1. TypeOK'
      <3>1. ThreadTypes'
        BY <1>5 DEF WriterTest, readerVars, sharedVars, TypeOK, ThreadTypes
      <3>2. BufferTypes'
        BY <1>5 DEF WriterTest, readerVars, sharedVars, TypeOK, BufferTypes, Buffers,
                    OtherBuffer, ReaderInv
      <3>3. SharedTypes'
        BY <1>5 DEF WriterTest, readerVars, sharedVars, TypeOK, SharedTypes, BufferTypes,
                    Buffers
      <3>4. OutputTypes'
        BY <1>5 DEF WriterTest, readerVars, sharedVars, TypeOK, OutputTypes, SharedTypes
      <3> QED
        BY <3>1, <3>2, <3>3, <3>4 DEF TypeOK
    <2>2. ReaderInv'
      BY <1>5 DEF WriterTest, readerVars, sharedVars, TypeOK, BufferTypes, SharedTypes, Buffers,
                  ReaderInv, ReaderHoldsChunk
    <2>3. HandOverInv'
      BY <1>5 DEF WriterTest, readerVars, sharedVars, TypeOK, BufferTypes, SharedTypes, Buffers,
                  HandOverInv, OtherBuffer, ReaderInv, ReaderHoldsChunk, Deposited
    <2>4. OutputInv'
      BY <1>5 DEF WriterTest, readerVars, sharedVars, TypeOK, BufferTypes, SharedTypes,
                  OutputTypes, OutputInv, HandOverInv, ReaderInv, ReaderHoldsChunk, Deposited,
                  Buffers
    <2>5. SleepInv'
      BY <1>5 DEF WriterTest, readerVars, sharedVars, TypeOK, ThreadTypes, SharedTypes,
                  SleepInv, MutexFree
    <2>6. MainInv'
      BY <1>5 DEF WriterTest, readerVars, sharedVars, TypeOK, ThreadTypes, SharedTypes, MainInv,
                  Succeeded
    <2>7. UsbInv'
      BY <1>5 DEF WriterTest, readerVars, sharedVars, TypeOK, SharedTypes, OutputTypes, UsbInv,
                  UsbAccounting
    <2> QED
      BY <2>1, <2>2, <2>3, <2>4, <2>5, <2>6, <2>7
  <1>6. CASE WriteChunk
    <2>1. TypeOK'
      <3>1. ThreadTypes'
        BY <1>6 DEF WriteChunk, Store, FailToStore, MayStore, RemainingAfterError, readerVars,
                    TypeOK, ThreadTypes
      <3>2. BufferTypes'
        BY <1>6 DEF WriteChunk, Store, FailToStore, MayStore, RemainingAfterError, readerVars,
                    TypeOK, BufferTypes, Buffers, OtherBuffer, ReaderInv
      <3>3. SharedTypes'
        <4>1. CASE Store
          BY <4>1, <1>6 DEF WriteChunk, Store, TypeOK, SharedTypes
        <4>2. CASE FailToStore
          BY <4>2, <1>6 DEF WriteChunk, FailToStore, TypeOK, SharedTypes
        <4> QED
          BY <4>1, <4>2, <1>6 DEF WriteChunk
      <3>4. OutputTypes'
        <4>1. CASE Store
          <5>1. output' \in Seq(1..NumChunks)
            <6>1. CASE data_size = 0
              BY <6>1, <4>1 DEF Store, TypeOK, OutputTypes
            <6>2. CASE data_size = 1
              <7>1. content[data] \in 1..NumChunks
                BY <6>2 DEF TypeOK, BufferTypes, Buffers, SharedTypes, HandOverInv, OutputInv,
                            Deposited,
                            OutputTypes, ReaderInv
              <7>2. output' = Append(output, content[data])
                BY <6>2, <4>1 DEF Store
              <7> QED
                BY <7>1, <7>2 DEF TypeOK, OutputTypes
            <6> QED
              BY <6>1, <6>2 DEF TypeOK, SharedTypes
          <5>2. usbRemaining' \in 0..NumChunks
            BY <4>1 DEF Store, MayStore, TypeOK, SharedTypes, OutputTypes
          <5> QED
            BY <5>1, <5>2, <1>6 DEF WriteChunk, TypeOK, OutputTypes
        <4>2. CASE FailToStore
          BY <4>2, <1>6 DEF WriteChunk, FailToStore, RemainingAfterError, TypeOK, OutputTypes
        <4> QED
          BY <4>1, <4>2, <1>6 DEF WriteChunk
      <3> QED
        BY <3>1, <3>2, <3>3, <3>4 DEF TypeOK
    <2>2. ReaderInv'
      BY <1>6 DEF WriteChunk, Store, FailToStore, MayStore, RemainingAfterError, readerVars,
                  TypeOK, BufferTypes, SharedTypes, Buffers, ReaderInv, ReaderHoldsChunk
    <2>3. HandOverInv'
      BY <1>6 DEF WriteChunk, Store, FailToStore, MayStore, RemainingAfterError, readerVars,
                  TypeOK, BufferTypes, SharedTypes, Buffers, HandOverInv, OtherBuffer,
                  ReaderInv, ReaderHoldsChunk, Deposited
    <2>4. OutputInv'
      <3>1. Deposited' = Deposited /\ Deposited \in Nat
        BY <1>6 DEF WriteChunk, readerVars, TypeOK, BufferTypes, Deposited
      <3>2. CASE Store /\ data_size = 1
        <4>1. output' = Append(output, content[data]) /\ data_size' = 0 /\ data_written' = data_written + 1
          BY <3>2 DEF Store
        <4>2. content[data] = Deposited
          BY <3>2 DEF HandOverInv
        <4>3. /\ output \in Seq(Nat) /\ data_written = Len(output) /\ Len(output) + 1 <= Deposited
              /\ \A i \in 1..Len(output) :
                    i <= output[i] /\ output[i] + (Len(output) - i) + 1 <= Deposited
          BY <3>2 DEF OutputInv, TypeOK, OutputTypes
        <4>4. /\ Len(output') = Len(output) + 1
              /\ \A i \in 1..Len(output) : output'[i] = output[i]
              /\ output'[Len(output) + 1] = Deposited
          BY <3>1, <4>1, <4>2, <4>3
        <4>5. ASSUME NEW i \in 1..Len(output')
              PROVE  i <= output'[i] /\ output'[i] + (Len(output') - i) + data_size' <= Deposited'
          BY <3>1, <4>1, <4>3, <4>4
        <4> QED
          BY <3>1, <4>1, <4>3, <4>4, <4>5 DEF OutputInv
      <3>3. CASE (Store /\ data_size = 0) \/ FailToStore
        <4>1. output' = output /\ data_written' = data_written /\ data_size' = data_size
          BY <3>3 DEF Store, FailToStore, TypeOK, SharedTypes
        <4> QED
          BY <3>1, <4>1 DEF OutputInv
      <3> QED
        BY <3>2, <3>3, <1>6 DEF WriteChunk, TypeOK, SharedTypes
    <2>5. SleepInv'
      BY <1>6 DEF WriteChunk, Store, FailToStore, MayStore, RemainingAfterError, readerVars,
                  TypeOK, ThreadTypes, SharedTypes, SleepInv, MutexFree
    <2>6. MainInv'
      BY <1>6 DEF WriteChunk, Store, FailToStore, MayStore, RemainingAfterError, readerVars,
                  TypeOK, ThreadTypes, SharedTypes, MainInv, Succeeded
    <2>7. UsbInv'
      BY <1>6 DEF WriteChunk, Store, FailToStore, MayStore, RemainingAfterError, readerVars,
                  TypeOK, SharedTypes, OutputTypes, UsbInv, UsbAccounting
    <2> QED
      BY <2>1, <2>2, <2>3, <2>4, <2>5, <2>6, <2>7
  <1>7. CASE WriterWake
    <2>1. TypeOK'
      <3>1. ThreadTypes'
        BY <1>7 DEF WriterWake, WakeReader, sharedVars, outputVars, TypeOK, ThreadTypes
      <3>2. BufferTypes'
        BY <1>7 DEF WriterWake, WakeReader, sharedVars, outputVars, TypeOK, BufferTypes,
                    Buffers, OtherBuffer, ReaderInv
      <3>3. SharedTypes'
        BY <1>7 DEF WriterWake, WakeReader, sharedVars, outputVars, TypeOK, SharedTypes,
                    BufferTypes, Buffers
      <3>4. OutputTypes'
        BY <1>7 DEF WriterWake, WakeReader, sharedVars, outputVars, TypeOK, OutputTypes,
                    SharedTypes
      <3> QED
        BY <3>1, <3>2, <3>3, <3>4 DEF TypeOK
    <2>2. ReaderInv'
      BY <1>7 DEF WriterWake, WakeReader, sharedVars, outputVars, TypeOK, BufferTypes,
                  SharedTypes, Buffers, ReaderInv, ReaderHoldsChunk
    <2>3. HandOverInv'
      BY <1>7 DEF WriterWake, WakeReader, sharedVars, outputVars, TypeOK, BufferTypes,
                  SharedTypes, Buffers, HandOverInv, OtherBuffer, ReaderInv, ReaderHoldsChunk,
                  Deposited
    <2>4. OutputInv'
      BY <1>7 DEF WriterWake, WakeReader, sharedVars, outputVars, TypeOK, BufferTypes,
                  SharedTypes, OutputTypes, OutputInv, HandOverInv, ReaderInv, ReaderHoldsChunk,
                  Deposited, Buffers
    <2>5. SleepInv'
      BY <1>7 DEF WriterWake, WakeReader, sharedVars, outputVars, TypeOK, ThreadTypes,
                  SharedTypes, SleepInv, MutexFree
    <2>6. MainInv'
      BY <1>7 DEF WriterWake, WakeReader, sharedVars, outputVars, TypeOK, ThreadTypes,
                  SharedTypes, MainInv, Succeeded
    <2>7. UsbInv'
      BY <1>7 DEF WriterWake, WakeReader, sharedVars, outputVars, TypeOK, SharedTypes,
                  OutputTypes, UsbInv, UsbAccounting
    <2> QED
      BY <2>1, <2>2, <2>3, <2>4, <2>5, <2>6, <2>7
  <1> QED
    BY <1>1, <1>2, <1>3, <1>4, <1>5, <1>6, <1>7 DEF Writer

LEMMA MainPreserves == IInv /\ Main => IInv'
  <1> SUFFICES ASSUME IInv, Main PROVE IInv'
    OBVIOUS
  <1> USE DumpAssumption DEF IInv
  <1>1. CASE MainDecidesToCancel
    <2>1. TypeOK'
      <3>1. ThreadTypes'
        BY <1>1 DEF MainDecidesToCancel, readerVars, sharedVars, outputVars, TypeOK, ThreadTypes
      <3>2. BufferTypes'
        BY <1>1 DEF MainDecidesToCancel, readerVars, sharedVars, outputVars, TypeOK,
                    BufferTypes, Buffers, OtherBuffer, ReaderInv
      <3>3. SharedTypes'
        BY <1>1 DEF MainDecidesToCancel, readerVars, sharedVars, outputVars, TypeOK,
                    SharedTypes, BufferTypes, Buffers
      <3>4. OutputTypes'
        BY <1>1 DEF MainDecidesToCancel, readerVars, sharedVars, outputVars, TypeOK,
                    OutputTypes, SharedTypes
      <3> QED
        BY <3>1, <3>2, <3>3, <3>4 DEF TypeOK
    <2>2. ReaderInv'
      BY <1>1 DEF MainDecidesToCancel, readerVars, sharedVars, outputVars, TypeOK, BufferTypes,
                  SharedTypes, Buffers, ReaderInv, ReaderHoldsChunk
    <2>3. HandOverInv'
      BY <1>1 DEF MainDecidesToCancel, readerVars, sharedVars, outputVars, TypeOK, BufferTypes,
                  SharedTypes, Buffers, HandOverInv, OtherBuffer, ReaderInv, ReaderHoldsChunk,
                  Deposited
    <2>4. OutputInv'
      BY <1>1 DEF MainDecidesToCancel, readerVars, sharedVars, outputVars, TypeOK, BufferTypes,
                  SharedTypes, OutputTypes, OutputInv, HandOverInv, ReaderInv, ReaderHoldsChunk,
                  Deposited, Buffers
    <2>5. SleepInv'
      BY <1>1 DEF MainDecidesToCancel, readerVars, sharedVars, outputVars, TypeOK, ThreadTypes,
                  SharedTypes, SleepInv, MutexFree
    <2>6. MainInv'
      BY <1>1 DEF MainDecidesToCancel, readerVars, sharedVars, outputVars, TypeOK, ThreadTypes,
                  SharedTypes, MainInv, Succeeded
    <2>7. UsbInv'
      BY <1>1 DEF MainDecidesToCancel, readerVars, sharedVars, outputVars, TypeOK, SharedTypes,
                  OutputTypes, UsbInv, UsbAccounting
    <2> QED
      BY <2>1, <2>2, <2>3, <2>4, <2>5, <2>6, <2>7
  <1>2. CASE MainCancels
    <2>1. TypeOK'
      <3>1. ThreadTypes'
        BY <1>2 DEF MainCancels, readerVars, outputVars, TypeOK, ThreadTypes
      <3>2. BufferTypes'
        BY <1>2 DEF MainCancels, readerVars, outputVars, TypeOK, BufferTypes, Buffers,
                    OtherBuffer, ReaderInv
      <3>3. SharedTypes'
        BY <1>2 DEF MainCancels, readerVars, outputVars, TypeOK, SharedTypes, BufferTypes,
                    Buffers
      <3>4. OutputTypes'
        BY <1>2 DEF MainCancels, readerVars, outputVars, TypeOK, OutputTypes, SharedTypes
      <3> QED
        BY <3>1, <3>2, <3>3, <3>4 DEF TypeOK
    <2>2. ReaderInv'
      BY <1>2 DEF MainCancels, readerVars, outputVars, TypeOK, BufferTypes, SharedTypes,
                  Buffers, ReaderInv, ReaderHoldsChunk
    <2>3. HandOverInv'
      BY <1>2 DEF MainCancels, readerVars, outputVars, TypeOK, BufferTypes, SharedTypes,
                  Buffers, HandOverInv, OtherBuffer, ReaderInv, ReaderHoldsChunk, Deposited
    <2>4. OutputInv'
      BY <1>2 DEF MainCancels, readerVars, outputVars, TypeOK, BufferTypes, SharedTypes,
                  OutputTypes, OutputInv, HandOverInv, ReaderInv, ReaderHoldsChunk, Deposited,
                  Buffers
    <2>5. SleepInv'
      BY <1>2 DEF MainCancels, readerVars, outputVars, TypeOK, ThreadTypes, SharedTypes,
                  SleepInv, MutexFree
    <2>6. MainInv'
      BY <1>2 DEF MainCancels, readerVars, outputVars, TypeOK, ThreadTypes, SharedTypes,
                  MainInv, Succeeded
    <2>7. UsbInv'
      BY <1>2 DEF MainCancels, readerVars, outputVars, TypeOK, SharedTypes, OutputTypes, UsbInv,
                  UsbAccounting
    <2> QED
      BY <2>1, <2>2, <2>3, <2>4, <2>5, <2>6, <2>7
  <1>3. CASE MainLeaves
    <2>1. TypeOK'
      <3>1. ThreadTypes'
        BY <1>3 DEF MainLeaves, readerVars, sharedVars, outputVars, TypeOK, ThreadTypes
      <3>2. BufferTypes'
        BY <1>3 DEF MainLeaves, readerVars, sharedVars, outputVars, TypeOK, BufferTypes,
                    Buffers, OtherBuffer, ReaderInv
      <3>3. SharedTypes'
        BY <1>3 DEF MainLeaves, readerVars, sharedVars, outputVars, TypeOK, SharedTypes,
                    BufferTypes, Buffers
      <3>4. OutputTypes'
        BY <1>3 DEF MainLeaves, readerVars, sharedVars, outputVars, TypeOK, OutputTypes,
                    SharedTypes
      <3> QED
        BY <3>1, <3>2, <3>3, <3>4 DEF TypeOK
    <2>2. ReaderInv'
      BY <1>3 DEF MainLeaves, readerVars, sharedVars, outputVars, TypeOK, BufferTypes,
                  SharedTypes, Buffers, ReaderInv, ReaderHoldsChunk
    <2>3. HandOverInv'
      BY <1>3 DEF MainLeaves, readerVars, sharedVars, outputVars, TypeOK, BufferTypes,
                  SharedTypes, Buffers, HandOverInv, OtherBuffer, ReaderInv, ReaderHoldsChunk,
                  Deposited
    <2>4. OutputInv'
      BY <1>3 DEF MainLeaves, readerVars, sharedVars, outputVars, TypeOK, BufferTypes,
                  SharedTypes, OutputTypes, OutputInv, HandOverInv, ReaderInv, ReaderHoldsChunk,
                  Deposited, Buffers
    <2>5. SleepInv'
      BY <1>3 DEF MainLeaves, readerVars, sharedVars, outputVars, TypeOK, ThreadTypes,
                  SharedTypes, SleepInv, MutexFree
    <2>6. MainInv'
      BY <1>3 DEF MainLeaves, readerVars, sharedVars, outputVars, TypeOK, ThreadTypes,
                  SharedTypes, MainInv, Succeeded
    <2>7. UsbInv'
      BY <1>3 DEF MainLeaves, readerVars, sharedVars, outputVars, TypeOK, SharedTypes,
                  OutputTypes, UsbInv, UsbAccounting
    <2> QED
      BY <2>1, <2>2, <2>3, <2>4, <2>5, <2>6, <2>7
  <1>4. CASE MainJoins
    <2>1. TypeOK'
      <3>1. ThreadTypes'
        BY <1>4 DEF MainJoins, Succeeded, readerVars, sharedVars, outputVars, TypeOK,
                    ThreadTypes
      <3>2. BufferTypes'
        BY <1>4 DEF MainJoins, Succeeded, readerVars, sharedVars, outputVars, TypeOK,
                    BufferTypes, Buffers, OtherBuffer, ReaderInv
      <3>3. SharedTypes'
        BY <1>4 DEF MainJoins, Succeeded, readerVars, sharedVars, outputVars, TypeOK,
                    SharedTypes, BufferTypes, Buffers
      <3>4. OutputTypes'
        BY <1>4 DEF MainJoins, Succeeded, readerVars, sharedVars, outputVars, TypeOK,
                    OutputTypes, SharedTypes
      <3> QED
        BY <3>1, <3>2, <3>3, <3>4 DEF TypeOK
    <2>2. ReaderInv'
      BY <1>4 DEF MainJoins, Succeeded, readerVars, sharedVars, outputVars, TypeOK, BufferTypes,
                  SharedTypes, Buffers, ReaderInv, ReaderHoldsChunk
    <2>3. HandOverInv'
      BY <1>4 DEF MainJoins, Succeeded, readerVars, sharedVars, outputVars, TypeOK, BufferTypes,
                  SharedTypes, Buffers, HandOverInv, OtherBuffer, ReaderInv, ReaderHoldsChunk,
                  Deposited
    <2>4. OutputInv'
      BY <1>4 DEF MainJoins, Succeeded, readerVars, sharedVars, outputVars, TypeOK, BufferTypes,
                  SharedTypes, OutputTypes, OutputInv, HandOverInv, ReaderInv, ReaderHoldsChunk,
                  Deposited, Buffers
    <2>5. SleepInv'
      BY <1>4 DEF MainJoins, Succeeded, readerVars, sharedVars, outputVars, TypeOK, ThreadTypes,
                  SharedTypes, SleepInv, MutexFree
    <2>6. MainInv'
      BY <1>4 DEF MainJoins, Succeeded, readerVars, sharedVars, outputVars, TypeOK, ThreadTypes,
                  SharedTypes, MainInv
    <2>7. UsbInv'
      BY <1>4 DEF MainJoins, Succeeded, readerVars, sharedVars, outputVars, TypeOK, SharedTypes,
                  OutputTypes, UsbInv, UsbAccounting
    <2> QED
      BY <2>1, <2>2, <2>3, <2>4, <2>5, <2>6, <2>7
  <1> QED
    BY <1>1, <1>2, <1>3, <1>4 DEF Main

THEOREM Inductive == IInv /\ [Next]_vars => IInv'
  <1> SUFFICES ASSUME IInv, [Next]_vars PROVE IInv'
    OBVIOUS
  <1>1. CASE Next
    BY <1>1, ReaderPreserves, WriterPreserves, MainPreserves DEF Next
  <1>2. CASE UNCHANGED vars
    <2> USE <1>2 DEF IInv, vars, readerVars, sharedVars, outputVars
    <2>1. TypeOK'
      BY DEF TypeOK, ThreadTypes, BufferTypes, SharedTypes, OutputTypes
    <2>2. ReaderInv' /\ HandOverInv' /\ OutputInv'
      BY DEF ReaderInv, ReaderHoldsChunk, HandOverInv, OutputInv, Deposited
    <2>3. SleepInv' /\ MainInv' /\ UsbInv'
      BY DEF SleepInv, MainInv, Succeeded, UsbInv, UsbAccounting
    <2> QED
      BY <2>1, <2>2, <2>3
  <1> QED
    BY <1>1, <1>2

THEOREM InvariantHolds == Spec => []IInv
  BY InitInv, Inductive, PTL DEF Spec

\* Every variable keeps to its type.
THEOREM TypeCorrect == Spec => []TypeOK
  BY InvariantHolds, PTL DEF IInv

\* The reader never fills the buffer being sent.
THEOREM BufferRaceFree == Spec => []NoBufferRace
  <1>1. IInv => NoBufferRace
    BY DEF IInv, TypeOK, BufferTypes, SharedTypes, Buffers, HandOverInv, OtherBuffer, NoBufferRace
  <1> QED
    BY <1>1, InvariantHolds, PTL

\* Reader and writer never sleep at once.
THEOREM NeverBothAsleep == Spec => []NoMutualSleep
  <1>1. IInv => NoMutualSleep
    BY DEF IInv, SleepInv, NoMutualSleep
  <1> QED
    BY <1>1, InvariantHolds, PTL

\* Console and host agree on what is left of an open transfer.
THEOREM UsbAgreement == Spec => []UsbAccounting
  <1>1. IInv => UsbAccounting
    BY DEF IInv, UsbInv
  <1> QED
    BY <1>1, InvariantHolds, PTL

\* Everything handed over has been written and nothing was lost: the output is the whole source.
LEMMA AllWritten ==
  ASSUME IInv, data_written >= NumChunks
  PROVE  output = Service!WholeSource
  <1> USE DumpAssumption DEF IInv, TypeOK, BufferTypes, SharedTypes, OutputTypes
  <1>1. Deposited \in 0..NumChunks
    BY DEF Deposited, ReaderInv
  <1>2. Len(output) = NumChunks /\ Deposited = NumChunks /\ data_size = 0
    BY <1>1 DEF OutputInv
  <1>3. \A i \in 1..NumChunks : output[i] = i
    BY <1>2 DEF OutputInv
  <1>4. output = [i \in 1..NumChunks |-> i]
    BY <1>2, <1>3
  <1> QED
    BY <1>4 DEF Service!WholeSource

\* The checksum shown for a successful dump is the output's.
THEOREM ChecksumOfSuccess == Spec => []SuccessMatchesChecksum
  <1>1. IInv => SuccessMatchesChecksum
    <2> SUFFICES ASSUME IInv, mpc = "done", success PROVE crc = output
      BY DEF SuccessMatchesChecksum
    <2> USE DEF IInv
    <2>1. data_written >= NumChunks /\ ~write_error /\ rpc = "done"
      BY DEF MainInv, Succeeded
    <2>2. output = [i \in 1..NumChunks |-> i]
      BY <2>1, AllWritten DEF Service!WholeSource
    <2>3. Len(crc) = NumChunks
      <3>1. NumChunks \in Nat /\ offset \in 0..NumChunks
        BY DumpAssumption DEF TypeOK, BufferTypes
      <3>2. Len(crc) = offset
        BY <2>1 DEF ReaderInv
      <3>3. Len(output) = NumChunks
        BY <2>2, <3>1
      <3>4. Len(output) + data_size <= offset
        BY <2>1 DEF OutputInv, Deposited
      <3> QED
        BY <3>1, <3>2, <3>3, <3>4 DEF TypeOK, SharedTypes
    <2>4. crc = [i \in 1..NumChunks |-> i]
      BY <2>3 DEF ReaderInv, TypeOK, BufferTypes
    <2> QED
      BY <2>2, <2>4
  <1> QED
    BY <1>1, InvariantHolds, PTL

LEMMA StepImplements == IInv /\ [Next]_vars => [Service!Next]_<<output, Reported>>
  <1> SUFFICES ASSUME IInv, [Next]_vars PROVE [Service!Next]_<<output, Reported>>
    OBVIOUS
  <1> USE DumpAssumption DEF IInv, Reported
  <1>1. CASE UNCHANGED <<output, mpc, success>>
    BY <1>1
  <1>2. CASE WriteChunk
    <2>1. mpc # "done" /\ mpc' = mpc
      BY <1>2 DEF WriteChunk, MainInv
    <2>2. CASE Store /\ data_size = 1
      <3>1. output' = Append(output, content[data])
        BY <2>2 DEF Store
      <3>2. content[data] = Deposited /\ Deposited \in 0..NumChunks
        BY <2>2 DEF HandOverInv, Deposited, ReaderInv, TypeOK, BufferTypes
      <3>3. Len(output) + 1 <= Deposited /\ \A i \in 1..Len(output) : output[i] < Deposited
        <4>1. output \in Seq(1..NumChunks)
          BY DEF TypeOK, OutputTypes
        <4> QED
          BY <2>2, <3>2, <4>1 DEF OutputInv
      <3>4. Deposited \in 1..NumChunks
        BY <3>2, <3>3 DEF TypeOK, OutputTypes
      <3> QED
        BY <2>1, <3>1, <3>2, <3>3, <3>4 DEF Service!Next, Service!WriteChunk
    <2>3. CASE ~(Store /\ data_size = 1)
      <3>1. output' = output
        BY <1>2, <2>3 DEF WriteChunk, Store, FailToStore, TypeOK, SharedTypes
      <3> QED
        BY <1>2, <2>1, <3>1 DEF WriteChunk
    <2> QED
      BY <2>2, <2>3
  <1>3. CASE MainJoins
    <2>1. mpc # "done" /\ mpc' = "done" /\ output' = output /\ success' = Succeeded
      BY <1>3 DEF MainJoins, outputVars
    <2>2. CASE Succeeded
      <3>1. data_written >= NumChunks
        BY <1>3, <2>2 DEF MainJoins, MainInv, Succeeded
      <3>2. output = Service!WholeSource
        BY <3>1, AllWritten
      <3> QED
        BY <2>1, <2>2, <3>2 DEF Service!Next, Service!Succeed
    <2>3. CASE ~Succeeded
      BY <2>1, <2>3 DEF Service!Next, Service!Fail
    <2> QED
      BY <2>2, <2>3
  <1>4. CASE Reader \/ WriterLoop \/ WriterLock \/ WriterSleep \/ WriterResume \/ WriterTest \/ WriterWake
    <2>1. UNCHANGED <<output, mpc, success>>
      BY <1>4 DEF Reader, ReaderStart, ReaderLoop, ReadChunk, ReaderAbort, ReaderLock, ReaderResume,
                  ReaderWake, WriterLoop, WriterLock, WriterSleep, WriterResume, WriterTest, WriterWake,
                  outputVars
    <2> QED
      BY <2>1, <1>1
  <1>5. CASE MainDecidesToCancel \/ MainCancels \/ MainLeaves
    <2>1. mpc # "done" /\ mpc' # "done" /\ output' = output
      BY <1>5 DEF MainDecidesToCancel, MainCancels, MainLeaves, outputVars
    <2> QED
      BY <2>1
  <1>6. CASE UNCHANGED vars
    BY <1>6, <1>1 DEF vars, outputVars
  <1> QED
    BY <1>2, <1>3, <1>4, <1>5, <1>6 DEF Next, Writer, Main

\* The threads, buffers and locks implement the service: for any number of chunks, on either storage
\* and whatever fails, "success" means a complete output, in source order, without repetition.
THEOREM PipelineImplementsService == Spec => ImplementsService
  <1>1. Init => Service!Init
    BY DEF Init, Service!Init, Reported
  <1>2. IInv /\ [Next]_vars => [Service!Next]_<<output, Reported>>
    BY StepImplements
  <1> QED
    BY <1>1, <1>2, InvariantHolds, PTL DEF Spec, ImplementsService, Service!Spec, Reported
=============================================================================
