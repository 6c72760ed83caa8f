---------------------------- MODULE DumpService ----------------------------
(***************************************************************************)
(* What a dump promises to whoever started it: the output file only ever   *)
(* grows, by chunks taken from the source in source order; once an outcome *)
(* is reported nothing more is written; and "success" is reported only for *)
(* an output that holds every chunk.  Nothing is said of threads, buffers, *)
(* locks or of the storage the output lives on.                            *)
(***************************************************************************)
EXTENDS Naturals, Sequences

CONSTANT NumChunks   \* chunks in the source

VARIABLES output,    \* the chunks stored so far
          result     \* what was reported: "running", "success" or "failure"

WholeSource == [i \in 1..NumChunks |-> i]

Init == output = <<>> /\ result = "running"

\* A chunk may be skipped (the dump can then no longer succeed), never repeated or reordered.
WriteChunk == /\ result = "running"
              /\ \E c \in 1..NumChunks :
                    /\ \A i \in 1..Len(output) : output[i] < c
                    /\ output' = Append(output, c)
              /\ UNCHANGED result

Succeed == result = "running" /\ output = WholeSource /\ result' = "success" /\ UNCHANGED output

Fail == result = "running" /\ result' = "failure" /\ UNCHANGED output

Next == WriteChunk \/ Succeed \/ Fail

Spec == Init /\ [][Next]_<<output, result>>
=============================================================================
