------------------------ MODULE DownloadTaskProofs ------------------------
(***************************************************************************)
(* Proofs about DownloadTask, for any number of chunks and any faults.  The *)
(* invariant ties the state of the future to the task's thread, the result  *)
(* to what is left of the download, and what the listeners know to both.    *)
(***************************************************************************)
EXTENDS DownloadTask, TLAPS

\* The future follows the thread, and the status follows the future.
FutureInv ==
  /\ tpc = "none" <=> m_future = "none"
  /\ m_future \in {"ready", "taken"} => tpc = "exited"
  /\ tpc = "exited" => m_future \in {"ready", "taken"} \/ upc = "lost"
  /\ m_status = "FINISHED" <=> m_future = "taken"
  /\ m_future \in {"running", "ready"} => m_status = "RUNNING"
  /\ m_status = "PENDING" => m_future = "none"
  /\ upc = "new" => m_status = "PENDING"

\* A result is there once the thread has returned, and tells what is left of the download.
ResultInv ==
  /\ tpc \in {"none", "begin"} => received = 0 /\ output = "none" /\ result = "none"
  /\ tpc = "transfer" => received < Chunks
  /\ tpc \in {"report", "publish", "succeeded"} /\ received = Chunks => output = "whole"
  /\ tpc = "succeeded" => received = Chunks
  /\ result # "none" => tpc \in {"return", "exited"}
  /\ tpc = "return" \/ m_future \in {"ready", "taken"} => result # "none"
  /\ result = "ok" => /\ received = Chunks
                      /\ output = "whole" \/ (task = "file" /\ unnoticed = "flush")
  /\ result = "failed" => output = "none" \/ (task = "file" /\ unnoticed = "remove")
  /\ tpc = "succeeded" \/ result = "ok" => m_cancelled \/ m_progress = Chunks

\* What was told is the result of a task that was not cancelled.
ToldInv ==
  /\ told # {} => m_status = "FINISHED" /\ ~m_cancelled /\ told = {result}
  /\ m_status = "FINISHED" /\ ~m_cancelled /\ result = "ok" => told = {"ok"}

IInv == TypeOK /\ FutureInv /\ ResultInv /\ ToldInv /\ ThreadNeverOutlives

-----------------------------------------------------------------------------
\* The invariant holds of the state in which a view has made its task.
LEMMA InitInv == ASSUME DownloadAssumption, Init
                 PROVE  IInv
<1>1. TypeOK
  <2>1. 0 \in 0..Chunks
    BY DEF DownloadAssumption
  <2> QED
    BY <2>1 DEF Init, TypeOK
<1> QED
  BY <1>1 DEF Init, IInv, FutureInv, ResultInv, ToldInv, ThreadNeverOutlives

\* Every step keeps the types; a chunk is received only while one is missing.
LEMMA TypeStep == ASSUME DownloadAssumption, TypeOK, ResultInv, [Next]_vars
                  PROVE  TypeOK'
<1> USE DEF TypeOK, DownloadAssumption, vars, fixedVars, taskVars, threadVars, uiVars
<1>1. CASE ThreadBegins
  <2>1. m_cancelled' \in BOOLEAN /\ m_exceptionPtr' \in BOOLEAN
    BY <1>1, Zenon DEF ThreadBegins
  <2> QED
    BY <1>1, <2>1 DEF ThreadBegins
<1>2. CASE ThreadBeginsTooLate
  BY <1>2 DEF ThreadBeginsTooLate, Destructing
<1>3. CASE Receive
  BY <1>3 DEF Receive
<1>4. CASE RequestFails
  BY <1>4 DEF RequestFails
<1>5. CASE HttpProgressCallback
  BY <1>5 DEF HttpProgressCallback, StopsForCancel
<1>6. CASE PublishProgress
  BY <1>6 DEF PublishProgress, Current
<1>7. CASE EndRequest
  BY <1>7 DEF EndRequest, OutputSettled, LastBytesLost, NotRemoved, Remains
<1>8. CASE ThreadReturns
  BY <1>8 DEF ThreadReturns
<1>9. CASE Execute
  <2>1. longRunning' \in BOOLEAN
    BY <1>9, Zenon DEF Execute
  <2> QED
    BY <1>9, <2>1 DEF Execute
<1>10. CASE UpdateProgress /\ UNCHANGED <<fixedVars, threadVars>>
  BY <1>10 DEF UpdateProgress
<1>11. CASE FinishCancelled /\ UNCHANGED <<fixedVars, threadVars>>
  BY <1>11 DEF FinishCancelled
<1>12. CASE HandlerRuns /\ FinishExecuted
  <2>1. finished' \in BOOLEAN /\ longRunning' \in BOOLEAN
    BY <1>12, Zenon DEF FinishExecuted
  <2>2. told' \subseteq {"ok", "failed"}
    BY <1>12 DEF FinishExecuted, ResultInv
  <2>3. prev_current' \in 0..Chunks
    BY <1>12 DEF FinishExecuted
  <2> QED
    BY <1>12, <2>1, <2>2, <2>3 DEF HandlerRuns, FinishExecuted
<1>13. CASE Cancel
  <2>1. m_cancelled' \in BOOLEAN
    BY <1>13, Zenon DEF Cancel, Cancelled
  <2> QED
    BY <1>13, <2>1 DEF Cancel
<1>14. CASE CancelPending
  <2>1. m_cancelled' \in BOOLEAN
    BY <1>14, Zenon DEF CancelPending, Cancelled
  <2> QED
    BY <1>14, <2>1 DEF CancelPending
<1>15. CASE DestroyDownloadTask
  BY <1>15 DEF DestroyDownloadTask
<1>16. CASE DestroyAsyncTask
  BY <1>16 DEF DestroyAsyncTask, MustWait
<1>17. CASE DestructorWaits
  BY <1>17 DEF DestructorWaits
<1>18. CASE UNCHANGED vars
  BY <1>18
<1> QED
  BY <1>1, <1>2, <1>3, <1>4, <1>5, <1>6, <1>7, <1>8, <1>9,
     <1>10, <1>11, <1>12, <1>13, <1>14, <1>15, <1>16, <1>17, <1>18 DEF Next, TaskThread, HandlerRuns

\* The future, the thread and the status change together, or in this order.
LEMMA FutureStep == ASSUME DownloadAssumption, TypeOK, FutureInv, ThreadNeverOutlives, [Next]_vars
                    PROVE  (FutureInv /\ ThreadNeverOutlives)'
<1> USE DEF TypeOK, FutureInv, ThreadNeverOutlives, vars, fixedVars, taskVars, threadVars, uiVars
<1>1. CASE ThreadBegins
  BY <1>1 DEF ThreadBegins, Destructing
<1>2. CASE ThreadBeginsTooLate
  BY <1>2 DEF ThreadBeginsTooLate, Destructing
<1>3. CASE Receive
  BY <1>3 DEF Receive
<1>4. CASE RequestFails
  BY <1>4 DEF RequestFails
<1>5. CASE HttpProgressCallback
  BY <1>5 DEF HttpProgressCallback, StopsForCancel
<1>6. CASE PublishProgress
  BY <1>6 DEF PublishProgress, Current
<1>7. CASE EndRequest
  BY <1>7 DEF EndRequest, OutputSettled, LastBytesLost, NotRemoved, Remains
<1>8. CASE ThreadReturns
  BY <1>8 DEF ThreadReturns
<1>9. CASE Execute
  BY <1>9 DEF Execute
<1>10. CASE UpdateProgress /\ UNCHANGED <<fixedVars, threadVars>>
  BY <1>10 DEF UpdateProgress
<1>11. CASE FinishCancelled /\ UNCHANGED <<fixedVars, threadVars>>
  BY <1>11 DEF FinishCancelled
<1>12. CASE HandlerRuns /\ FinishExecuted
  BY <1>12 DEF HandlerRuns, FinishExecuted, MayTell, HasProgress, Incomplete, NestedLoopCallback
<1>13. CASE Cancel
  BY <1>13 DEF Cancel, Cancelled
<1>14. CASE CancelPending
  BY <1>14 DEF CancelPending, Cancelled
<1>15. CASE DestroyDownloadTask
  BY <1>15 DEF DestroyDownloadTask
<1>16. CASE DestroyAsyncTask
  BY <1>16 DEF DestroyAsyncTask, MustWait
<1>17. CASE DestructorWaits
  BY <1>17 DEF DestructorWaits
<1>18. CASE UNCHANGED vars
  BY <1>18
<1> QED
  BY <1>1, <1>2, <1>3, <1>4, <1>5, <1>6, <1>7, <1>8, <1>9,
     <1>10, <1>11, <1>12, <1>13, <1>14, <1>15, <1>16, <1>17, <1>18 DEF Next, TaskThread, HandlerRuns

\* What is left of the download is settled before the result is.
LEMMA ResultStep == ASSUME DownloadAssumption, TypeOK, FutureInv, ResultInv, [Next]_vars
                    PROVE  ResultInv'
<1> USE DEF TypeOK, FutureInv, ResultInv, DownloadAssumption, vars, fixedVars, taskVars, threadVars, uiVars
<1>1. CASE ThreadBegins
  BY <1>1 DEF ThreadBegins, Destructing
<1>2. CASE ThreadBeginsTooLate
  BY <1>2 DEF ThreadBeginsTooLate, Destructing
<1>3. CASE Receive
  BY <1>3 DEF Receive
<1>4. CASE RequestFails
  BY <1>4 DEF RequestFails
<1>5. CASE HttpProgressCallback
  BY <1>5 DEF HttpProgressCallback, StopsForCancel
<1>6. CASE PublishProgress
  BY <1>6 DEF PublishProgress, Current
<1>7. CASE EndRequest
  BY <1>7 DEF EndRequest, OutputSettled, LastBytesLost, NotRemoved, Remains
<1>8. CASE ThreadReturns
  BY <1>8 DEF ThreadReturns
<1>9. CASE Execute
  BY <1>9 DEF Execute
<1>10. CASE UpdateProgress /\ UNCHANGED <<fixedVars, threadVars>>
  BY <1>10 DEF UpdateProgress
<1>11. CASE FinishCancelled /\ UNCHANGED <<fixedVars, threadVars>>
  BY <1>11 DEF FinishCancelled
<1>12. CASE HandlerRuns /\ FinishExecuted
  BY <1>12 DEF HandlerRuns, FinishExecuted, MayTell, HasProgress, Incomplete, NestedLoopCallback
<1>13. CASE Cancel
  BY <1>13 DEF Cancel, Cancelled
<1>14. CASE CancelPending
  BY <1>14 DEF CancelPending, Cancelled
<1>15. CASE DestroyDownloadTask
  BY <1>15 DEF DestroyDownloadTask
<1>16. CASE DestroyAsyncTask
  BY <1>16 DEF DestroyAsyncTask, MustWait
<1>17. CASE DestructorWaits
  BY <1>17 DEF DestructorWaits
<1>18. CASE UNCHANGED vars
  BY <1>18
<1> QED
  BY <1>1, <1>2, <1>3, <1>4, <1>5, <1>6, <1>7, <1>8, <1>9,
     <1>10, <1>11, <1>12, <1>13, <1>14, <1>15, <1>16, <1>17, <1>18 DEF Next, TaskThread, HandlerRuns

\* Only finish() tells, and nothing changes what was told once it has.
LEMMA ToldStep == ASSUME DownloadAssumption, TypeOK, FutureInv, ResultInv, ToldInv, [Next]_vars
                  PROVE  ToldInv'
<1> USE DEF TypeOK, FutureInv, ResultInv, ToldInv, DownloadAssumption, vars, fixedVars, taskVars, threadVars, uiVars
<1>1. CASE ThreadBegins
  BY <1>1 DEF ThreadBegins, Destructing
<1>2. CASE ThreadBeginsTooLate
  BY <1>2 DEF ThreadBeginsTooLate, Destructing
<1>3. CASE Receive
  BY <1>3 DEF Receive
<1>4. CASE RequestFails
  BY <1>4 DEF RequestFails
<1>5. CASE HttpProgressCallback
  BY <1>5 DEF HttpProgressCallback, StopsForCancel
<1>6. CASE PublishProgress
  BY <1>6 DEF PublishProgress, Current
<1>7. CASE EndRequest
  BY <1>7 DEF EndRequest, OutputSettled, LastBytesLost, NotRemoved, Remains
<1>8. CASE ThreadReturns
  BY <1>8 DEF ThreadReturns
<1>9. CASE Execute
  BY <1>9 DEF Execute
<1>10. CASE UpdateProgress /\ UNCHANGED <<fixedVars, threadVars>>
  BY <1>10 DEF UpdateProgress
<1>11. CASE FinishCancelled /\ UNCHANGED <<fixedVars, threadVars>>
  BY <1>11 DEF FinishCancelled
<1>12. CASE HandlerRuns /\ FinishExecuted
  BY <1>12 DEF HandlerRuns, FinishExecuted, MayTell, HasProgress, Incomplete, NestedLoopCallback
<1>13. CASE Cancel
  BY <1>13 DEF Cancel, Cancelled
<1>14. CASE CancelPending
  BY <1>14 DEF CancelPending, Cancelled
<1>15. CASE DestroyDownloadTask
  BY <1>15 DEF DestroyDownloadTask
<1>16. CASE DestroyAsyncTask
  BY <1>16 DEF DestroyAsyncTask, MustWait
<1>17. CASE DestructorWaits
  BY <1>17 DEF DestructorWaits
<1>18. CASE UNCHANGED vars
  BY <1>18
<1> QED
  BY <1>1, <1>2, <1>3, <1>4, <1>5, <1>6, <1>7, <1>8, <1>9,
     <1>10, <1>11, <1>12, <1>13, <1>14, <1>15, <1>16, <1>17, <1>18 DEF Next, TaskThread, HandlerRuns

-----------------------------------------------------------------------------
\* The invariant behind the theorems below.
THEOREM InvariantHolds == Spec => []IInv
<1>1. Init => IInv
  BY InitInv, DownloadAssumption
<1>2. IInv /\ [Next]_vars => IInv'
  BY TypeStep, FutureStep, ResultStep, ToldStep, DownloadAssumption DEF IInv
<1> QED
  BY <1>1, <1>2, PTL DEF Spec

\* The members of the task and the two threads keep to their values, for any number of chunks.
THEOREM TypeCorrect == Spec => []TypeOK
<1>1. IInv => TypeOK
  BY DEF IInv
<1> QED
  BY <1>1, InvariantHolds, PTL

\* The destructor of AsyncTask returns only when no thread uses the object any more.
THEOREM ThreadsStayInside == Spec => []ThreadNeverOutlives
<1>1. IInv => ThreadNeverOutlives
  BY DEF IInv
<1> QED
  BY <1>1, InvariantHolds, PTL

\* What the listeners of DownloadTask are told of its end is what came of the download, but for the two
\* failures of the file that nobody looks at (fclose's and remove's).
THEOREM ListenersAreToldTheTruth == Spec => []ToldIsTrue
<1>1. IInv => ToldIsTrue
  <2> SUFFICES ASSUME IInv PROVE ToldIsTrue
    OBVIOUS
  <2> USE DEF IInv, ResultInv, ToldInv
  <2>1. told # {} => m_status = "FINISHED" /\ ~m_cancelled /\ told = {result}
    BY Zenon
  <2>2. CASE "ok" \in told
    <3>1. result = "ok" /\ told = {"ok"}
      BY <2>1, <2>2
    <3>2. "failed" \notin told
      BY <3>1
    <3>3. received = Chunks /\ (output = "whole" \/ (task = "file" /\ unnoticed = "flush"))
      BY <3>1, Zenon
    <3> QED
      BY <2>1, <3>1, <3>2, <3>3 DEF ToldIsTrue
  <2>3. CASE "failed" \in told
    <3>1. result = "failed" /\ told = {"failed"}
      BY <2>1, <2>3
    <3>2. "ok" \notin told /\ result # "ok"
      BY <3>1
    <3>3. output = "none" \/ (task = "file" /\ unnoticed = "remove")
      BY <3>1 DEF TypeOK
    <3> QED
      BY <2>1, <3>2, <3>3 DEF ToldIsTrue
  <2>4. CASE "ok" \notin told /\ "failed" \notin told
    BY <2>1, <2>4 DEF ToldIsTrue
  <2> QED
    BY <2>2, <2>3, <2>4
<1> QED
  BY <1>1, InvariantHolds, PTL
=============================================================================
