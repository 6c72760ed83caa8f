---------------------------- MODULE DownloadTask ----------------------------
(***************************************************************************)
(* An asynchronous download of NXDump: the AsyncTask template               *)
(* (include/async_task.hpp), the DownloadTask template and its two tasks    *)
(* (include/download_task.hpp), the HTTP interface (source/core/http.c) and *)
(* the listener and cancel button of the views that own a task              *)
(* (source/options_tab.cpp).                                                *)
(*                                                                         *)
(* The calling thread runs borealis' main loop, which runs the task's       *)
(* handler, the cancel button and, once the view has been closed, its       *)
(* destructor; the task's thread runs doInBackground.  m_mtx is held during *)
(* single steps only.  The download is counted in chunks.                   *)
(***************************************************************************)
EXTENDS Integers

CONSTANTS Chunks,      \* what the server sends of a body
          Faults       \* what may go wrong: a subset of FaultKinds

FaultKinds == {"thread", "open", "request", "store", "throw", "flush", "remove"}

ASSUME DownloadAssumption == Chunks \in Nat \ {0} /\ Faults \subseteq FaultKinds

VARIABLES
  task,                 \* "file" for DownloadFileTask, "data" for DownloadDataTask
  sized,                \* whether the server announces the size of the body
  m_status, m_cancelled, m_progress, m_exceptionPtr,
  m_future,             \* "none", "running", "ready" or "taken"
  result,               \* what doInBackground returned: "none", "ok" or "failed"
  tpc, received,        \* the task's thread
  output,               \* the file, or the buffer: "none", "partial" or "whole"
  unnoticed,            \* history: the call on the file that failed with nobody looking: "flush", "remove"
  upc,                  \* the calling thread
  handler, finished,    \* the repeating task, and its `finished'
  prev_current,
  told,                 \* the ends the listeners were told of: "ok" or "failed" for each
  longRunning           \* g_longRunningProcess: HOME is blocked and the console does not sleep

fixedVars == <<task, sized>>
taskVars == <<m_status, m_cancelled, m_progress, m_exceptionPtr, m_future, result>>
threadVars == <<tpc, received, output, unnoticed>>
uiVars == <<upc, handler, finished, prev_current, told, longRunning>>
vars == <<fixedVars, taskVars, threadVars, uiVars>>

Init == /\ task \in {"file", "data"} /\ sized \in BOOLEAN
        /\ m_status = "PENDING" /\ m_cancelled = FALSE /\ m_progress = 0
        /\ m_exceptionPtr = FALSE /\ m_future = "none" /\ result = "none"
        /\ tpc = "none" /\ received = 0 /\ output = "none" /\ unnoticed = "none"
        /\ upc = "new" /\ handler = "paused" /\ finished = FALSE
        /\ prev_current = 0 /\ told = {} /\ longRunning = FALSE

-----------------------------------------------------------------------------
\* The task's thread

\* Once its destructors run the object is no longer one of a class that defines doInBackground.
Destructing == upc \in {"destroying", "waiting"}

\* doInBackground: fopen of httpDownloadFile, then the start of the request.  An exception cancels the
\* task and gives an empty result (no task of this program throws one; AsyncTask is ready for it).
ThreadBegins ==
  /\ tpc = "begin" /\ ~Destructing
  /\ \/ /\ task = "file" /\ "open" \in Faults
        /\ tpc' = "return" /\ result' = "failed"
        /\ UNCHANGED <<output, m_cancelled, m_exceptionPtr>>
     \/ /\ "throw" \in Faults
        /\ tpc' = "return" /\ result' = "failed"
        /\ m_cancelled' = TRUE /\ m_exceptionPtr' = TRUE
        /\ UNCHANGED output
     \/ /\ tpc' = "transfer"
        /\ output' = IF task = "file" THEN "partial" ELSE "none"
        /\ UNCHANGED <<result, m_cancelled, m_exceptionPtr>>
  /\ UNCHANGED <<fixedVars, m_status, m_progress, m_future, received, unnoticed, uiVars>>

\* A thread that comes to call it only then calls a pure virtual function, which ends the program.
ThreadBeginsTooLate ==
  /\ tpc = "begin" /\ Destructing
  /\ tpc' = "exited" /\ upc' = "lost"
  /\ UNCHANGED <<fixedVars, taskVars, received, output, unnoticed, handler, finished, prev_current, told,
                 longRunning>>

\* A chunk arrives and is written, or cannot be: then curl gives up.
Receive ==
  /\ tpc = "transfer" /\ received < Chunks
  /\ \/ /\ received' = received + 1
        /\ output' = IF received + 1 = Chunks THEN "whole" ELSE "partial"
        /\ tpc' = "report"
     \/ /\ "store" \in Faults
        /\ tpc' = "failed"
        /\ UNCHANGED <<received, output>>
  /\ UNCHANGED <<fixedVars, taskVars, unnoticed, uiVars>>

\* The server answers with an error, closes the connection early or sends too little for too long.
RequestFails ==
  /\ tpc = "transfer" /\ "request" \in Faults
  /\ tpc' = "failed"
  /\ UNCHANGED <<fixedVars, taskVars, received, output, unnoticed, uiVars>>

\* HttpProgressCallback, which curl calls after each chunk and about once a second: a cancelled task
\* makes curl give up.  A mutant only asks it to once something is there to be removed.
StopsForCancelOnceReceived == m_cancelled /\ received > 0
StopsForCancel == m_cancelled

HttpProgressCallback ==
  /\ tpc \in {"report", "transfer"}
  /\ tpc' = IF StopsForCancel THEN "failed" ELSE "publish"
  /\ UNCHANGED <<fixedVars, taskVars, received, output, unnoticed, uiVars>>

\* What it reports, in a mutant with the headers counted as well; then publishProgress, back in curl.
CurrentWithHeaders == received + 1
Current == received

PublishProgress ==
  /\ tpc = "publish"
  /\ m_progress' = IF m_status = "RUNNING" /\ ~m_cancelled THEN Current ELSE m_progress
  /\ tpc' = IF received = Chunks THEN "succeeded" ELSE "transfer"
  /\ UNCHANGED <<fixedVars, m_status, m_cancelled, m_exceptionPtr, m_future, result, received, output, unnoticed, uiVars>>

\* What is left of a request that failed: the file is removed, the buffer freed.  A mutant forgets to
\* remove the file.
RemainsOfFile == IF task = "file" THEN output ELSE "none"
Remains == "none"

\* httpDownloadFile looks at the result neither of fclose, which writes the last bytes, nor of remove.
LastBytesLost == /\ tpc = "succeeded" /\ task = "file" /\ "flush" \in Faults
                 /\ output' = "partial" /\ unnoticed' = "flush"
NotRemoved == /\ tpc = "failed" /\ task = "file" /\ "remove" \in Faults
              /\ unnoticed' = "remove" /\ UNCHANGED output
OutputSettled == /\ output' = IF tpc = "succeeded" THEN output ELSE Remains
                 /\ UNCHANGED unnoticed

EndRequest ==
  /\ tpc \in {"failed", "succeeded"}
  /\ OutputSettled \/ LastBytesLost \/ NotRemoved
  /\ result' = IF tpc = "succeeded" THEN "ok" ELSE "failed"
  /\ tpc' = "return"
  /\ UNCHANGED <<fixedVars, m_status, m_cancelled, m_progress, m_exceptionPtr, m_future, received, uiVars>>

\* postResult hands the result over unchanged, and the thread ends.
ThreadReturns ==
  /\ tpc = "return"
  /\ tpc' = "exited" /\ m_future' = "ready"
  /\ UNCHANGED <<fixedVars, m_status, m_cancelled, m_progress, m_exceptionPtr, result, received, output,
                 unnoticed, uiVars>>

TaskThread == \/ ThreadBegins \/ ThreadBeginsTooLate \/ Receive \/ RequestFails \/ HttpProgressCallback
              \/ PublishProgress \/ EndRequest \/ ThreadReturns

-----------------------------------------------------------------------------
\* The calling thread

\* execute() from the view's constructor; std::async may fail to create the thread, and throws.  A task
\* cancelled before is not executed.
Execute ==
  /\ upc = "new"
  /\ \/ /\ m_cancelled
        /\ upc' = "open"
        /\ UNCHANGED <<m_status, m_future, tpc, handler, longRunning>>
     \/ /\ ~m_cancelled
        /\ m_status' = "RUNNING" /\ longRunning' = TRUE /\ handler' = "running"
        /\ \/ upc' = "open" /\ m_future' = "running" /\ tpc' = "begin"
           \/ "thread" \in Faults /\ upc' = "lost" /\ UNCHANGED <<m_future, tpc>>
  /\ UNCHANGED <<fixedVars, m_cancelled, m_progress, m_exceptionPtr, result, received, output, unnoticed,
                 finished, prev_current, told>>

\* onProgressUpdate lets an update through if there is progress, or no more is known to come, and if a
\* second has passed since the last one, or the task is over and no more is known to come.
Incomplete(current) == sized /\ 0 < current /\ current < Chunks
HasProgress(current) == current > prev_current \/ (current = prev_current /\ ~Incomplete(current))
MayTell(current, status, second) ==
  /\ HasProgress(current) /\ ~m_cancelled
  /\ second \/ ~(Incomplete(current) \/ status = "RUNNING")

\* loopCallback of a task under way
UpdateProgress ==
  /\ m_future = "running"
  /\ \E second \in BOOLEAN :
       prev_current' = IF MayTell(m_progress, "RUNNING", second) THEN m_progress ELSE prev_current
  /\ UNCHANGED <<upc, taskVars, handler, finished, told, longRunning>>

\* finish() through onCancelled: an exception goes on to the main loop, which nothing catches.
FinishCancelled ==
  /\ m_future = "ready" /\ m_cancelled
  /\ m_status' = "FINISHED" /\ m_future' = "taken"
  /\ handler' = "paused" /\ longRunning' = FALSE
  /\ finished' = ~m_exceptionPtr
  /\ upc' = IF m_exceptionPtr THEN "lost" ELSE upc
  /\ UNCHANGED <<m_cancelled, m_progress, m_exceptionPtr, result, prev_current, told>>

\* finish() through onPostExecute: the handler is fired at once, so that its nested loopCallback finds
\* the task finished, and the listeners called next find the handler so.  Those of the views then
\* get() the result and, for data, take the buffer over.  In a mutant finish() updates the status last:
\* the nested call finds the result retrieved and the task not finished.
NestedLoopCallbackEarly == m_status = "FINISHED"
NestedLoopCallback == m_status' = "FINISHED"

FinishExecuted ==
  /\ m_future = "ready" /\ ~m_cancelled
  /\ m_status' = "FINISHED" /\ m_future' = "taken"
  /\ finished' = TRUE /\ handler' = "paused" /\ longRunning' = FALSE
  /\ \E second \in BOOLEAN :
       IF MayTell(m_progress, "FINISHED", second)
       THEN /\ prev_current' = m_progress
            /\ told' = told \cup (IF NestedLoopCallback THEN {result} ELSE {})
       ELSE UNCHANGED <<prev_current, told>>
  /\ UNCHANGED <<upc, m_cancelled, m_progress, m_exceptionPtr, result>>

\* DownloadTaskHandler::run, every DOWNLOAD_TASK_INTERVAL of the main loop
HandlerRuns ==
  /\ upc \in {"open", "closing"} /\ handler = "running" /\ ~finished
  /\ UpdateProgress \/ FinishCancelled \/ FinishExecuted
  /\ UNCHANGED <<fixedVars, threadVars>>

\* The button of the view: cancel() and close() or popView(), whose animation runs in the main loop.
Cancelled == IF m_status = "FINISHED" THEN m_cancelled ELSE TRUE

Cancel ==
  /\ upc = "open"
  /\ m_cancelled' = Cancelled
  /\ upc' = "closing"
  /\ UNCHANGED <<fixedVars, m_status, m_progress, m_exceptionPtr, m_future, result, threadVars, handler,
                 finished, prev_current, told, longRunning>>

\* The update frame cancels a task it has not executed yet.
CancelPending ==
  /\ upc = "new" /\ ~m_cancelled
  /\ m_cancelled' = Cancelled
  /\ UNCHANGED <<fixedVars, m_status, m_progress, m_exceptionPtr, m_future, result, threadVars, uiVars>>

\* The destructors of a closed view: ~DownloadTask, then ~AsyncTask, which waits for the thread.  A mutant
\* waits only if the task was not cancelled already.
DestroyDownloadTask ==
  /\ upc = "closing"
  /\ handler' = "stopped" /\ upc' = "destroying"
  /\ UNCHANGED <<fixedVars, taskVars, threadVars, finished, prev_current, told, longRunning>>

MustWaitUnlessCancelled == m_status = "RUNNING" /\ ~m_cancelled /\ m_future # "none"
MustWait == m_status = "RUNNING" /\ m_future \in {"running", "ready"}

DestroyAsyncTask ==
  /\ upc = "destroying"
  /\ upc' = IF MustWait THEN "waiting" ELSE "destroyed"
  /\ m_cancelled' = (m_cancelled \/ m_status = "RUNNING")
  /\ UNCHANGED <<fixedVars, m_status, m_progress, m_exceptionPtr, m_future, result, threadVars, handler,
                 finished, prev_current, told, longRunning>>

DestructorWaits ==
  /\ upc = "waiting" /\ m_future = "ready"
  /\ upc' = "destroyed"
  /\ UNCHANGED <<fixedVars, taskVars, threadVars, handler, finished, prev_current, told, longRunning>>

Next == \/ TaskThread
        \/ Execute \/ HandlerRuns \/ Cancel \/ CancelPending
        \/ DestroyDownloadTask \/ DestroyAsyncTask \/ DestructorWaits

\* curl keeps calling the progress callback and the thread goes on, but nothing makes the server send;
\* the main loop runs the handler and the destructors.
Fairness == /\ WF_vars(ThreadBegins \/ ThreadBeginsTooLate \/ HttpProgressCallback \/ PublishProgress
                    \/ EndRequest \/ ThreadReturns)
            /\ WF_vars(HandlerRuns)
            /\ WF_vars(DestroyDownloadTask \/ DestroyAsyncTask \/ DestructorWaits)

Spec == Init /\ [][Next]_vars /\ Fairness
-----------------------------------------------------------------------------
\* Properties

\* The values the members of the task and the two threads keep to.
TypeOK == /\ task \in {"file", "data"} /\ sized \in BOOLEAN
          /\ m_status \in {"PENDING", "RUNNING", "FINISHED"} /\ m_cancelled \in BOOLEAN
          /\ m_progress \in 0..Chunks /\ m_exceptionPtr \in BOOLEAN
          /\ m_future \in {"none", "running", "ready", "taken"}
          /\ result \in {"none", "ok", "failed"}
          /\ tpc \in {"none", "begin", "transfer", "report", "publish", "failed", "succeeded", "return",
                      "exited"}
          /\ received \in 0..Chunks /\ output \in {"none", "partial", "whole"}
          /\ unnoticed \in {"none", "flush", "remove"}
          /\ upc \in {"new", "open", "lost", "closing", "destroying", "waiting", "destroyed"}
          /\ handler \in {"paused", "running", "stopped"} /\ finished \in BOOLEAN
          /\ prev_current \in 0..Chunks /\ told \subseteq {"ok", "failed"}
          /\ longRunning \in BOOLEAN

\* What the listeners are told of the end is true, of the task (whose get() must not throw in the
\* listener) and of what is left: told of a success, everything was received and handed over, and the
\* buffer is whole, and so is the file unless its last bytes were lost when it was closed; told of a
\* failure, nothing is left but a file that could not be removed.  And a download that succeeded and was
\* not cancelled is told once the handler has seen its end.
ToldIsTrue ==
  /\ told # {} => m_status = "FINISHED" /\ ~m_cancelled
  /\ "ok" \in told => /\ told = {"ok"} /\ received = Chunks
                      /\ output = "whole" \/ (task = "file" /\ unnoticed = "flush")
  /\ "failed" \in told => output = "none" \/ (task = "file" /\ unnoticed = "remove")
  /\ m_status = "FINISHED" /\ ~m_cancelled /\ result = "ok" => told = {"ok"}

\* The thread uses the object until it ends: the destructor is not over before, whatever the order of
\* cancelling, finishing and destroying.
ThreadNeverOutlives == upc = "destroyed" => tpc \in {"none", "exited"}

\* A view that was closed is destroyed, even while the server sends nothing: its destructor blocks the
\* main loop until the thread has noticed the cancellation.
ClosedViewGoes == (upc = "closing") ~> (upc \in {"destroyed", "lost"})

\* async_task.hpp:130: "Cleanup function called if the task is cancelled."  DownloadTask's resets the
\* long running process state; once the object is gone nothing else will.
CancelledIsCleanedUp == upc = "destroyed" => ~longRunning

\* download_task.hpp: "Update progress one last time."  The listeners wait for it to know of the end.
EndIsTold == (m_future = "ready" /\ upc = "open" /\ ~m_cancelled) ~> (told # {} \/ upc # "open")
=============================================================================
