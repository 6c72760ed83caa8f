----------------------------- MODULE UsbSession -----------------------------
(***************************************************************************)
(* The USB interface of NXDump (source/core/usb.c), the dump flows that     *)
(* call it (code_templates/nxdt_rw_poc.c) and the host at the other end of  *)
(* the cable, as host/README.md describes it.                               *)
(*                                                                          *)
(* Every function of the interface runs under g_usbInterfaceMutex and is    *)
(* one step here, with the outcome of its transfers chosen by the           *)
(* environment; the one place where the mutex is held across a wait is the  *)
(* detection thread starting a session (detector = "session").  The cable   *)
(* may be pulled and plugged between any two calls.  Sizes are in chunks.   *)
(***************************************************************************)
EXTENDS Integers

CONSTANTS MaxChunks,    \* chunks of the largest file
          MaxEntries,   \* files of the largest NSP or extracted file system
          MaxFaults     \* bound: failed exchanges and cable pulls in a behaviour

ASSUME UsbAssumption == /\ MaxChunks \in Nat \ {0}
                        /\ MaxEntries \in Nat \ {0}
                        /\ MaxFaults \in Nat

VARIABLES
  cable,                        \* usbDsGetState reports UsbState_Configured
  host,                         \* the host's session, the chunks it expects, its modes
  unexpected,                   \* history: commands the host had no reason to expect
  stateEvent, timeoutEvent,     \* g_usbStateChangeEvent, g_usbTimeoutEvent
  exitEvent, exitFlag,          \* g_usbDetectionThreadExitEvent, g_usbDetectionThreadExitFlag
  detector,                     \* the detection thread
  app,                          \* the thread that calls usbExit
  hostAvailable, sessionStarted,
  remaining, written, nspMode,  \* g_usbTransfer{Remaining,Written}Size, g_nspTransferMode
  zlt,                          \* the input endpoint's ZLT setting
  flow, entries, toSend,        \* the dump: its stage, its files left, its chunks left
  faults

hostVars == <<host, unexpected>>
transferVars == <<remaining, written, nspMode>>
sessionVars == <<hostAvailable, sessionStarted>>
eventVars == <<stateEvent, exitEvent, exitFlag>>
dumpVars == <<flow, entries, toSend>>
threadVars == <<detector, app>>
vars == <<cable, hostVars, transferVars, sessionVars, eventVars, timeoutEvent, dumpVars,
          threadVars, zlt, faults>>

Flows == {"idle", "file", "nsp", "nspFile", "fs", "fsFile", "cancel"}

NoSession == [session |-> FALSE, left |-> 0, nsp |-> FALSE, extracted |-> FALSE]

-----------------------------------------------------------------------------
\* The host (external): what it may expect, and what a command does to it

Expected(cmd, zltSent) ==
  /\ host.session
  /\ CASE cmd.type = "FileProperties" -> host.left = 0
       [] cmd.type = "NspProperties"  -> host.left = 0 /\ ~host.nsp
       [] cmd.type = "Data"           -> host.left > 0 /\ zltSent = (cmd.last /\ cmd.aligned)
       [] cmd.type = "Cancel"         -> host.left > 0 \/ host.nsp
       [] cmd.type = "NspHeader"      -> host.left = 0 /\ host.nsp
       [] cmd.type = "StartFs"        -> host.left = 0 /\ ~host.nsp /\ ~host.extracted
       [] cmd.type = "EndFs"          -> host.left = 0 /\ ~host.nsp /\ host.extracted
       [] OTHER                       -> TRUE

HostAfter(cmd) ==
  CASE cmd.type = "FileProperties" -> [host EXCEPT !.left = cmd.size]
    [] cmd.type = "NspProperties"  -> [host EXCEPT !.nsp = TRUE]
    [] cmd.type = "Data"           -> [host EXCEPT !.left = IF @ > 0 THEN @ - 1 ELSE 0]
    [] cmd.type = "Cancel"         -> [host EXCEPT !.left = 0, !.nsp = FALSE, !.extracted = FALSE]
    [] cmd.type = "NspHeader"      -> [host EXCEPT !.nsp = FALSE]
    [] cmd.type = "StartFs"        -> [host EXCEPT !.extracted = TRUE]
    [] cmd.type = "EndFs"          -> [host EXCEPT !.extracted = FALSE]
    [] OTHER                       -> NoSession

Receive(cmd, zltSent) ==
  /\ host' = HostAfter(cmd)
  /\ unexpected' = unexpected \cup (IF Expected(cmd, zltSent) THEN {} ELSE {cmd.type})

\* An error status, which only a command and a last chunk wait for, ends whatever the host was receiving.
Reject(cmd, zltSent) ==
  /\ cmd.type = "Data" => cmd.last
  /\ host' = [NoSession EXCEPT !.session = host.session]
  /\ unexpected' = unexpected \cup (IF Expected(cmd, zltSent) THEN {} ELSE {cmd.type})

-----------------------------------------------------------------------------
\* One command, or one chunk, and its status: usbSendCommand over usbTransferData

\* ret is what the call returns.  An exchange that times out, having reached the host or not,
\* signals the timeout event; one that fails for lack of a host, or with an error status, does not.
Exchange(cmd, zltSent, ret) ==
  \/ /\ ret /\ cable
     /\ Receive(cmd, zltSent)
     /\ UNCHANGED <<timeoutEvent, faults>>
  \/ /\ ~ret /\ cable /\ faults < MaxFaults
     /\ Reject(cmd, zltSent)
     /\ faults' = faults + 1
     /\ UNCHANGED timeoutEvent
  \/ /\ ~ret /\ cable /\ faults < MaxFaults
     /\ Receive(cmd, zltSent) \/ UNCHANGED hostVars
     /\ faults' = faults + 1
     /\ timeoutEvent' = TRUE
  \/ /\ ~ret /\ ~cable
     /\ UNCHANGED <<hostVars, timeoutEvent, faults>>

Command(type) == [type |-> type]

-----------------------------------------------------------------------------
\* The interface's functions.  Each is used by one action of a dump, which supplies ret.

\* The mutex is free for a caller while the detection thread is not starting a session.
MutexFree == detector # "session" /\ app # "closed"
Ready == hostAvailable /\ sessionStarted

ResetTransfer == remaining' = 0 /\ written' = 0 /\ nspMode' = FALSE

\* _usbSendFileProperties; a refused call changes nothing.
PropertiesAllowed(enforceNsp) ==
  Ready /\ (nspMode \/ remaining = 0) /\ (enforceNsp => ~nspMode)

SendProperties(cmd, enforceNsp, ret) ==
  \/ /\ ~PropertiesAllowed(enforceNsp) /\ ~ret
     /\ UNCHANGED <<hostVars, timeoutEvent, faults, transferVars>>
  \/ /\ PropertiesAllowed(enforceNsp)
     /\ Exchange(cmd, FALSE, ret)
     /\ IF ret THEN remaining' = cmd.size /\ written' = 0 /\ nspMode' = (nspMode \/ enforceNsp)
               ELSE ResetTransfer

usbSendFileProperties(size, ret) ==
  SendProperties([type |-> "FileProperties", size |-> size], FALSE, ret)

usbSendNspProperties(size, ret) ==
  SendProperties([type |-> "NspProperties", size |-> size], TRUE, ret)

\* The ZLT setting a chunk goes out with: set for an aligned last chunk, cleared by the first of several.
ZltNeverCleared(last, aligned) == (last /\ aligned) \/ zlt   \* a mutant
ZltFor(last, aligned) ==
  CASE last /\ aligned        -> TRUE
    [] ~last /\ written = 0   -> FALSE
    [] OTHER                  -> zlt

OneChunkTooMany == Ready /\ remaining >= 0   \* a mutant
DataAllowed == Ready /\ remaining > 0

\* A chunk that is not the last is a whole BLOCK_SIZE, which is aligned.
usbSendFileData(aligned, ret) ==
  \/ /\ ~DataAllowed /\ ~ret
     /\ ResetTransfer
     /\ UNCHANGED <<hostVars, timeoutEvent, faults, zlt>>
  \/ /\ DataAllowed
     /\ LET last == remaining = 1
            cmd  == [type |-> "Data", last |-> last, aligned |-> aligned]
        IN  /\ ~last => aligned
            /\ Exchange(cmd, ZltFor(last, aligned) /\ aligned, ret)
            /\ zlt' = IF last /\ aligned THEN FALSE ELSE ZltFor(last, aligned)
            /\ IF ret THEN remaining' = remaining - 1 /\ written' = written + 1 /\ UNCHANGED nspMode
                      ELSE ResetTransfer

usbCancelFileTransfer ==
  \/ /\ ~(Ready /\ (remaining > 0 \/ nspMode))
     /\ UNCHANGED <<hostVars, timeoutEvent, faults, transferVars>>
  \/ /\ Ready /\ (remaining > 0 \/ nspMode)
     /\ ResetTransfer
     /\ \E ret \in BOOLEAN : Exchange(Command("Cancel"), FALSE, ret)

\* A header whose size is aligned sets ZLT and clears it again (usbSendCommand); no other command is.
usbSendNspHeader(ret) ==
  \/ /\ ~(Ready /\ remaining = 0 /\ nspMode) /\ ~ret
     /\ UNCHANGED <<hostVars, timeoutEvent, faults, transferVars, zlt>>
  \/ /\ Ready /\ remaining = 0 /\ nspMode
     /\ nspMode' = FALSE
     /\ Exchange(Command("NspHeader"), FALSE, ret)
     /\ zlt' \in {zlt, FALSE}
     /\ UNCHANGED <<remaining, written>>

ExtractedAllowed == Ready /\ remaining = 0 /\ ~nspMode

usbStartExtractedFsDump(ret) ==
  /\ IF ExtractedAllowed THEN Exchange(Command("StartFs"), FALSE, ret)
                         ELSE ~ret /\ UNCHANGED <<hostVars, timeoutEvent, faults>>
  /\ UNCHANGED transferVars

usbEndExtractedFsDump ==
  /\ IF ExtractedAllowed THEN \E ret \in BOOLEAN : Exchange(Command("EndFs"), FALSE, ret)
                         ELSE UNCHANGED <<hostVars, timeoutEvent, faults>>
  /\ UNCHANGED transferVars

-----------------------------------------------------------------------------
\* usbDetectionThreadFunc

SessionOnly ==   \* a mutant
  /\ sessionStarted' = FALSE
  /\ UNCHANGED transferVars

\* A state change or a timeout: the connection is looked at afresh, under the mutex.
DetectorResets ==
  /\ sessionStarted' = FALSE
  /\ remaining' = 0 /\ written' = 0
  /\ UNCHANGED nspMode

DetectorWakes ==
  /\ detector = "wait" /\ app # "closed"
  /\ \/ stateEvent /\ stateEvent' = FALSE /\ UNCHANGED timeoutEvent
     \/ timeoutEvent /\ timeoutEvent' = FALSE /\ UNCHANGED stateEvent
  /\ hostAvailable' = cable
  /\ DetectorResets
  /\ detector' = IF cable THEN "session" ELSE "wait"
  /\ UNCHANGED <<cable, hostVars, exitEvent, exitFlag, app, dumpVars, zlt, faults>>

\* usbStartSession: waits for the host for as long as it takes, and is not retried if it fails.
SessionStarts ==
  /\ detector = "session" /\ cable
  /\ host' = [NoSession EXCEPT !.session = TRUE]
  /\ sessionStarted' = TRUE
  /\ detector' = "wait"
  /\ UNCHANGED <<cable, unexpected, transferVars, hostAvailable, eventVars, timeoutEvent, app,
                 dumpVars, zlt, faults>>

SessionFails ==
  /\ detector = "session"
  /\ ~cable \/ faults < MaxFaults
  /\ faults' = IF cable THEN faults + 1 ELSE faults
  /\ detector' = "wait"
  /\ UNCHANGED <<cable, hostVars, transferVars, sessionVars, eventVars, timeoutEvent, app,
                 dumpVars, zlt>>

\* The exit event is also waited for while the host does not answer.
ExitIgnored == FALSE   \* a mutant
ExitHeard == exitEvent

SessionAborted ==
  /\ detector = "session" /\ ExitHeard
  /\ exitEvent' = FALSE /\ exitFlag' = TRUE
  /\ detector' = "exiting"
  /\ UNCHANGED <<cable, hostVars, transferVars, sessionVars, stateEvent, timeoutEvent, app,
                 dumpVars, zlt, faults>>

DetectorTold ==
  /\ detector = "wait" /\ exitEvent
  /\ exitEvent' = FALSE
  /\ detector' = "exiting"
  /\ UNCHANGED <<cable, hostVars, transferVars, sessionVars, stateEvent, exitFlag, timeoutEvent,
                 app, dumpVars, zlt, faults>>

DetectorExits ==
  /\ detector = "exiting"
  /\ IF Ready THEN \E ret \in BOOLEAN : Exchange(Command("EndSession"), FALSE, ret)
              ELSE UNCHANGED <<hostVars, timeoutEvent, faults>>
  /\ hostAvailable' = FALSE /\ sessionStarted' = FALSE /\ exitFlag' = FALSE
  /\ remaining' = 0 /\ written' = 0
  /\ detector' = "done"
  /\ UNCHANGED <<cable, stateEvent, exitEvent, nspMode, app, dumpVars, zlt>>

Detector == \/ DetectorWakes \/ SessionStarts \/ SessionFails
            \/ SessionAborted \/ DetectorTold \/ DetectorExits

-----------------------------------------------------------------------------
\* usbExit, called once no dump is running: the thread is joined before the mutex is taken

ExitSignals ==
  /\ app = "run" /\ flow = "idle"
  /\ app' = "join" /\ exitEvent' = TRUE
  /\ UNCHANGED <<cable, hostVars, transferVars, sessionVars, stateEvent, exitFlag, timeoutEvent,
                 detector, dumpVars, zlt, faults>>

ExitCloses ==
  /\ app = "join" /\ detector = "done"
  /\ app' = "closed"
  /\ UNCHANGED <<cable, hostVars, transferVars, sessionVars, eventVars, timeoutEvent, detector,
                 dumpVars, zlt, faults>>

-----------------------------------------------------------------------------
\* The cable.  Plugging it back in takes longer than the detection thread needs to notice.

CablePulled ==
  /\ cable /\ faults < MaxFaults
  /\ faults' = faults + 1
  /\ cable' = FALSE /\ stateEvent' = TRUE
  /\ host' = NoSession
  /\ UNCHANGED <<unexpected, transferVars, sessionVars, exitEvent, exitFlag, timeoutEvent,
                 threadVars, dumpVars, zlt>>

CablePlugged ==
  /\ ~cable /\ ~stateEvent
  /\ cable' = TRUE /\ stateEvent' = TRUE
  /\ UNCHANGED <<hostVars, transferVars, sessionVars, exitEvent, exitFlag, timeoutEvent,
                 threadVars, dumpVars, zlt, faults>>

-----------------------------------------------------------------------------
\* The dumps.  A user starts one once the detection thread is idle; from then on nothing waits for it.

Caller == MutexFree /\ app = "run" /\ UNCHANGED <<cable, sessionVars, eventVars, threadVars>>
UserStarts == flow = "idle" /\ ~stateEvent /\ ~timeoutEvent

Goto(stage, files, chunks) == flow' = stage /\ entries' = files /\ toSend' = chunks

\* A raw dump: one file.
StartFile ==
  /\ Caller /\ UserStarts
  /\ \E n \in 1..MaxChunks, ret \in BOOLEAN :
        /\ usbSendFileProperties(n, ret)
        /\ IF ret THEN Goto("file", 0, n) ELSE Goto("idle", 0, 0)
  /\ UNCHANGED zlt

\* nspThreadFunc: the whole package's size first, then each file, then the header.
StartNsp ==
  /\ Caller /\ UserStarts
  /\ \E k \in 1..MaxEntries, ret \in BOOLEAN :
        /\ usbSendNspProperties(MaxChunks, ret)
        /\ IF ret THEN Goto("nsp", k, 0) ELSE Goto("cancel", 0, 0)
  /\ UNCHANGED zlt

NspFile ==
  /\ Caller /\ flow = "nsp" /\ entries > 0
  /\ \E n \in 1..MaxChunks, ret \in BOOLEAN :
        /\ usbSendFileProperties(n, ret)
        /\ IF ret THEN Goto("nspFile", entries - 1, n) ELSE Goto("cancel", 0, 0)
  /\ UNCHANGED zlt

NspEnds ==
  /\ Caller /\ flow = "nsp" /\ entries = 0
  /\ \E ret \in BOOLEAN : /\ usbSendNspHeader(ret)
                          /\ IF ret THEN Goto("idle", 0, 0) ELSE Goto("cancel", 0, 0)

\* The extracted readers: a root, then each file, an empty one needing no data.
StartFs ==
  /\ Caller /\ UserStarts
  /\ \E k \in 1..MaxEntries, ret \in BOOLEAN :
        /\ usbStartExtractedFsDump(ret)
        /\ IF ret THEN Goto("fs", k, 0) ELSE Goto("idle", 0, 0)
  /\ UNCHANGED zlt

FsFile ==
  /\ Caller /\ flow = "fs" /\ entries > 0
  /\ \E n \in 0..MaxChunks, ret \in BOOLEAN :
        /\ usbSendFileProperties(n, ret)
        /\ CASE ret /\ n > 0 -> Goto("fsFile", entries - 1, n)
             [] ret /\ n = 0 -> Goto("fs", entries - 1, 0)
             [] OTHER        -> Goto("idle", 0, 0)
  /\ UNCHANGED zlt

FsEnds ==
  /\ Caller /\ flow = "fs" /\ entries = 0
  /\ usbEndExtractedFsDump
  /\ Goto("idle", 0, 0)
  /\ UNCHANGED zlt

\* Where a dump goes after its last chunk, and after a failed one: only an NSP dump cancels then.
AfterFile == CASE flow = "file" -> "idle" [] flow = "nspFile" -> "nsp" [] OTHER -> "fs"
AfterFailure == IF flow \in {"nsp", "nspFile"} THEN "cancel" ELSE "idle"

SendChunk ==
  /\ Caller /\ flow \in {"file", "nspFile", "fsFile"}
  /\ \E aligned, ret \in BOOLEAN :
        /\ usbSendFileData(aligned, ret)
        /\ CASE ret /\ toSend > 1 -> Goto(flow, entries, toSend - 1)
             [] ret /\ toSend = 1 -> Goto(AfterFile, entries, 0)
             [] OTHER             -> Goto(AfterFailure, 0, 0)

\* The source cannot be read any further.
SourceFails ==
  /\ app = "run" /\ flow \notin {"idle", "cancel"}
  /\ Goto(AfterFailure, 0, 0)
  /\ UNCHANGED <<cable, hostVars, transferVars, sessionVars, eventVars, timeoutEvent, threadVars,
                 zlt, faults>>

UserCancels ==
  /\ app = "run" /\ flow \notin {"idle", "cancel"}
  /\ Goto("cancel", 0, 0)
  /\ UNCHANGED <<cable, hostVars, transferVars, sessionVars, eventVars, timeoutEvent, threadVars,
                 zlt, faults>>

Cancel ==
  /\ Caller /\ flow = "cancel"
  /\ usbCancelFileTransfer
  /\ Goto("idle", 0, 0)
  /\ UNCHANGED zlt

Dump == \/ StartFile \/ StartNsp \/ NspFile \/ NspEnds \/ StartFs \/ FsFile \/ FsEnds
        \/ SendChunk \/ SourceFails \/ UserCancels \/ Cancel

-----------------------------------------------------------------------------
Init == /\ cable \in BOOLEAN
        /\ host = NoSession /\ unexpected = {}
        /\ stateEvent = cable /\ timeoutEvent = FALSE /\ exitEvent = FALSE /\ exitFlag = FALSE
        /\ detector = "wait" /\ app = "run"
        /\ hostAvailable = FALSE /\ sessionStarted = FALSE
        /\ remaining = 0 /\ written = 0 /\ nspMode = FALSE
        /\ zlt \in BOOLEAN
        /\ flow = "idle" /\ entries = 0 /\ toSend = 0
        /\ faults = 0

Next == Detector \/ ExitSignals \/ ExitCloses \/ CablePulled \/ CablePlugged \/ Dump

\* The detection thread acts on its events; the host need not answer.
Fairness == /\ WF_vars(DetectorWakes \/ DetectorTold \/ DetectorExits)
            /\ WF_vars(SessionAborted)
            /\ WF_vars(ExitCloses)

Spec == Init /\ [][Next]_vars /\ Fairness

-----------------------------------------------------------------------------
\* Properties

\* The values every variable keeps to.
TypeOK ==
  /\ cable \in BOOLEAN
  /\ host \in [session : BOOLEAN, left : 0..MaxChunks, nsp : BOOLEAN, extracted : BOOLEAN]
  /\ unexpected \subseteq {"FileProperties", "NspProperties", "Data", "Cancel", "NspHeader",
                           "StartFs", "EndFs", "EndSession"}
  /\ stateEvent \in BOOLEAN /\ timeoutEvent \in BOOLEAN
  /\ exitEvent \in BOOLEAN /\ exitFlag \in BOOLEAN
  /\ detector \in {"wait", "session", "exiting", "done"}
  /\ app \in {"run", "join", "closed"}
  /\ hostAvailable \in BOOLEAN /\ sessionStarted \in BOOLEAN
  /\ remaining \in 0..MaxChunks /\ written \in 0..MaxChunks /\ nspMode \in BOOLEAN
  /\ zlt \in BOOLEAN
  /\ flow \in Flows /\ entries \in 0..MaxEntries /\ toSend \in 0..MaxChunks
  /\ faults \in 0..MaxFaults

\* Whatever is pulled, times out or is refused, no chunk ever reaches a host that is not waiting for
\* one, and no package is announced inside another: the remaining size is a sound account of what
\* the host expects, and a ZLT packet follows exactly an aligned last chunk (usbSendFileData).
DataIsExpected == unexpected \cap {"Data", "NspProperties", "EndSession"} = {}

\* A transfer is open only inside a session, and a session only on a host that was seen.
TransferNeedsSession == (remaining > 0 => sessionStarted) /\ (sessionStarted => hostAvailable)

\* usbExit always returns, even while the detection thread holds the mutex waiting for a host that
\* never answers.
ExitCompletes == app = "join" ~> app = "closed"

-----------------------------------------------------------------------------
\* What the interface's documents say, and the code does not do

\* host/README.md of SendNspHeader: "Only issued under NSP transfer mode".
HeaderOnlyInNspMode == "NspHeader" \notin unexpected
=============================================================================
