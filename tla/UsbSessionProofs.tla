-------------------------- MODULE UsbSessionProofs --------------------------
(***************************************************************************)
(* For any sizes and any number of faults: no chunk and no package reaches  *)
(* a host that does not expect it, and no transfer is open without a        *)
(* session.                                                                 *)
(*                                                                          *)
(* What the host expects and what the console remembers drift apart at      *)
(* every lost exchange and every pulled cable.  The invariant says when     *)
(* they agree: whenever the cable is in, a session is up and no time-out is *)
(* waiting for the detection thread.                                        *)
(***************************************************************************)
EXTENDS UsbSession, TLAPS

HostType == [session : BOOLEAN, left : 0..MaxChunks, nsp : BOOLEAN, extracted : BOOLEAN]
CommandNames == {"FileProperties", "NspProperties", "Data", "Cancel", "NspHeader",
                 "StartFs", "EndFs", "EndSession"}
Linked == cable /\ Ready
DataFlow == flow \in {"file", "nspFile", "fsFile"}

\* The host is in a session whenever the console can reach it and believes so.
LinkInv == /\ ~cable => host = NoSession
           /\ ~cable /\ ~stateEvent => ~hostAvailable
           /\ Linked => host.session

\* A session is being started only from a clean state, and ended only once no dump is running.
DetectorInv == /\ detector = "session" => hostAvailable /\ ~sessionStarted /\ remaining = 0
               /\ app = "run" => ~exitEvent /\ detector \in {"wait", "session"}
               /\ app # "run" => flow = "idle"
               /\ detector = "done" => ~hostAvailable

\* What the console has forgotten the host has forgotten too, or a new session is on its way.
SyncInv == Linked /\ ~timeoutEvent => /\ remaining = 0 => host.left = 0
                                      /\ ~nspMode => ~host.nsp

\* In the middle of a file, the interface counts what the dump does, unless a new session has begun.
FlowInv == /\ timeoutEvent => flow \in {"idle", "cancel"}
           /\ DataFlow => toSend > 0 /\ remaining \in {0, toSend}
           /\ DataFlow /\ Linked /\ remaining > 0 => host.left = remaining
           /\ DataFlow /\ Linked /\ remaining = 0 => host.left = 0 /\ ~host.nsp

\* The chunks of a file are counted, and ZLT is off between the first and the last of them.
CountInv == /\ written + remaining <= MaxChunks
            /\ written > 0 /\ remaining > 0 => ~zlt

Inv == TypeOK /\ LinkInv /\ DetectorInv /\ SyncInv /\ FlowInv /\ CountInv
         /\ TransferNeedsSession /\ DataIsExpected

-----------------------------------------------------------------------------
\* One exchange

\* The commands DataIsExpected is about.
Watched == {"Data", "NspProperties", "EndSession"}

\* What an exchange may do, whatever the command: the values it leaves, ...
Exchanged(ret) ==
  /\ host' \in HostType /\ faults' \in 0..MaxFaults /\ timeoutEvent' \in BOOLEAN
  /\ unexpected' \subseteq CommandNames
  /\ timeoutEvent => timeoutEvent'
  /\ ret => timeoutEvent' = timeoutEvent
  /\ ~cable => ~ret /\ host' = host
  /\ ~ret /\ cable /\ ~timeoutEvent' => host'.left = 0 /\ host'.nsp = FALSE

\* ... and how they depend on the command.
Outcome(cmd, zltSent, ret) ==
  /\ Exchanged(ret)
  /\ cmd.type # "EndSession" => host'.session = host.session
  /\ ret => host' = HostAfter(cmd)
  /\ DataIsExpected /\ (cable /\ cmd.type \in Watched => Expected(cmd, zltSent)) => DataIsExpected'

\* Lemma: the values an exchange leaves, and that only an unexpected command is recorded.
LEMMA ExchangeOutcome ==
  ASSUME TypeOK, NEW cmd, cmd.type \in CommandNames, HostAfter(cmd) \in HostType,
         NEW zltSent, NEW ret \in BOOLEAN, Exchange(cmd, zltSent, ret)
  PROVE  Outcome(cmd, zltSent, ret)
  <1> DEFINE rejected == [NoSession EXCEPT !.session = host.session]
  <1>1. host \in HostType
    BY DEF TypeOK, HostType
  <1>2. /\ rejected \in HostType /\ rejected.session = host.session
        /\ rejected.left = 0 /\ rejected.nsp = FALSE
    <2>1. 0 \in 0..MaxChunks /\ host.session \in BOOLEAN
      BY <1>1, UsbAssumption DEF HostType
    <2> QED
      BY <2>1 DEF NoSession, HostType
  <1>3. cmd.type # "EndSession" => HostAfter(cmd).session = host.session
    BY <1>1 DEF HostType, HostAfter, CommandNames
  <1>4. faults' \in 0..MaxFaults
    <2>1. faults \in 0..MaxFaults /\ (faults < MaxFaults => faults + 1 \in 0..MaxFaults)
      BY UsbAssumption DEF TypeOK
    <2> QED
      BY <2>1 DEF Exchange
  <1>5. timeoutEvent' \in BOOLEAN /\ (timeoutEvent => timeoutEvent')
    BY DEF Exchange, TypeOK
  <1>6. host' \in {host, HostAfter(cmd), rejected}
    BY DEF Exchange, Receive, Reject, hostVars
  <1>7. ~cable => ~ret /\ host' = host
    BY DEF Exchange, hostVars
  <1>8. ret => host' = HostAfter(cmd) /\ timeoutEvent' = timeoutEvent
    BY DEF Exchange, Receive
  <1>9. ~ret /\ cable /\ ~timeoutEvent' => host' = rejected
    BY DEF Exchange, Reject
  <1>10. /\ unexpected' \in {unexpected, unexpected \cup {cmd.type}}
         /\ ~cable \/ Expected(cmd, zltSent) => unexpected' = unexpected
    BY DEF Exchange, Receive, Reject, hostVars
  <1>11. unexpected' \subseteq CommandNames
    BY <1>10 DEF CommandNames, TypeOK
  <1>12. ASSUME DataIsExpected, cable /\ cmd.type \in Watched => Expected(cmd, zltSent)
         PROVE  DataIsExpected'
    BY <1>10, <1>12 DEF DataIsExpected, Watched
  <1>13. host' \in HostType /\ (cmd.type # "EndSession" => host'.session = host.session)
    BY <1>1, <1>2, <1>3, <1>6
  <1>14. ~ret /\ cable /\ ~timeoutEvent' => host'.left = 0 /\ host'.nsp = FALSE
    BY <1>2, <1>9
  <1> HIDE DEF rejected
  <1> QED
    BY <1>4, <1>5, <1>7, <1>8, <1>11, <1>12, <1>13, <1>14 DEF Outcome, Exchanged

\* Lemma: a host told of a file expects its chunks.
LEMMA FilePropertiesSent ==
  ASSUME TypeOK, NEW n \in 0..MaxChunks, NEW ret \in BOOLEAN,
         Exchange([type |-> "FileProperties", size |-> n], FALSE, ret)
  PROVE  /\ Exchanged(ret)
         /\ host'.session = host.session
         /\ ret => host'.left = n /\ host'.nsp = host.nsp
         /\ DataIsExpected => DataIsExpected'
  <1> DEFINE cmd == [type |-> "FileProperties", size |-> n]
  <1>1. host \in HostType
    BY DEF TypeOK, HostType
  <1>2. cmd.type = "FileProperties" /\ cmd.type \in CommandNames
    BY DEF CommandNames, Command
  <1>3. HostAfter(cmd) = [host EXCEPT !.left = n]
    BY <1>2 DEF HostAfter
  <1>4. HostAfter(cmd) \in HostType
    BY <1>1, <1>3, UsbAssumption DEF HostType, NoSession
  <1>5. Outcome(cmd, FALSE, ret)
    BY <1>2, <1>4, ExchangeOutcome
  <1> QED
    BY <1>1, <1>2, <1>3, <1>5 DEF Outcome, Expected, Watched, HostType

\* Lemma: a host told of a package expects its files.
LEMMA NspPropertiesSent ==
  ASSUME TypeOK, NEW n \in 0..MaxChunks, NEW ret \in BOOLEAN,
         Exchange([type |-> "NspProperties", size |-> n], FALSE, ret)
  PROVE  /\ Exchanged(ret)
         /\ host'.session = host.session
         /\ ret => host'.left = host.left /\ host'.nsp = TRUE
         /\ DataIsExpected /\ (cable => host.session /\ host.left = 0 /\ ~host.nsp) => DataIsExpected'
  <1> DEFINE cmd == [type |-> "NspProperties", size |-> n]
  <1>1. host \in HostType
    BY DEF TypeOK, HostType
  <1>2. cmd.type = "NspProperties" /\ cmd.type \in CommandNames
    BY DEF CommandNames, Command
  <1>3. HostAfter(cmd) = [host EXCEPT !.nsp = TRUE]
    BY <1>2 DEF HostAfter
  <1>4. HostAfter(cmd) \in HostType
    BY <1>1, <1>3, UsbAssumption DEF HostType, NoSession
  <1>5. Outcome(cmd, FALSE, ret)
    BY <1>2, <1>4, ExchangeOutcome
  <1> QED
    BY <1>1, <1>2, <1>3, <1>5 DEF Outcome, Expected, Watched, HostType

\* Lemma: a chunk is one less to expect.
LEMMA DataSent ==
  ASSUME TypeOK, NEW last \in BOOLEAN, NEW aligned \in BOOLEAN,
         NEW zltSent \in BOOLEAN, NEW ret \in BOOLEAN,
         Exchange([type |-> "Data", last |-> last, aligned |-> aligned], zltSent, ret)
  PROVE  /\ Exchanged(ret)
         /\ host'.session = host.session
         /\ ret => /\ host'.left = IF host.left > 0 THEN host.left - 1 ELSE 0
                   /\ host'.nsp = host.nsp
         /\ DataIsExpected /\ (cable => host.session /\ host.left > 0 /\ zltSent = (last /\ aligned))
              => DataIsExpected'
  <1> DEFINE cmd == [type |-> "Data", last |-> last, aligned |-> aligned]
  <1>1. host \in HostType
    BY DEF TypeOK, HostType
  <1>2. cmd.type = "Data" /\ cmd.type \in CommandNames
    BY DEF CommandNames, Command
  <1>3. HostAfter(cmd) = [host EXCEPT !.left = IF host.left > 0 THEN host.left - 1 ELSE 0]
    BY <1>2 DEF HostAfter
  <1>4. HostAfter(cmd) \in HostType
    <2> DEFINE left == IF host.left > 0 THEN host.left - 1 ELSE 0
    <2>1. left \in 0..MaxChunks
      <3>1. host.left \in 0..MaxChunks
        BY <1>1 DEF HostType
      <3> QED
        BY <3>1, UsbAssumption
    <2>2. \A l \in 0..MaxChunks : [host EXCEPT !.left = l] \in HostType
      BY <1>1 DEF HostType
    <2>3. [host EXCEPT !.left = left] \in HostType
      <3> HIDE DEF left
      <3> QED
        BY <2>1, <2>2
    <2> QED
      BY <1>3, <2>3
  <1>5. Outcome(cmd, zltSent, ret)
    BY <1>2, <1>4, ExchangeOutcome
  <1> QED
    BY <1>1, <1>2, <1>3, <1>5 DEF Outcome, Expected, Watched, HostType

\* Lemma: a host told of a cancellation expects nothing more.
LEMMA CancelSent ==
  ASSUME TypeOK, NEW ret \in BOOLEAN,
         Exchange(Command("Cancel"), FALSE, ret)
  PROVE  /\ Exchanged(ret)
         /\ host'.session = host.session
         /\ ret => host'.left = 0 /\ host'.nsp = FALSE
         /\ DataIsExpected => DataIsExpected'
  <1> DEFINE cmd == Command("Cancel")
  <1>1. host \in HostType
    BY DEF TypeOK, HostType
  <1>2. cmd.type = "Cancel" /\ cmd.type \in CommandNames
    BY DEF CommandNames, Command
  <1>3. HostAfter(cmd) = [host EXCEPT !.left = 0, !.nsp = FALSE, !.extracted = FALSE]
    BY <1>2 DEF HostAfter
  <1>4. HostAfter(cmd) \in HostType
    <2>1. 0 \in 0..MaxChunks
      BY UsbAssumption
    <2> QED
      BY <1>1, <1>3, <2>1 DEF HostType
  <1>5. Outcome(cmd, FALSE, ret)
    BY <1>2, <1>4, ExchangeOutcome
  <1> QED
    BY <1>1, <1>2, <1>3, <1>5 DEF Outcome, Expected, Watched, HostType

\* Lemma: the header ends a package.
LEMMA NspHeaderSent ==
  ASSUME TypeOK, NEW ret \in BOOLEAN,
         Exchange(Command("NspHeader"), FALSE, ret)
  PROVE  /\ Exchanged(ret)
         /\ host'.session = host.session
         /\ ret => host'.left = host.left /\ host'.nsp = FALSE
         /\ DataIsExpected => DataIsExpected'
  <1> DEFINE cmd == Command("NspHeader")
  <1>1. host \in HostType
    BY DEF TypeOK, HostType
  <1>2. cmd.type = "NspHeader" /\ cmd.type \in CommandNames
    BY DEF CommandNames, Command
  <1>3. HostAfter(cmd) = [host EXCEPT !.nsp = FALSE]
    BY <1>2 DEF HostAfter
  <1>4. HostAfter(cmd) \in HostType
    BY <1>1, <1>3, UsbAssumption DEF HostType, NoSession
  <1>5. Outcome(cmd, FALSE, ret)
    BY <1>2, <1>4, ExchangeOutcome
  <1> QED
    BY <1>1, <1>2, <1>3, <1>5 DEF Outcome, Expected, Watched, HostType

\* Lemma: an extracted dump that starts changes neither the file nor the package.
LEMMA StartFsSent ==
  ASSUME TypeOK, NEW ret \in BOOLEAN,
         Exchange(Command("StartFs"), FALSE, ret)
  PROVE  /\ Exchanged(ret)
         /\ host'.session = host.session
         /\ ret => host'.left = host.left /\ host'.nsp = host.nsp
         /\ DataIsExpected => DataIsExpected'
  <1> DEFINE cmd == Command("StartFs")
  <1>1. host \in HostType
    BY DEF TypeOK, HostType
  <1>2. cmd.type = "StartFs" /\ cmd.type \in CommandNames
    BY DEF CommandNames, Command
  <1>3. HostAfter(cmd) = [host EXCEPT !.extracted = TRUE]
    BY <1>2 DEF HostAfter
  <1>4. HostAfter(cmd) \in HostType
    BY <1>1, <1>3, UsbAssumption DEF HostType, NoSession
  <1>5. Outcome(cmd, FALSE, ret)
    BY <1>2, <1>4, ExchangeOutcome
  <1> QED
    BY <1>1, <1>2, <1>3, <1>5 DEF Outcome, Expected, Watched, HostType

\* Lemma: nor does one that ends.
LEMMA EndFsSent ==
  ASSUME TypeOK, NEW ret \in BOOLEAN,
         Exchange(Command("EndFs"), FALSE, ret)
  PROVE  /\ Exchanged(ret)
         /\ host'.session = host.session
         /\ ret => host'.left = host.left /\ host'.nsp = host.nsp
         /\ DataIsExpected => DataIsExpected'
  <1> DEFINE cmd == Command("EndFs")
  <1>1. host \in HostType
    BY DEF TypeOK, HostType
  <1>2. cmd.type = "EndFs" /\ cmd.type \in CommandNames
    BY DEF CommandNames, Command
  <1>3. HostAfter(cmd) = [host EXCEPT !.extracted = FALSE]
    BY <1>2 DEF HostAfter
  <1>4. HostAfter(cmd) \in HostType
    BY <1>1, <1>3, UsbAssumption DEF HostType, NoSession
  <1>5. Outcome(cmd, FALSE, ret)
    BY <1>2, <1>4, ExchangeOutcome
  <1> QED
    BY <1>1, <1>2, <1>3, <1>5 DEF Outcome, Expected, Watched, HostType

\* Lemma: a session may end wherever there is one.
LEMMA EndSessionSent ==
  ASSUME TypeOK, NEW ret \in BOOLEAN,
         Exchange(Command("EndSession"), FALSE, ret)
  PROVE  /\ Exchanged(ret)
         /\ DataIsExpected /\ (cable => host.session) => DataIsExpected'
  <1> DEFINE cmd == Command("EndSession")
  <1>1. host \in HostType
    BY DEF TypeOK, HostType
  <1>2. cmd.type = "EndSession" /\ cmd.type \in CommandNames
    BY DEF CommandNames, Command
  <1>3. HostAfter(cmd) = NoSession
    BY <1>2 DEF HostAfter
  <1>4. HostAfter(cmd) \in HostType
    <2>1. 0 \in 0..MaxChunks
      BY UsbAssumption
    <2>2. NoSession \in HostType
      BY <2>1 DEF HostType, NoSession
    <2> QED
      BY <1>3, <2>2
  <1>5. Outcome(cmd, FALSE, ret)
    BY <1>2, <1>4, ExchangeOutcome
  <1> QED
    BY <1>1, <1>2, <1>3, <1>5 DEF Outcome, Expected, Watched, HostType

-----------------------------------------------------------------------------
\* The steps that exchange nothing

\* Lemma: the detection thread does not break the invariant: it makes the console forget a transfer,
\* and the host has forgotten it by the time the next session is up.
LEMMA DetectorKeeps == Inv /\ Detector => Inv'
  <1> SUFFICES ASSUME Inv, Detector PROVE Inv'
    OBVIOUS
  <1> USE UsbAssumption DEF Inv, TypeOK, LinkInv, DetectorInv, SyncInv, FlowInv, CountInv, Linked, Ready,
          DataFlow, TransferNeedsSession, DataIsExpected, hostVars, transferVars, sessionVars, dumpVars
  <1>1. CASE DetectorWakes
    <2>1. TypeOK'
      <3>1. hostAvailable' \in BOOLEAN /\ detector' \in {"wait", "session"}
        BY <1>1 DEF DetectorWakes
      <3>2. 0 \in 0..MaxChunks
        OBVIOUS
      <3>3. stateEvent' \in BOOLEAN /\ timeoutEvent' \in BOOLEAN
        BY <1>1 DEF DetectorWakes
      <3> QED
        BY <1>1, <3>1, <3>2, <3>3 DEF DetectorWakes, DetectorResets
    <2>2. CountInv' /\ TransferNeedsSession' /\ DataIsExpected'
      BY <1>1 DEF DetectorWakes, DetectorResets
    <2>3. DetectorInv'
      BY <1>1 DEF DetectorWakes, DetectorResets
    <2>4. LinkInv' /\ SyncInv' /\ FlowInv'
      BY <1>1 DEF DetectorWakes, DetectorResets
    <2> QED
      BY <2>1, <2>2, <2>3, <2>4
  <1>2. CASE SessionStarts
    BY <1>2 DEF SessionStarts, NoSession, eventVars
  <1>3. CASE SessionFails
    <2>1. faults' \in 0..MaxFaults
      BY <1>3 DEF SessionFails
    <2> QED
      BY <1>3, <2>1 DEF SessionFails, eventVars
  <1>4. CASE SessionAborted
    BY <1>4 DEF SessionAborted, ExitHeard
  <1>5. CASE DetectorTold
    <2>1. TypeOK'
      BY <1>5 DEF DetectorTold
    <2>2. CountInv' /\ TransferNeedsSession' /\ DataIsExpected'
      BY <1>5 DEF DetectorTold
    <2>3. DetectorInv'
      BY <1>5 DEF DetectorTold
    <2>4. LinkInv' /\ SyncInv' /\ FlowInv'
      BY <1>5 DEF DetectorTold
    <2> QED
      BY <2>1, <2>2, <2>3, <2>4
  <1>6. CASE DetectorExits
    <2>1. /\ host' \in HostType /\ faults' \in 0..MaxFaults /\ timeoutEvent' \in BOOLEAN
          /\ unexpected' \subseteq CommandNames /\ DataIsExpected'
          /\ ~cable => host' = host
      <3>1. CASE Ready
        <4>1. PICK ret \in BOOLEAN : Exchange(Command("EndSession"), FALSE, ret)
          BY <1>6, <3>1 DEF DetectorExits
        <4> QED
          BY <3>1, <4>1, EndSessionSent DEF Exchanged
      <3>2. CASE ~Ready
        BY <1>6, <3>2 DEF DetectorExits, HostType, CommandNames
      <3> QED
        BY <3>1, <3>2
    <2>2. TypeOK'
      <3>1. 0 \in 0..MaxChunks /\ 0 \in Nat
        OBVIOUS
      <3> QED
        BY <1>6, <2>1, <3>1 DEF DetectorExits, HostType, CommandNames
    <2>3. CountInv' /\ TransferNeedsSession' /\ DetectorInv'
      BY <1>6 DEF DetectorExits
    <2>4. LinkInv' /\ SyncInv' /\ FlowInv'
      BY <1>6, <2>1 DEF DetectorExits
    <2> QED
      BY <2>1, <2>2, <2>3, <2>4
  <1> QED
    BY <1>1, <1>2, <1>3, <1>4, <1>5, <1>6 DEF Detector

\* Lemma: neither does the cable, nor the thread that closes the interface.
LEMMA OthersKeep == Inv /\ (ExitSignals \/ ExitCloses \/ CablePulled \/ CablePlugged) => Inv'
  <1> SUFFICES ASSUME Inv, ExitSignals \/ ExitCloses \/ CablePulled \/ CablePlugged PROVE Inv'
    OBVIOUS
  <1> USE UsbAssumption DEF Inv, TypeOK, LinkInv, DetectorInv, SyncInv, FlowInv, CountInv, Linked, Ready,
          DataFlow, TransferNeedsSession, DataIsExpected, hostVars, transferVars, sessionVars, dumpVars
  <1>1. CASE ExitSignals
    BY <1>1 DEF ExitSignals
  <1>2. CASE ExitCloses
    BY <1>2 DEF ExitCloses, eventVars
  <1>3. CASE CablePulled
    <2>1. faults' \in 0..MaxFaults
      BY <1>3 DEF CablePulled
    <2>2. 0 \in 0..MaxChunks
      OBVIOUS
    <2>3. TypeOK' /\ CountInv' /\ DetectorInv' /\ TransferNeedsSession' /\ DataIsExpected'
      BY <1>3, <2>1, <2>2 DEF CablePulled, NoSession, threadVars
    <2>4. LinkInv' /\ SyncInv' /\ FlowInv'
      BY <1>3 DEF CablePulled, NoSession, threadVars
    <2> QED
      BY <2>3, <2>4
  <1>4. CASE CablePlugged
    BY <1>4 DEF CablePlugged, threadVars
  <1> QED
    BY <1>1, <1>2, <1>3, <1>4

-----------------------------------------------------------------------------
\* The interface's functions

\* What a call must leave behind, ...
InterfaceInv == /\ host \in HostType /\ unexpected \subseteq CommandNames
                /\ timeoutEvent \in BOOLEAN /\ faults \in 0..MaxFaults
                /\ remaining \in 0..MaxChunks /\ written \in 0..MaxChunks /\ nspMode \in BOOLEAN
                /\ zlt \in BOOLEAN
                /\ LinkInv /\ SyncInv /\ CountInv /\ TransferNeedsSession /\ DataIsExpected

\* ... and what it may not touch.
LinkKept == UNCHANGED <<cable, hostAvailable, sessionStarted, stateEvent>>

\* Lemma: an announced file leaves both ends expecting all of it; a refused one leaves them as they are
\* or, when the exchange failed, expecting nothing.
LEMMA FilePropertiesKeeps ==
  ASSUME Inv, NEW n \in 0..MaxChunks, NEW ret \in BOOLEAN, usbSendFileProperties(n, ret),
         LinkKept, UNCHANGED zlt
  PROVE  /\ InterfaceInv'
         /\ ret => /\ remaining' = n /\ timeoutEvent' = timeoutEvent
                   /\ host'.left = n
  <1> USE UsbAssumption DEF Inv, InterfaceInv, LinkInv, SyncInv, CountInv, Linked, Ready,
          TransferNeedsSession, LinkKept, HostType
  <1>1. CASE ~PropertiesAllowed(FALSE)
    BY <1>1 DEF usbSendFileProperties, SendProperties, TypeOK, hostVars, transferVars,
                DataIsExpected, CommandNames
  <1>2. CASE PropertiesAllowed(FALSE)
    <2>1. Exchange([type |-> "FileProperties", size |-> n], FALSE, ret)
      BY <1>2 DEF usbSendFileProperties, SendProperties
    <2>2. /\ Exchanged(ret) /\ DataIsExpected' /\ host'.session = host.session
          /\ ret => host'.left = n /\ host'.nsp = host.nsp
      BY <2>1, FilePropertiesSent
    <2>3. /\ remaining' = IF ret THEN n ELSE 0
          /\ written' = 0 /\ nspMode' = (ret /\ nspMode)
      BY <1>2 DEF usbSendFileProperties, SendProperties, ResetTransfer, TypeOK
    <2> QED
      BY <1>2, <2>2, <2>3 DEF Exchanged, PropertiesAllowed, TypeOK
  <1> QED
    BY <1>1, <1>2

\* Lemma: a package is announced only where the host is in no other.
LEMMA NspPropertiesKeeps ==
  ASSUME Inv, ~timeoutEvent, NEW n \in 0..MaxChunks, NEW ret \in BOOLEAN,
         usbSendNspProperties(n, ret), LinkKept, UNCHANGED zlt
  PROVE  InterfaceInv' /\ (ret => timeoutEvent' = timeoutEvent)
  <1> USE UsbAssumption DEF Inv, InterfaceInv, LinkInv, SyncInv, CountInv, Linked, Ready,
          TransferNeedsSession, LinkKept, HostType
  <1>1. CASE ~PropertiesAllowed(TRUE)
    BY <1>1 DEF usbSendNspProperties, SendProperties, TypeOK, hostVars, transferVars,
                DataIsExpected, CommandNames
  <1>2. CASE PropertiesAllowed(TRUE)
    <2>1. Exchange([type |-> "NspProperties", size |-> n], FALSE, ret)
      BY <1>2 DEF usbSendNspProperties, SendProperties
    <2>2. /\ Exchanged(ret) /\ host'.session = host.session
          /\ ret => host'.left = host.left /\ host'.nsp = TRUE
          /\ DataIsExpected /\ (cable => host.session /\ host.left = 0 /\ ~host.nsp) => DataIsExpected'
      BY <2>1, NspPropertiesSent
    <2>3. DataIsExpected'
      BY <1>2, <2>2 DEF PropertiesAllowed, TypeOK
    <2>4. /\ remaining' = IF ret THEN n ELSE 0
          /\ written' = 0 /\ nspMode' = ret
      BY <1>2 DEF usbSendNspProperties, SendProperties, ResetTransfer, TypeOK
    <2> QED
      BY <1>2, <2>2, <2>3, <2>4 DEF Exchanged, PropertiesAllowed, TypeOK
  <1> QED
    BY <1>1, <1>2

\* Lemma: a chunk that the interface lets through reaches a host that expects it, with the ZLT setting
\* it expects, and leaves both ends with one less.
LEMMA FileDataKeeps ==
  ASSUME Inv, DataFlow, NEW aligned \in BOOLEAN, NEW ret \in BOOLEAN,
         usbSendFileData(aligned, ret), LinkKept
  PROVE  /\ InterfaceInv'
         /\ ret => /\ remaining > 0 /\ remaining' = remaining - 1
                   /\ timeoutEvent' = timeoutEvent
                   /\ host'.left = remaining'
  <1> USE UsbAssumption DEF Inv, InterfaceInv, LinkInv, SyncInv, CountInv, Linked, Ready,
          TransferNeedsSession, LinkKept, HostType
  <1>1. CASE ~DataAllowed
    <2>1. /\ remaining' = 0 /\ written' = 0 /\ nspMode' = FALSE /\ ~ret
          /\ UNCHANGED <<host, unexpected, timeoutEvent, faults, zlt>>
      BY <1>1 DEF usbSendFileData, ResetTransfer, hostVars
    <2>2. CountInv'
      BY <2>1
    <2>3. LinkInv' /\ SyncInv' /\ TransferNeedsSession' /\ DataIsExpected'
      BY <1>1, <2>1 DEF DataAllowed, TypeOK, DataIsExpected, FlowInv
    <2>4. 0 \in 0..MaxChunks
      OBVIOUS
    <2> QED
      BY <2>1, <2>2, <2>3, <2>4 DEF TypeOK, CommandNames
  <1>2. CASE DataAllowed
    <2> DEFINE last == remaining = 1
               sent == ZltFor(last, aligned) /\ aligned
    <2>1. /\ ~last => aligned
          /\ Exchange([type |-> "Data", last |-> last, aligned |-> aligned], sent, ret)
          /\ zlt' = IF last /\ aligned THEN FALSE ELSE ZltFor(last, aligned)
          /\ IF ret THEN remaining' = remaining - 1 /\ written' = written + 1 /\ UNCHANGED nspMode
                    ELSE ResetTransfer
      BY <1>2 DEF usbSendFileData
    <2>2. last \in BOOLEAN /\ sent \in BOOLEAN /\ ZltFor(last, aligned) \in BOOLEAN
      BY DEF ZltFor, TypeOK
    <2>3. cable => host.session /\ host.left = remaining
      BY <1>2 DEF DataAllowed, FlowInv
    <2>4. sent = (last /\ aligned)
      <3>1. CASE last /\ aligned
        BY <3>1 DEF ZltFor
      <3>2. CASE ~last /\ written = 0
        BY <3>2 DEF ZltFor
      <3>3. CASE ~last /\ written > 0
        BY <1>2, <3>3 DEF ZltFor, DataAllowed
      <3>4. CASE last /\ ~aligned
        BY <3>4 DEF ZltFor
      <3> QED
        BY <3>1, <3>2, <3>3, <3>4 DEF TypeOK
    <2>5. /\ Exchanged(ret) /\ host'.session = host.session
          /\ ret => /\ host'.left = IF host.left > 0 THEN host.left - 1 ELSE 0
                    /\ host'.nsp = host.nsp
          /\ DataIsExpected /\ (cable => host.session /\ host.left > 0 /\ sent = (last /\ aligned))
               => DataIsExpected'
      <3> HIDE DEF last, sent
      <3> QED
        BY <2>1, <2>2, DataSent
    <2>6. DataIsExpected'
      BY <1>2, <2>3, <2>4, <2>5 DEF DataAllowed, TypeOK
    <2>7. ~timeoutEvent
      BY DEF FlowInv, DataFlow
    <2>8. CountInv'
      <3>1. CASE ~ret
        BY <2>1, <3>1 DEF ResetTransfer
      <3>2. CASE ret
        <4>1. written' + remaining' <= MaxChunks
          BY <2>1, <3>2 DEF TypeOK
        <4>2. ASSUME remaining' > 0 PROVE ~zlt'
          <5>1. remaining > 1 /\ ~last
            BY <2>1, <3>2, <4>2 DEF TypeOK
          <5>2. zlt' = IF written = 0 THEN FALSE ELSE zlt
            BY <2>1, <5>1 DEF ZltFor
          <5> QED
            BY <5>1, <5>2 DEF TypeOK
        <4> QED
          BY <4>1, <4>2
      <3> QED
        BY <3>1, <3>2
    <2>9. /\ remaining' \in 0..MaxChunks /\ written' \in 0..MaxChunks /\ nspMode' \in BOOLEAN
          /\ ret => remaining' = remaining - 1 /\ nspMode' = nspMode
          /\ ~ret => remaining' = 0 /\ nspMode' = FALSE
      <3>1. CASE ~ret
        <4>1. remaining' = 0 /\ written' = 0 /\ nspMode' = FALSE
          BY <2>1, <3>1 DEF ResetTransfer
        <4>2. 0 \in 0..MaxChunks
          OBVIOUS
        <4> QED
          BY <3>1, <4>1, <4>2
      <3>2. CASE ret
        <4>1. /\ remaining' = remaining - 1 /\ written' = written + 1 /\ nspMode' = nspMode
              /\ remaining > 0
          BY <1>2, <2>1, <3>2 DEF DataAllowed
        <4>2. remaining - 1 \in 0..MaxChunks /\ written + 1 \in 0..MaxChunks
          BY <4>1 DEF TypeOK
        <4>3. nspMode \in BOOLEAN
          BY DEF TypeOK
        <4> QED
          BY <3>2, <4>1, <4>2, <4>3
      <3> QED
        BY <3>1, <3>2
    <2>10. zlt' \in BOOLEAN
      BY <2>1, <2>2
    <2>11. ret => cable /\ remaining > 0 /\ host'.left = remaining' /\ host'.nsp = host.nsp
      BY <1>2, <2>3, <2>5, <2>9 DEF DataAllowed, TypeOK, Exchanged
    <2>12. LinkInv' /\ SyncInv' /\ TransferNeedsSession'
      <3>1. CASE ~ret
        BY <1>2, <2>5, <2>9, <3>1 DEF DataAllowed, Exchanged, TypeOK
      <3>2. CASE ret
        BY <1>2, <2>5, <2>9, <2>7, <2>11, <3>2 DEF DataAllowed, Exchanged, TypeOK
      <3> QED
        BY <3>1, <3>2
    <2> HIDE DEF last, sent
    <2> QED
      BY <2>5, <2>6, <2>8, <2>9, <2>10, <2>11, <2>12 DEF Exchanged
  <1> QED
    BY <1>1, <1>2

\* Lemma: a cancellation ends what both ends have open.
LEMMA CancelKeeps ==
  ASSUME Inv, usbCancelFileTransfer, LinkKept, UNCHANGED zlt
  PROVE  InterfaceInv'
  <1> USE UsbAssumption DEF Inv, InterfaceInv, LinkInv, SyncInv, CountInv, Linked, Ready,
          TransferNeedsSession, LinkKept, HostType
  <1> DEFINE allowed == Ready /\ (remaining > 0 \/ nspMode)
  <1>1. CASE ~allowed
    BY <1>1 DEF usbCancelFileTransfer, TypeOK, hostVars, transferVars, DataIsExpected, CommandNames
  <1>2. CASE allowed
    <2>1. PICK ret \in BOOLEAN : Exchange(Command("Cancel"), FALSE, ret)
      BY <1>2 DEF usbCancelFileTransfer
    <2>2. /\ Exchanged(ret) /\ DataIsExpected' /\ host'.session = host.session
          /\ ret => host'.left = 0 /\ host'.nsp = FALSE
      BY <2>1, CancelSent
    <2>3. remaining' = 0 /\ written' = 0 /\ nspMode' = FALSE
      BY <1>2 DEF usbCancelFileTransfer, ResetTransfer
    <2>4. 0 \in 0..MaxChunks /\ CountInv'
      BY <2>3
    <2>5. LinkInv' /\ SyncInv' /\ TransferNeedsSession'
      BY <1>2, <2>2, <2>3 DEF Exchanged, TypeOK
    <2> QED
      BY <2>2, <2>3, <2>4, <2>5 DEF Exchanged, TypeOK
  <1> QED
    BY <1>1, <1>2

\* Lemma: the header takes both ends out of the package.
LEMMA NspHeaderKeeps ==
  ASSUME Inv, NEW ret \in BOOLEAN, usbSendNspHeader(ret), LinkKept
  PROVE  InterfaceInv' /\ (ret => timeoutEvent' = timeoutEvent)
  <1> USE UsbAssumption DEF Inv, InterfaceInv, LinkInv, SyncInv, CountInv, Linked, Ready,
          TransferNeedsSession, LinkKept, HostType
  <1> DEFINE allowed == Ready /\ remaining = 0 /\ nspMode
  <1>1. CASE ~allowed
    <2>1. ~ret /\ UNCHANGED <<host, unexpected, timeoutEvent, faults, remaining, written, nspMode, zlt>>
      BY <1>1 DEF usbSendNspHeader, hostVars, transferVars
    <2> QED
      BY <2>1 DEF TypeOK, DataIsExpected, CommandNames
  <1>2. CASE allowed
    <2>1. /\ Exchange(Command("NspHeader"), FALSE, ret)
          /\ nspMode' = FALSE /\ zlt' \in {zlt, FALSE} /\ UNCHANGED <<remaining, written>>
      BY <1>2 DEF usbSendNspHeader
    <2>2. /\ Exchanged(ret) /\ DataIsExpected' /\ host'.session = host.session
          /\ ret => host'.left = host.left /\ host'.nsp = FALSE
      BY <2>1, NspHeaderSent
    <2>3. CountInv' /\ zlt' \in BOOLEAN
      <3>1. CASE zlt' = zlt
        BY <2>1, <3>1 DEF TypeOK
      <3>2. CASE zlt' = FALSE
        BY <2>1, <3>2 DEF TypeOK
      <3> QED
        BY <2>1, <3>1, <3>2
    <2>4. LinkInv' /\ SyncInv' /\ TransferNeedsSession'
      BY <1>2, <2>1, <2>2 DEF Exchanged, TypeOK
    <2> QED
      BY <2>1, <2>2, <2>3, <2>4 DEF Exchanged, TypeOK
  <1> QED
    BY <1>1, <1>2

\* Lemma: starting an extracted dump changes nothing else.
LEMMA StartExtractedKeeps ==
  ASSUME Inv, NEW ret \in BOOLEAN, usbStartExtractedFsDump(ret), LinkKept, UNCHANGED zlt
  PROVE  InterfaceInv' /\ (ret => timeoutEvent' = timeoutEvent)
  <1> USE UsbAssumption DEF Inv, InterfaceInv, LinkInv, SyncInv, CountInv, Linked, Ready,
          TransferNeedsSession, LinkKept, HostType
  <1>1. CASE ~ExtractedAllowed
    BY <1>1 DEF usbStartExtractedFsDump, TypeOK, hostVars, transferVars, DataIsExpected, CommandNames
  <1>2. CASE ExtractedAllowed
    <2>1. Exchange(Command("StartFs"), FALSE, ret) /\ UNCHANGED <<remaining, written, nspMode>>
      BY <1>2 DEF usbStartExtractedFsDump, transferVars
    <2>2. /\ Exchanged(ret) /\ DataIsExpected' /\ host'.session = host.session
          /\ ret => host'.left = host.left /\ host'.nsp = host.nsp
      BY <2>1, StartFsSent
    <2> QED
      BY <1>2, <2>1, <2>2 DEF Exchanged, TypeOK
  <1> QED
    BY <1>1, <1>2

\* Lemma: nor does ending one.
LEMMA EndExtractedKeeps ==
  ASSUME Inv, usbEndExtractedFsDump, LinkKept, UNCHANGED zlt
  PROVE  InterfaceInv'
  <1> USE UsbAssumption DEF Inv, InterfaceInv, LinkInv, SyncInv, CountInv, Linked, Ready,
          TransferNeedsSession, LinkKept, HostType
  <1>1. CASE ~ExtractedAllowed
    BY <1>1 DEF usbEndExtractedFsDump, TypeOK, hostVars, transferVars, DataIsExpected, CommandNames
  <1>2. CASE ExtractedAllowed
    <2>1. PICK ret \in BOOLEAN : Exchange(Command("EndFs"), FALSE, ret)
      BY <1>2 DEF usbEndExtractedFsDump
    <2>2. /\ Exchanged(ret) /\ DataIsExpected' /\ host'.session = host.session
          /\ ret => host'.left = host.left /\ host'.nsp = host.nsp
      BY <2>1, EndFsSent
    <2>3. UNCHANGED <<remaining, written, nspMode>>
      BY DEF usbEndExtractedFsDump, transferVars
    <2> QED
      BY <1>2, <2>2, <2>3 DEF Exchanged, TypeOK
  <1> QED
    BY <1>1, <1>2

-----------------------------------------------------------------------------
\* The dumps

\* Lemma: a dump's call leaves the threads alone, so the rest of the invariant is about the call and
\* the dump.
LEMMA CallerKeeps ==
  ASSUME Inv, Caller, InterfaceInv', FlowInv',
         flow' \in Flows, entries' \in 0..MaxEntries, toSend' \in 0..MaxChunks
  PROVE  Inv'
  <1>1. TypeOK'
    BY DEF Inv, TypeOK, Caller, InterfaceInv, HostType, CommandNames, sessionVars, eventVars, threadVars
  <1>2. DetectorInv'
    BY DEF Inv, TypeOK, Caller, MutexFree, DetectorInv, sessionVars, eventVars, threadVars
  <1> QED
    BY <1>1, <1>2 DEF Inv, InterfaceInv

\* Lemma: outside a file, only a time-out can be out of step with a dump.
LEMMA OutsideFile ==
  ASSUME flow' \in Flows \ {"file", "nspFile", "fsFile"}, timeoutEvent' => flow' \in {"idle", "cancel"}
  PROVE  FlowInv'
  BY DEF FlowInv, DataFlow

\* Lemma: at the start of a file both ends count all of it.
LEMMA FileBegins ==
  ASSUME ~timeoutEvent', toSend' \in Nat \ {0}, remaining' = toSend', host'.left = toSend'
  PROVE  FlowInv'
  BY DEF FlowInv

\* Lemma: a dump that starts does not break the invariant.
LEMMA StartsKeep == Inv /\ (StartFile \/ StartNsp \/ StartFs) => Inv'
  <1> SUFFICES ASSUME Inv, StartFile \/ StartNsp \/ StartFs PROVE Inv'
    OBVIOUS
  <1>1. /\ Caller /\ ~timeoutEvent /\ zlt' = zlt /\ LinkKept
    BY DEF StartFile, StartNsp, StartFs, UserStarts, Caller, LinkKept, sessionVars, eventVars
  <1>2. /\ 0 \in 0..MaxEntries /\ 0 \in 0..MaxChunks /\ MaxChunks \in 0..MaxChunks
        /\ 1..MaxEntries \subseteq 0..MaxEntries /\ 1..MaxChunks \subseteq 0..MaxChunks
    BY UsbAssumption
  <1>3. CASE StartFile
    <2>1. PICK n \in 1..MaxChunks, ret \in BOOLEAN :
            /\ usbSendFileProperties(n, ret)
            /\ IF ret THEN Goto("file", 0, n) ELSE Goto("idle", 0, 0)
      BY <1>3 DEF StartFile
    <2>2. /\ InterfaceInv'
          /\ ret => remaining' = n /\ timeoutEvent' = timeoutEvent /\ host'.left = n
      BY <1>1, <1>2, <2>1, FilePropertiesKeeps
    <2>3. /\ flow' = (IF ret THEN "file" ELSE "idle") /\ entries' = 0
          /\ toSend' = IF ret THEN n ELSE 0
      BY <2>1 DEF Goto
    <2>4. FlowInv'
      <3>1. CASE ret
        BY <1>1, <2>2, <2>3, <3>1, FileBegins
      <3>2. CASE ~ret
        BY <2>3, <3>2, OutsideFile DEF Flows
      <3> QED
        BY <3>1, <3>2
    <2> QED
      BY <1>1, <1>2, <2>2, <2>3, <2>4, CallerKeeps DEF Flows
  <1>4. CASE StartNsp
    <2>1. PICK k \in 1..MaxEntries, ret \in BOOLEAN :
            /\ usbSendNspProperties(MaxChunks, ret)
            /\ IF ret THEN Goto("nsp", k, 0) ELSE Goto("cancel", 0, 0)
      BY <1>4 DEF StartNsp
    <2>2. InterfaceInv' /\ (ret => timeoutEvent' = timeoutEvent)
      BY <1>1, <1>2, <2>1, NspPropertiesKeeps
    <2>3. /\ flow' = (IF ret THEN "nsp" ELSE "cancel") /\ entries' = (IF ret THEN k ELSE 0)
          /\ toSend' = 0
      BY <2>1 DEF Goto
    <2>4. FlowInv'
      BY <1>1, <2>2, <2>3, OutsideFile DEF Flows
    <2> QED
      BY <1>1, <1>2, <2>2, <2>3, <2>4, CallerKeeps DEF Flows
  <1>5. CASE StartFs
    <2>1. PICK k \in 1..MaxEntries, ret \in BOOLEAN :
            /\ usbStartExtractedFsDump(ret)
            /\ IF ret THEN Goto("fs", k, 0) ELSE Goto("idle", 0, 0)
      BY <1>5 DEF StartFs
    <2>2. InterfaceInv' /\ (ret => timeoutEvent' = timeoutEvent)
      BY <1>1, <2>1, StartExtractedKeeps
    <2>3. /\ flow' = (IF ret THEN "fs" ELSE "idle") /\ entries' = (IF ret THEN k ELSE 0)
          /\ toSend' = 0
      BY <2>1 DEF Goto
    <2>4. FlowInv'
      BY <1>1, <2>2, <2>3, OutsideFile DEF Flows
    <2> QED
      BY <1>1, <1>2, <2>2, <2>3, <2>4, CallerKeeps DEF Flows
  <1> QED
    BY <1>3, <1>4, <1>5

\* Lemma: a dump that moves on between two files does not break it.
LEMMA BetweenFilesKeeps == Inv /\ (NspFile \/ NspEnds \/ FsFile \/ FsEnds) => Inv'
  <1> SUFFICES ASSUME Inv, NspFile \/ NspEnds \/ FsFile \/ FsEnds PROVE Inv'
    OBVIOUS
  <1>1. /\ Caller /\ LinkKept /\ flow \in {"nsp", "fs"}
        /\ NspFile \/ FsFile \/ FsEnds => zlt' = zlt
    BY DEF NspFile, NspEnds, FsFile, FsEnds, Caller, LinkKept, sessionVars, eventVars
  <1>2. ~timeoutEvent
    BY <1>1 DEF Inv, FlowInv
  <1>3. /\ 0 \in 0..MaxEntries /\ 0 \in 0..MaxChunks /\ 1..MaxChunks \subseteq 0..MaxChunks
        /\ entries > 0 => entries - 1 \in 0..MaxEntries
        /\ \A n \in 0..MaxChunks : n > 0 => n \in Nat \ {0}
    BY UsbAssumption DEF Inv, TypeOK
  <1>4. CASE NspFile
    <2>1. PICK n \in 1..MaxChunks, ret \in BOOLEAN :
            /\ usbSendFileProperties(n, ret)
            /\ IF ret THEN Goto("nspFile", entries - 1, n) ELSE Goto("cancel", 0, 0)
      BY <1>4 DEF NspFile
    <2>2. /\ InterfaceInv'
          /\ ret => remaining' = n /\ timeoutEvent' = timeoutEvent /\ host'.left = n
      BY <1>1, <1>3, <1>4, <2>1, FilePropertiesKeeps
    <2>3. /\ flow' = (IF ret THEN "nspFile" ELSE "cancel")
          /\ entries' = (IF ret THEN entries - 1 ELSE 0)
          /\ toSend' = IF ret THEN n ELSE 0
      BY <2>1 DEF Goto
    <2>4. FlowInv'
      <3>1. CASE ret
        BY <1>2, <2>2, <2>3, <3>1, FileBegins
      <3>2. CASE ~ret
        BY <2>3, <3>2, OutsideFile DEF Flows
      <3> QED
        BY <3>1, <3>2
    <2> QED
      BY <1>1, <1>3, <1>4, <2>2, <2>3, <2>4, CallerKeeps DEF Flows, NspFile
  <1>5. CASE NspEnds
    <2>1. PICK ret \in BOOLEAN :
            usbSendNspHeader(ret) /\ IF ret THEN Goto("idle", 0, 0) ELSE Goto("cancel", 0, 0)
      BY <1>5 DEF NspEnds
    <2>2. InterfaceInv'
      BY <1>1, <2>1, NspHeaderKeeps
    <2>3. flow' \in {"idle", "cancel"} /\ entries' = 0 /\ toSend' = 0
      BY <2>1 DEF Goto
    <2>4. FlowInv'
      BY <2>3, OutsideFile DEF Flows
    <2> QED
      BY <1>1, <1>3, <2>2, <2>3, <2>4, CallerKeeps DEF Flows
  <1>6. CASE FsFile
    <2>1. PICK n \in 0..MaxChunks, ret \in BOOLEAN :
            /\ usbSendFileProperties(n, ret)
            /\ CASE ret /\ n > 0 -> Goto("fsFile", entries - 1, n)
                 [] ret /\ n = 0 -> Goto("fs", entries - 1, 0)
                 [] OTHER        -> Goto("idle", 0, 0)
      BY <1>6 DEF FsFile
    <2>2. /\ InterfaceInv'
          /\ ret => remaining' = n /\ timeoutEvent' = timeoutEvent /\ host'.left = n
      BY <1>1, <1>6, <2>1, FilePropertiesKeeps
    <2>3. CASE ret /\ n > 0
      <3>1. flow' = "fsFile" /\ entries' = entries - 1 /\ toSend' = n
        BY <2>1, <2>3 DEF Goto
      <3>2. FlowInv'
        BY <1>2, <1>3, <2>2, <2>3, <3>1, FileBegins
      <3> QED
        BY <1>1, <1>3, <1>6, <2>2, <3>1, <3>2, CallerKeeps DEF Flows, FsFile
    <2>4. CASE ~(ret /\ n > 0)
      <3>1. /\ flow' = (IF ret THEN "fs" ELSE "idle")
            /\ entries' = (IF ret THEN entries - 1 ELSE 0) /\ toSend' = 0
        BY <2>1, <2>4 DEF Goto
      <3>2. FlowInv'
        BY <1>2, <2>2, <3>1, OutsideFile DEF Flows
      <3> QED
        BY <1>1, <1>3, <1>6, <2>2, <3>1, <3>2, CallerKeeps DEF Flows, FsFile
    <2> QED
      BY <2>3, <2>4
  <1>7. CASE FsEnds
    <2>1. usbEndExtractedFsDump /\ flow' = "idle" /\ entries' = 0 /\ toSend' = 0
      BY <1>7 DEF FsEnds, Goto
    <2>2. InterfaceInv'
      BY <1>1, <1>7, <2>1, EndExtractedKeeps
    <2>3. FlowInv'
      BY <2>1, OutsideFile DEF Flows
    <2> QED
      BY <1>1, <1>3, <2>1, <2>2, <2>3, CallerKeeps DEF Flows
  <1> QED
    BY <1>4, <1>5, <1>6, <1>7

\* Lemma: a chunk does not break it: the interface and the host both count it, or the dump is over.
LEMMA SendChunkKeeps == Inv /\ SendChunk => Inv'
  <1> SUFFICES ASSUME Inv, SendChunk PROVE Inv'
    OBVIOUS
  <1>1. /\ Caller /\ LinkKept /\ DataFlow
        /\ AfterFile \in {"idle", "nsp", "fs"} /\ AfterFailure \in {"idle", "cancel"}
    BY DEF SendChunk, Caller, LinkKept, sessionVars, eventVars, DataFlow, AfterFile, AfterFailure
  <1>2. PICK aligned \in BOOLEAN, ret \in BOOLEAN :
          /\ usbSendFileData(aligned, ret)
          /\ CASE ret /\ toSend > 1 -> Goto(flow, entries, toSend - 1)
               [] ret /\ toSend = 1 -> Goto(AfterFile, entries, 0)
               [] OTHER             -> Goto(AfterFailure, 0, 0)
    BY DEF SendChunk
  <1>3. /\ InterfaceInv'
        /\ ret => /\ remaining > 0 /\ remaining' = remaining - 1
                  /\ timeoutEvent' = timeoutEvent
                  /\ host'.left = remaining'
    BY <1>1, <1>2, FileDataKeeps
  <1>4. /\ ~timeoutEvent /\ toSend \in 1..MaxChunks /\ remaining \in {0, toSend}
        /\ flow \in Flows /\ entries \in 0..MaxEntries /\ 0 \in 0..MaxEntries /\ 0 \in 0..MaxChunks
    BY <1>1, UsbAssumption DEF Inv, TypeOK, FlowInv, DataFlow
  <1>5. CASE ret /\ toSend > 1
    <2>1. flow' = flow /\ entries' = entries /\ toSend' = toSend - 1
      BY <1>2, <1>5 DEF Goto
    <2>2. /\ toSend - 1 \in Nat \ {0} /\ toSend - 1 \in 0..MaxChunks
          /\ remaining' = toSend - 1 /\ host'.left = toSend - 1
      BY <1>3, <1>4, <1>5, UsbAssumption
    <2>3. FlowInv'
      BY <1>3, <1>4, <1>5, <2>1, <2>2, FileBegins
    <2> QED
      BY <1>1, <1>3, <1>4, <2>1, <2>2, <2>3, CallerKeeps
  <1>6. CASE ret /\ toSend = 1
    <2>1. flow' = AfterFile /\ entries' = entries /\ toSend' = 0
      BY <1>2, <1>6 DEF Goto
    <2>2. FlowInv'
      BY <1>1, <1>3, <1>4, <1>6, <2>1, OutsideFile DEF Flows
    <2> QED
      BY <1>1, <1>3, <1>4, <2>1, <2>2, CallerKeeps DEF Flows
  <1>7. CASE ~ret
    <2>1. flow' = AfterFailure /\ entries' = 0 /\ toSend' = 0
      BY <1>2, <1>7 DEF Goto
    <2>2. FlowInv'
      BY <1>1, <2>1, OutsideFile DEF Flows
    <2> QED
      BY <1>1, <1>3, <1>4, <2>1, <2>2, CallerKeeps DEF Flows
  <1> QED
    BY <1>4, <1>5, <1>6, <1>7

\* Lemma: nor does a dump that ends early.
LEMMA EndsKeep == Inv /\ (SourceFails \/ UserCancels \/ Cancel) => Inv'
  <1> SUFFICES ASSUME Inv, SourceFails \/ UserCancels \/ Cancel PROVE Inv'
    OBVIOUS
  <1>1. 0 \in 0..MaxEntries /\ 0 \in 0..MaxChunks
    BY UsbAssumption
  <1>2. flow' \in {"idle", "cancel"} /\ entries' = 0 /\ toSend' = 0
    BY DEF SourceFails, UserCancels, Cancel, Goto, AfterFailure
  <1>3. FlowInv'
    BY <1>2, OutsideFile DEF Flows
  <1>4. CASE SourceFails \/ UserCancels
    <2>1. UNCHANGED <<cable, host, unexpected, remaining, written, nspMode, hostAvailable,
                      sessionStarted, stateEvent, exitEvent, exitFlag, timeoutEvent, detector, app,
                      zlt, faults>>
      BY <1>4 DEF SourceFails, UserCancels, hostVars, transferVars, sessionVars, eventVars, threadVars
    <2>2. TypeOK'
      BY <1>1, <1>2, <2>1 DEF Inv, TypeOK, Flows
    <2>3. app = "run"
      BY <1>4 DEF SourceFails, UserCancels
    <2> QED
      BY <1>3, <2>1, <2>2, <2>3 DEF Inv, LinkInv, DetectorInv, SyncInv, CountInv, Linked, Ready,
                                    TransferNeedsSession, DataIsExpected
  <1>5. CASE Cancel
    <2>1. Caller /\ LinkKept /\ zlt' = zlt /\ usbCancelFileTransfer
      BY <1>5 DEF Cancel, Caller, LinkKept, sessionVars, eventVars
    <2>2. InterfaceInv'
      BY <2>1, CancelKeeps
    <2> QED
      BY <1>1, <1>2, <1>3, <2>1, <2>2, CallerKeeps DEF Flows
  <1> QED
    BY <1>4, <1>5

-----------------------------------------------------------------------------
\* The theorems

\* The invariant holds of the specification.
THEOREM InvHolds == Spec => []Inv
  <1>1. Init => Inv
    <2> SUFFICES ASSUME Init PROVE Inv
      OBVIOUS
    <2>1. 0 \in 0..MaxChunks /\ 0 \in 0..MaxEntries /\ 0 \in 0..MaxFaults /\ 0 <= MaxChunks
      BY UsbAssumption
    <2>2. TypeOK
      BY <2>1 DEF Init, TypeOK, NoSession, Flows
    <2>3. CountInv
      BY <2>1 DEF Init, CountInv
    <2> QED
      BY <2>2, <2>3 DEF Init, Inv, LinkInv, DetectorInv, SyncInv, FlowInv, Linked, Ready, DataFlow,
                        NoSession, TransferNeedsSession, DataIsExpected
  <1>2. Inv /\ [Next]_vars => Inv'
    <2> SUFFICES ASSUME Inv, [Next]_vars PROVE Inv'
      OBVIOUS
    <2>1. CASE UNCHANGED vars
      BY <2>1 DEF vars, hostVars, transferVars, sessionVars, eventVars, dumpVars, threadVars,
                  Inv, TypeOK, LinkInv, DetectorInv, SyncInv, FlowInv, CountInv, Linked, Ready,
                  DataFlow, TransferNeedsSession, DataIsExpected
    <2>2. CASE Next
      BY <2>2, DetectorKeeps, OthersKeep, StartsKeep, BetweenFilesKeeps, SendChunkKeeps, EndsKeep
         DEF Next, Dump
    <2> QED
      BY <2>1, <2>2
  <1> QED
    BY <1>1, <1>2, PTL DEF Spec

\* Every variable keeps its type, for any sizes and any number of faults.
THEOREM TypeCorrect == Spec => []TypeOK
  <1>1. Inv => TypeOK
    BY DEF Inv
  <1> QED
    BY <1>1, InvHolds, PTL

\* No chunk, no package and no end of a session reaches a host that does not expect it: the checks of
\* usbSendFileData and usbSendNspProperties on the console's own record are enough (usb.c).
THEOREM DataExpected == Spec => []DataIsExpected
  <1>1. Inv => DataIsExpected
    BY DEF Inv
  <1> QED
    BY <1>1, InvHolds, PTL

\* A transfer is open only inside a session, and a session only on a host that was seen (usb.c).
THEOREM TransfersNeedSessions == Spec => []TransferNeedsSession
  <1>1. Inv => TransferNeedsSession
    BY DEF Inv
  <1> QED
    BY <1>1, InvHolds, PTL
=============================================================================
