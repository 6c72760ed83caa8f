---------------------------- MODULE NetworkProofs ----------------------------
(***************************************************************************)
(* Proofs about the network window of FriishProduce, for any set of devices *)
(* and any number of clicks.  Of the handlers (NetworkExtraction): one      *)
(* extraction at a time, and no connection started during it.  Of the       *)
(* discovery (Discovery): the window's list is current whenever nobody is   *)
(* at work on it, and only silent devices leave.                            *)
(***************************************************************************)
EXTENDS Discovery, NetworkExtraction, TLAPS

-----------------------------------------------------------------------------
(* The handlers.  What keeps them apart is only which controls are enabled, *)
(* and these are written by every handler.                                  *)

\* What all handlers respect: while an operation is in progress the devices' group box and the extract
\* button stay disabled, whichever answers arrive meanwhile, and no file is asked for.
BusyInv == /\ isOperationInProgress <=> operation # Idle
           /\ dialogOpen => ~isOperationInProgress
           /\ isOperationInProgress => ~devicesEnabled /\ ~extractEnabled

ExtractionInv == TypeOK /\ BusyInv

\* Lemma: the invariant holds when the window opens.
LEMMA ExtractionInitInv == Init => ExtractionInv
  <1> SUFFICES ASSUME Init PROVE ExtractionInv
    OBVIOUS
  <1>1. clicks \in 0..MaxClicks
    BY ClicksAssumption DEF Init
  <1> QED
    BY <1>1 DEF Init, ExtractionInv, TypeOK, BusyInv

\* Lemma: a click is counted within the bound.
LEMMA ClickCounted == Click /\ clicks \in 0..MaxClicks => clicks' \in 0..MaxClicks
  BY ClicksAssumption DEF Click

\* Lemma: nothing the user can do breaks it; a title selected during an operation enables nothing.
LEMMA UserKeeps == ExtractionInv /\ User => ExtractionInv'
  <1> SUFFICES ASSUME ExtractionInv, User PROVE ExtractionInv'
    OBVIOUS
  <1> USE DEF ExtractionInv, TypeOK, BusyInv, selection, groups, buttons, extraction
  <1>1. ASSUME NEW d \in Devices \cup {NoDevice}, SelectDevice(d) PROVE ExtractionInv'
    BY <1>1 DEF SelectDevice
  <1>2. CASE LoseDevice
    BY <1>2 DEF LoseDevice
  <1>3. CASE SelectTitle
    BY <1>3 DEF SelectTitle, MayExtract
  <1>4. CASE ClickConnect
    <2>1. [stage |-> "connect", device |-> selectedDevice] \in Waits
      BY <1>4 DEF ClickConnect, MayConnect, Waits
    <2>2. waiting' \subseteq Waits
      BY <1>4, <2>1 DEF ClickConnect
    <2>3. clicks' \in 0..MaxClicks
      BY <1>4, ClickCounted DEF ClickConnect
    <2>4. /\ connectEnabled' = FALSE
          /\ UNCHANGED <<selection, listedFrom, connectedDevice, groups, refreshEnabled, extractEnabled,
                         extraction>>
      BY <1>4 DEF ClickConnect
    <2> QED
      BY <1>4, <2>2, <2>3, <2>4
  <1>5. CASE ClickRefreshTitles
    <2>1. [stage |-> "refreshList", device |-> connectedDevice] \in Waits
      BY <1>5 DEF ClickRefreshTitles, Waits
    <2> QED
      BY <1>5, <2>1, ClickCounted DEF ClickRefreshTitles
  <1>6. CASE ClickExtract
    BY <1>6, ClickCounted DEF ClickExtract
  <1>7. CASE FileChosen
    <2>1. CASE selectedTitle # NoDevice
      <3>1. operation' \in [stage : {"request", "poll", "download"}, title : Devices]
        BY <1>7, <2>1 DEF FileChosen
      <3>2. operation' # Idle
        BY <1>7, <2>1 DEF FileChosen, Idle
      <3> QED
        BY <1>7, <2>1, <3>1, <3>2 DEF FileChosen
    <2>2. CASE selectedTitle = NoDevice
      <3>1. operation' = [stage |-> "failed", title |-> NoDevice] /\ operation' # Idle
        BY <1>7, <2>2 DEF FileChosen, Idle
      <3> QED
        BY <1>7, <2>2, <3>1 DEF FileChosen
    <2> QED
      BY <2>1, <2>2
  <1>8. CASE NoFileChosen
    BY <1>8 DEF NoFileChosen
  <1> QED
    BY <1>1, <1>2, <1>3, <1>4, <1>5, <1>6, <1>7, <1>8 DEF User

\* Lemma: no answer breaks it, in whatever order they arrive: none but the end of the operation itself
\* enables the devices or the extract button.
LEMMA AnswersKeep == ExtractionInv /\ Answers => ExtractionInv'
  <1> SUFFICES ASSUME ExtractionInv, Answers PROVE ExtractionInv'
    OBVIOUS
  <1> USE DEF ExtractionInv, TypeOK, BusyInv, selection, groups, buttons, extraction
  <1>1. ASSUME NEW w \in waiting, Connected(w) PROVE ExtractionInv'
    <2>1. w.device \in Devices /\ [w EXCEPT !.stage = "connectList"] \in Waits
      BY DEF Waits
    <2> QED
      BY <1>1, <2>1 DEF Connected
  <1>2. ASSUME NEW w \in waiting, NotConnected(w) PROVE ExtractionInv'
    BY <1>2 DEF NotConnected, ConnectAgain
  <1>3. ASSUME NEW w \in waiting, TitlesListed(w) PROVE ExtractionInv'
    <2>1. w.device \in Devices
      BY DEF Waits
    <2>2. consoleEnabled' \in BOOLEAN /\ connectEnabled' \in BOOLEAN
      BY <1>3 DEF TitlesListed, ListAnswered
    <2>3. CASE UNCHANGED <<selectedTitle, extractEnabled>>
      BY <1>3, <2>1, <2>2, <2>3 DEF TitlesListed, ListAnswered
    <2>4. CASE selectedTitle' = NoDevice /\ extractEnabled' = FALSE
      BY <1>3, <2>1, <2>2, <2>4 DEF TitlesListed, ListAnswered
    <2> QED
      BY <1>3, <2>3, <2>4 DEF TitlesListed
  <1>4. ASSUME NEW w \in waiting, NotListed(w) PROVE ExtractionInv'
    BY <1>4 DEF NotListed, ListAnswered
  <1>5. CASE OperationGoesOn
    <2>1. operation \in [stage : {"request", "poll", "download"}, title : Devices]
      BY <1>5 DEF OperationGoesOn, Idle
    <2>2. /\ operation' \in [stage : {"request", "poll", "download"}, title : Devices]
          /\ operation'.stage # "none"
      BY <1>5, <2>1 DEF OperationGoesOn
    <2> QED
      BY <1>5, <2>1, <2>2 DEF OperationGoesOn, Idle
  <1>6. CASE OperationEnds
    BY <1>6 DEF OperationEnds, MayExtract, TitlesOn
  <1> QED
    BY <1>1, <1>2, <1>3, <1>4, <1>5, <1>6 DEF Answers

\* Theorem: the invariant holds in every reachable state.
THEOREM ExtractionInvHolds == Spec => []ExtractionInv
  <1>1. ExtractionInv /\ [Next]_vars => ExtractionInv'
    <2> SUFFICES ASSUME ExtractionInv, [Next]_vars PROVE ExtractionInv'
      OBVIOUS
    <2>1. CASE UNCHANGED vars
      BY <2>1 DEF ExtractionInv, TypeOK, BusyInv, vars, selection, groups, buttons, extraction
    <2> QED
      BY <2>1, UserKeeps, AnswersKeep DEF Next
  <1> QED
    BY ExtractionInitInv, <1>1, PTL DEF Spec

\* Theorem: every control and every request of the window keeps to its values.
THEOREM ExtractionTypeCorrect == Spec => []TypeOK
  <1>1. ExtractionInv => TypeOK
    BY DEF ExtractionInv
  <1> QED
    BY <1>1, ExtractionInvHolds, PTL

\* Theorem: no extraction starts before the last one has ended (ButtonExtractAndInject_Click),
\* though the check and the start are two steps with a dialog between them.
THEOREM OneAtATime == Spec => OneExtraction
  <1>1. ExtractionInv /\ [Next]_vars => [FileChosen => operation = Idle]_vars
    BY DEF ExtractionInv, BusyInv, FileChosen
  <1> QED
    BY <1>1, ExtractionInvHolds, PTL DEF Spec, OneExtraction

\* Theorem: no connection is started while an extraction runs (ButtonConnect_Click).
THEOREM NoneConnectsMeanwhile == Spec => NoConnectDuringExtraction
  <1>1. ExtractionInv /\ [Next]_vars => [ClickConnect => ~isOperationInProgress]_vars
    BY DEF ExtractionInv, BusyInv, ClickConnect, MayConnect
  <1> QED
    BY <1>1, ExtractionInvHolds, PTL DEF Spec, NoConnectDuringExtraction

-----------------------------------------------------------------------------
(* The discovery.  ListIsCurrent says nothing of the moments at which       *)
(* devicesLock is held.  It is inductive once one knows how far the list is *)
(* behind then: by the one device whose event is waiting for the window's   *)
(* thread.                                                                  *)

\* The lock is held by the thread whose place in the code says so.
LockInv == /\ lock = "timer" <=> timer # "idle"
           /\ lock = "listener" <=> listener = "invoke"

\* Outside a refresh, which has emptied it, the list lacks the device that is being announced and still
\* has the one that is being removed.
ListInv == ui # "refresh" =>
             /\ lock = "free" \/ timer = "remove" => shown = discovered
             /\ listener = "invoke" => shown \cup {heard} = discovered
             /\ timer = "invoke" => shown \ {leaving} = discovered

\* No device is heard of while the timer removes those that were silent when it took the lock.
RemovalInv == timer # "idle" => toRemove \subseteq silent

DiscoveryInv == DiscoveryTypeOK /\ LockInv /\ ListInv /\ RemovalInv

\* Lemma: the invariant holds when the client has been created.
LEMMA DiscoveryInitInv == DiscoveryInit => DiscoveryInv
  <1> SUFFICES ASSUME DiscoveryInit PROVE DiscoveryInv
    OBVIOUS
  <1>1. online \in BOOLEAN /\ due \in BOOLEAN
    BY DEF DiscoveryInit
  <1>2. DiscoveryTypeOK
    BY <1>1, ClicksAssumption DEF DiscoveryInit, DiscoveryTypeOK
  <1> QED
    BY <1>2 DEF DiscoveryInit, DiscoveryInv, LockInv, ListInv, RemovalInv

\* Lemma: the network does not break it: silence only grows while the lock is held.
LEMMA NetworkKeeps == DiscoveryInv /\ Network => DiscoveryInv'
  <1> SUFFICES ASSUME DiscoveryInv, NEW d, (d \in Devices /\ (FallSilent(d) \/ Answer(d))) \/ NetworkChanges
               PROVE DiscoveryInv'
    BY DEF Network
  <1> USE DEF DiscoveryInv, DiscoveryTypeOK, LockInv, ListInv, RemovalInv, timerVars, listenerVars,
              uiVars
  <1>1. CASE d \in Devices /\ FallSilent(d)
    BY <1>1 DEF FallSilent
  <1>2. CASE d \in Devices /\ Answer(d)
    BY <1>2 DEF Answer
  <1>3. CASE NetworkChanges
    <2>1. online' \in BOOLEAN
      BY <1>3, Zenon DEF NetworkChanges
    <2> QED
      BY <1>3, <2>1 DEF NetworkChanges
  <1> QED
    BY <1>1, <1>2, <1>3

\* Lemma: the listener does not break it: a new device and its event come under one hold of the lock.
LEMMA ListenerKeeps == DiscoveryInv /\ Listener => DiscoveryInv'
  <1> SUFFICES ASSUME DiscoveryInv, Listener PROVE DiscoveryInv'
    OBVIOUS
  <1> USE DEF DiscoveryInv, DiscoveryTypeOK, LockInv, ListInv, RemovalInv, timerVars, listenerVars,
              uiVars
  <1>1. CASE Known
    BY <1>1 DEF Known
  <1>2. CASE New
    BY <1>2 DEF New
  <1>3. CASE OnDeviceDiscovered
    BY <1>3 DEF OnDeviceDiscovered
  <1> QED
    BY <1>1, <1>2, <1>3 DEF Listener

\* Lemma: the timer does not break it: it removes one device at a time, and waits for its event.
LEMMA TimerKeeps == DiscoveryInv /\ Timer => DiscoveryInv'
  <1> SUFFICES ASSUME DiscoveryInv, Timer PROVE DiscoveryInv'
    OBVIOUS
  <1> USE DEF DiscoveryInv, DiscoveryTypeOK, LockInv, ListInv, RemovalInv, timerVars, listenerVars,
              uiVars
  <1>1. CASE TimerLocks
    <2>1. due' \in BOOLEAN
      BY <1>1 DEF TimerLocks
    <2> QED
      BY <1>1, <2>1 DEF TimerLocks, SeenTooLongAgo
  <1>5. CASE TimerSends
    <2>1. due' \in BOOLEAN
      BY <1>5 DEF TimerSends
    <2> QED
      BY <1>5, <2>1 DEF TimerSends
  <1>2. ASSUME NEW d \in Devices, TimerRemoves(d) PROVE DiscoveryInv'
    BY <1>2 DEF TimerRemoves, Forget
  <1>3. CASE OnDeviceLost
    BY <1>3 DEF OnDeviceLost, RemoveDeviceFromList
  <1>4. CASE TimerUnlocks
    BY <1>4 DEF TimerUnlocks
  <1> QED
    BY <1>1, <1>2, <1>3, <1>4, <1>5 DEF Timer, TimerGoesOn

\* Lemma: the window's thread does not break it: it writes the devices and the list only together.
LEMMA WindowKeeps == DiscoveryInv /\ UI => DiscoveryInv'
  <1> SUFFICES ASSUME DiscoveryInv, UI PROVE DiscoveryInv'
    OBVIOUS
  <1> USE ClicksAssumption
          DEF DiscoveryInv, DiscoveryTypeOK, LockInv, ListInv, RemovalInv, timerVars, listenerVars, uiVars
  <1>1. CASE RefreshClears
    BY <1>1 DEF RefreshClears
  <1>2. CASE RefreshFills
    BY <1>2 DEF RefreshFills
  <1>3. ASSUME NEW d \in Devices, ManualAnswer(d) PROVE DiscoveryInv'
    BY <1>3 DEF ManualAnswer
  <1>4. CASE ManualAdds
    BY <1>4 DEF ManualAdds
  <1> QED
    BY <1>1, <1>2, <1>3, <1>4 DEF UI

\* Theorem: the invariant holds in every reachable state.
THEOREM DiscoveryInvHolds == DiscoverySpec => []DiscoveryInv
  <1>1. DiscoveryInv /\ [DiscoveryNext]_discoveryVars => DiscoveryInv'
    <2> SUFFICES ASSUME DiscoveryInv, [DiscoveryNext]_discoveryVars PROVE DiscoveryInv'
      OBVIOUS
    <2>1. CASE UNCHANGED discoveryVars
      BY <2>1 DEF DiscoveryInv, DiscoveryTypeOK, LockInv, ListInv, RemovalInv, discoveryVars, timerVars,
                  listenerVars, uiVars
    <2> QED
      BY <2>1, NetworkKeeps, ListenerKeeps, TimerKeeps, WindowKeeps DEF DiscoveryNext
  <1> QED
    BY DiscoveryInitInv, <1>1, PTL DEF DiscoverySpec

\* Theorem: every variable of the discovery keeps to its values.
THEOREM DiscoveryTypeCorrect == DiscoverySpec => []DiscoveryTypeOK
  <1>1. DiscoveryInv => DiscoveryTypeOK
    BY DEF DiscoveryInv
  <1> QED
    BY <1>1, DiscoveryInvHolds, PTL

\* Theorem: the window shows exactly the discovered devices whenever it is idle and devicesLock is free,
\* whatever the order of answers, removals, refreshes and manual additions.
THEOREM ListStaysCurrent == DiscoverySpec => []ListIsCurrent
  <1>1. DiscoveryInv => ListIsCurrent
    BY DEF DiscoveryInv, ListInv, ListIsCurrent
  <1> QED
    BY <1>1, DiscoveryInvHolds, PTL

\* Theorem: PerformDiscovery removes no device that has answered within the last 30 seconds, and nobody
\* else removes any.
THEOREM SilentOnesLeave == DiscoverySpec => OnlySilentLeave
  <1>1. DiscoveryInv /\ [DiscoveryNext]_discoveryVars => [\A d \in discovered \ discovered' : d \in silent]_discoveryVars
    <2> SUFFICES ASSUME DiscoveryInv, DiscoveryNext PROVE \A d \in discovered \ discovered' : d \in silent
      BY DEF discoveryVars
    <2>1. CASE Network
      BY <2>1 DEF Network, NetworkChanges, FallSilent, Answer
    <2>2. CASE Listener
      BY <2>2 DEF Listener, Known, New, OnDeviceDiscovered
    <2>3. CASE UI
      BY <2>3 DEF UI, RefreshClears, RefreshFills, ManualAnswer, ManualAdds
    <2>4. CASE Timer
      BY <2>4 DEF Timer, TimerSends, TimerGoesOn, TimerLocks, TimerRemoves, Forget, OnDeviceLost, TimerUnlocks,
                  DiscoveryInv, RemovalInv
    <2> QED
      BY <2>1, <2>2, <2>3, <2>4 DEF DiscoveryNext
  <1> QED
    BY <1>1, DiscoveryInvHolds, PTL DEF DiscoverySpec, OnlySilentLeave
=============================================================================
