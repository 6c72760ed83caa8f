-------------------------- MODULE NetworkExtraction --------------------------
(***************************************************************************)
(* The network window of FriishProduce: selecting a device, connecting to   *)
(* it, listing its titles and extracting one (NetworkIntegrationForm.cs,    *)
(* _classes/NetworkRomInjector.cs).                                         *)
(*                                                                          *)
(* Every handler runs on the window's thread up to its next await, and      *)
(* goes on when the device answers: what is in flight is kept in waiting,   *)
(* and answers come in any order, while whatever controls are enabled can   *)
(* be used.  A title is told by the device it was listed from; NoDevice     *)
(* stands for every null reference.                                         *)
(***************************************************************************)
EXTENDS NetworkDevices

CONSTANT NoDevice

ASSUME ExtractionAssumption == NoDevice \notin Devices

VARIABLES
  selectedDevice, selectedTitle,   \* of the form
  listedFrom,                      \* the device whose titles listViewTitles shows
  connectedDevice,                 \* of the injector
  waiting,                         \* connections and listings in flight
  devicesEnabled, titlesEnabled, consoleEnabled,      \* the three group boxes
  connectEnabled, refreshEnabled, extractEnabled,     \* the three buttons
  dialogOpen,                      \* saveFileDialog, over the form, which takes no clicks meanwhile
  isOperationInProgress,
  operation,                       \* ExtractAndInjectRom: its await, and the title it extracts
  asked,                           \* the device the last request of the operation went to
  clicks

selection == <<selectedDevice, selectedTitle>>
groups == <<devicesEnabled, titlesEnabled, consoleEnabled>>
buttons == <<connectEnabled, refreshEnabled>>
extraction == <<dialogOpen, isOperationInProgress, operation, asked>>
vars == <<selection, listedFrom, connectedDevice, waiting, groups, buttons, extractEnabled,
          extraction, clicks>>

Idle == [stage |-> "none", title |-> NoDevice]
Waits == [stage : {"connect", "connectList", "refreshList"}, device : Devices]

Click == clicks < MaxClicks /\ clicks' = clicks + 1

\* A click on the form's own controls is not possible under a dialog, though answers go on arriving.
CanClick == ~dialogOpen

\* UpdateExtractButtonState, for the given selection and group box; a console is always selected.
WhileBusy(title, titlesOn, busy) == title # NoDevice /\ titlesOn   \* a mutant
MayExtract(title, titlesOn, busy) == ~busy /\ title # NoDevice /\ titlesOn

-----------------------------------------------------------------------------
\* Selecting

SelectDevice(d) ==
  /\ CanClick /\ devicesEnabled /\ selectedDevice # d
  /\ selectedDevice' = d
  /\ connectEnabled' = (d # NoDevice /\ ~isOperationInProgress)
  /\ UNCHANGED <<selectedTitle, listedFrom, connectedDevice, waiting, groups, refreshEnabled,
                 extractEnabled, extraction, clicks>>

\* RemoveDeviceFromList: a device that is lost is deselected, whatever the window is doing.
LoseDevice ==
  /\ selectedDevice # NoDevice
  /\ selectedDevice' = NoDevice
  /\ connectEnabled' = FALSE
  /\ UNCHANGED <<selectedTitle, listedFrom, connectedDevice, waiting, groups, refreshEnabled,
                 extractEnabled, extraction, clicks>>

SelectTitle ==
  /\ CanClick /\ titlesEnabled /\ listedFrom # NoDevice
  /\ selectedTitle' = listedFrom
  /\ extractEnabled' = MayExtract(listedFrom, titlesEnabled, isOperationInProgress)
  /\ UNCHANGED <<selectedDevice, listedFrom, connectedDevice, waiting, groups, buttons, extraction,
                 clicks>>

-----------------------------------------------------------------------------
\* ButtonConnect_Click, ButtonRefreshTitles_Click and RefreshTitlesList

AnyTime == connectEnabled /\ selectedDevice # NoDevice   \* a mutant
ButtonOnly == devicesEnabled /\ connectEnabled            \* a mutant
MayConnect == devicesEnabled /\ connectEnabled /\ selectedDevice # NoDevice

ClickConnect ==
  /\ Click /\ CanClick /\ MayConnect
  /\ connectEnabled' = FALSE
  /\ waiting' = waiting \cup {[stage |-> "connect", device |-> selectedDevice]}
  /\ UNCHANGED <<selection, listedFrom, connectedDevice, groups, refreshEnabled, extractEnabled,
                 extraction>>

\* ConnectToDevice: the titles asked for here are only counted; they are asked for again to be listed.
Connected(w) ==
  /\ w \in waiting /\ w.stage = "connect"
  /\ connectedDevice' = w.device
  /\ titlesEnabled' = TRUE
  /\ IF selectedDevice = NoDevice
     THEN /\ waiting' = waiting \ {w}
          /\ connectEnabled' = TRUE /\ UNCHANGED refreshEnabled
     ELSE /\ waiting' = (waiting \ {w}) \cup {[w EXCEPT !.stage = "connectList"]}
          /\ refreshEnabled' = FALSE /\ UNCHANGED connectEnabled
  /\ UNCHANGED <<selection, listedFrom, devicesEnabled, consoleEnabled, extractEnabled, extraction,
                 clicks>>

\* The handler's finally
OnlyAfterSuccess == UNCHANGED connectEnabled   \* a mutant
ConnectAgain == connectEnabled' = TRUE

NotConnected(w) ==
  /\ w \in waiting /\ w.stage = "connect"
  /\ waiting' = waiting \ {w}
  /\ ConnectAgain
  /\ UNCHANGED <<selection, listedFrom, connectedDevice, groups, refreshEnabled, extractEnabled,
                 extraction, clicks>>

\* Nothing is asked for while no device is selected or connected.
ClickRefreshTitles ==
  /\ Click /\ CanClick /\ titlesEnabled /\ refreshEnabled
  /\ selectedDevice # NoDevice /\ connectedDevice # NoDevice
  /\ refreshEnabled' = FALSE
  /\ waiting' = waiting \cup {[stage |-> "refreshList", device |-> connectedDevice]}
  /\ UNCHANGED <<selection, listedFrom, connectedDevice, groups, connectEnabled, extractEnabled,
                 extraction>>

ListAnswered(w) ==
  /\ w \in waiting /\ w.stage # "connect"
  /\ waiting' = waiting \ {w}
  /\ refreshEnabled' = TRUE
  /\ connectEnabled' = (connectEnabled \/ w.stage = "connectList")

\* Filling the list anew may or may not deselect the title that was selected before.
TitlesListed(w) ==
  /\ ListAnswered(w)
  /\ listedFrom' \in {w.device, NoDevice}
  /\ consoleEnabled' = (listedFrom' # NoDevice)
  /\ \/ UNCHANGED <<selectedTitle, extractEnabled>>
     \/ selectedTitle' = NoDevice /\ extractEnabled' = FALSE
  /\ UNCHANGED <<selectedDevice, connectedDevice, devicesEnabled, titlesEnabled, extraction, clicks>>

NotListed(w) ==
  /\ ListAnswered(w)
  /\ UNCHANGED <<selection, listedFrom, connectedDevice, groups, extractEnabled, extraction, clicks>>

-----------------------------------------------------------------------------
\* ButtonExtractAndInject_Click and ExtractAndInjectRom

\* The selection is checked, then the user is asked for a file.  (Titles are listed, and so selected,
\* only once a device is connected, and none is ever disconnected.)
ClickExtract ==
  /\ Click /\ CanClick /\ consoleEnabled /\ extractEnabled
  /\ selectedTitle # NoDevice
  /\ dialogOpen' = TRUE
  /\ UNCHANGED <<selection, listedFrom, connectedDevice, waiting, groups, buttons, extractEnabled,
                 isOperationInProgress, operation, asked>>

\* What is selected and connected once the file is chosen is what is extracted: answers may have
\* replaced either, or deselected the title, and then the extraction fails before anything is asked for.
FileChosen ==
  /\ dialogOpen /\ dialogOpen' = FALSE
  /\ isOperationInProgress' = TRUE
  /\ devicesEnabled' = FALSE /\ titlesEnabled' = FALSE /\ consoleEnabled' = FALSE
  /\ extractEnabled' = FALSE
  /\ \/ /\ selectedTitle # NoDevice
        /\ operation' = [stage |-> "request", title |-> selectedTitle]
        /\ asked' = connectedDevice
     \/ /\ selectedTitle = NoDevice
        /\ operation' = [stage |-> "failed", title |-> NoDevice]
        /\ UNCHANGED asked
  /\ UNCHANGED <<selection, listedFrom, connectedDevice, waiting, buttons, clicks>>

NoFileChosen ==
  /\ dialogOpen /\ dialogOpen' = FALSE
  /\ UNCHANGED <<selection, listedFrom, connectedDevice, waiting, groups, buttons, extractEnabled,
                 isOperationInProgress, operation, asked, clicks>>

\* The request is accepted, a poll says "in progress" or "completed": the next one goes to the device
\* that is connected by now.
OperationGoesOn ==
  /\ \/ operation.stage \in {"request", "poll"} /\ operation' = [operation EXCEPT !.stage = "poll"]
     \/ operation.stage = "poll" /\ operation' = [operation EXCEPT !.stage = "download"]
  /\ asked' = connectedDevice
  /\ UNCHANGED <<selection, listedFrom, connectedDevice, waiting, groups, buttons, extractEnabled,
                 dialogOpen, isOperationInProgress, clicks>>

\* Done or failed, the handler's finally re-enables what the selection allows (SetUIEnabled(true)).
TitlesOn == selectedDevice # NoDevice
OperationEnds ==
  /\ operation # Idle
  /\ operation' = Idle /\ asked' = NoDevice
  /\ isOperationInProgress' = FALSE
  /\ devicesEnabled' = TRUE /\ titlesEnabled' = TitlesOn
  /\ consoleEnabled' = (selectedTitle # NoDevice)
  /\ extractEnabled' = MayExtract(selectedTitle, TitlesOn, FALSE)
  /\ UNCHANGED <<selection, listedFrom, connectedDevice, waiting, buttons, dialogOpen, clicks>>

-----------------------------------------------------------------------------
Init == /\ selectedDevice = NoDevice /\ selectedTitle = NoDevice /\ listedFrom = NoDevice
        /\ connectedDevice = NoDevice /\ waiting = {}
        /\ devicesEnabled = TRUE /\ titlesEnabled = FALSE /\ consoleEnabled = FALSE
        /\ connectEnabled = FALSE /\ refreshEnabled = TRUE /\ extractEnabled = FALSE
        /\ dialogOpen = FALSE /\ isOperationInProgress = FALSE /\ operation = Idle /\ asked = NoDevice
        /\ clicks = 0

User == \/ \E d \in Devices \cup {NoDevice} : SelectDevice(d)
        \/ LoseDevice \/ SelectTitle \/ ClickConnect \/ ClickRefreshTitles
        \/ ClickExtract \/ FileChosen \/ NoFileChosen

Answers == \/ \E w \in waiting : Connected(w) \/ NotConnected(w) \/ TitlesListed(w) \/ NotListed(w)
           \/ OperationGoesOn \/ OperationEnds

Next == User \/ Answers

\* HttpClient gives up after 30 seconds: every connection and every listing is answered in the end.
\* An extraction may be polled for ever, and the dialog stay open.
Fairness == \A d \in Devices : \A stage \in {"connect", "connectList", "refreshList"} :
              LET w == [stage |-> stage, device |-> d]
              IN  WF_vars(Connected(w) \/ NotConnected(w) \/ TitlesListed(w) \/ NotListed(w))

Spec == Init /\ [][Next]_vars /\ Fairness

-----------------------------------------------------------------------------
\* Properties

\* The values every variable keeps to.
TypeOK ==
  /\ selectedDevice \in Devices \cup {NoDevice} /\ selectedTitle \in Devices \cup {NoDevice}
  /\ listedFrom \in Devices \cup {NoDevice} /\ connectedDevice \in Devices \cup {NoDevice}
  /\ waiting \subseteq Waits
  /\ devicesEnabled \in BOOLEAN /\ titlesEnabled \in BOOLEAN /\ consoleEnabled \in BOOLEAN
  /\ connectEnabled \in BOOLEAN /\ refreshEnabled \in BOOLEAN /\ extractEnabled \in BOOLEAN
  /\ dialogOpen \in BOOLEAN /\ isOperationInProgress \in BOOLEAN
  /\ operation \in {Idle, [stage |-> "failed", title |-> NoDevice]}
                    \cup [stage : {"request", "poll", "download"}, title : Devices]
  /\ asked \in Devices \cup {NoDevice}
  /\ clicks \in 0..MaxClicks

\* However answers and selections interleave, among them a connection that is made during an
\* extraction and re-enables the titles, no second extraction starts before the first has ended, though
\* a dialog lies between the check and the start.
OneExtraction == [][FileChosen => operation = Idle]_vars

\* No connection is started while an extraction runs, though a connection that ends re-enables the
\* button whatever runs: the group box around it stays disabled.
NoConnectDuringExtraction == [][ClickConnect => ~isOperationInProgress]_vars

\* Provided extractions and dialogs keep ending, a device that stays selected can be connected to in the
\* end: no order of answers, failures and selections leaves the Connect button or the group box around
\* it disabled for good.  (An extraction that is polled for ever keeps the box disabled.)
ConnectComesBack ==
  []<>(CanClick /\ operation = Idle) =>
    \A d \in Devices : selectedDevice = d ~> (CanClick /\ MayConnect) \/ selectedDevice # d

-----------------------------------------------------------------------------
\* What the code's comments say, and the code does not do

\* NetworkRomInjector.cs, of ExtractAndInjectRom: "Extract and inject a ROM from the connected NXDump
\* device": every request of an extraction goes to the device its title was listed from.
OneDevicePerExtraction == operation # Idle => asked = operation.title
=============================================================================
