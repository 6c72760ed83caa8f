------------------------------ MODULE Discovery ------------------------------
(***************************************************************************)
(* Device discovery of FriishProduce: the broadcast timer, the response     *)
(* listener and the window's thread share discoveredDevices under           *)
(* devicesLock (_classes/NetworkCommunication.cs), and the window keeps a   *)
(* list of its own (NetworkIntegrationForm.cs).                             *)
(*                                                                          *)
(* Both events are raised with devicesLock held, and their handlers run on  *)
(* the window's thread through Invoke, which waits until they have run:     *)
(* timer = "invoke" and listener = "invoke" are those waits.  A device is   *)
(* told by its address, as everywhere in that code.                         *)
(***************************************************************************)
EXTENDS NetworkDevices

VARIABLES
  discovered, silent,     \* discoveredDevices; those not seen for more than 30 seconds
  online,                 \* whether a broadcast can be sent
  lock,                   \* the holder of devicesLock
  due,                    \* a broadcast went out, and its clean-up waits for the lock
  timer, toRemove,        \* PerformDiscovery, and the devices it still has to remove
  leaving,                \* the device whose DeviceLost is being raised
  listener, heard,        \* ListenForDiscoveryResponses, and the device that answered
  ui, adding,             \* the window's thread, and the device being added manually
  shown,                  \* listViewDevices
  searches                \* refreshes and manual additions so far

timerVars == <<due, timer, toRemove, leaving>>
listenerVars == <<listener, heard>>
uiVars == <<ui, adding, searches>>
discoveryVars == <<discovered, silent, online, lock, timerVars, listenerVars, uiVars, shown>>

-----------------------------------------------------------------------------
\* The network (external): devices fall silent, or answer a broadcast

FallSilent(d) ==
  /\ d \in discovered \ silent
  /\ silent' = silent \cup {d}
  /\ UNCHANGED <<discovered, online, lock, timerVars, listenerVars, uiVars, shown>>

Answer(d) ==
  /\ listener = "receive"
  /\ listener' = "lock" /\ heard' = d
  /\ UNCHANGED <<discovered, silent, online, lock, timerVars, uiVars, shown>>

\* The computer's own network goes, or comes back.
NetworkChanges ==
  /\ online' = ~online
  /\ UNCHANGED <<discovered, silent, lock, timerVars, listenerVars, uiVars, shown>>

-----------------------------------------------------------------------------
\* ListenForDiscoveryResponses

Known ==
  /\ listener = "lock" /\ lock = "free" /\ heard \in discovered
  /\ silent' = silent \ {heard}
  /\ listener' = "receive"
  /\ UNCHANGED <<discovered, online, lock, timerVars, heard, uiVars, shown>>

New ==
  /\ listener = "lock" /\ lock = "free" /\ heard \notin discovered
  /\ discovered' = discovered \cup {heard}
  /\ lock' = "listener"
  /\ listener' = "invoke"
  /\ UNCHANGED <<silent, online, timerVars, heard, uiVars, shown>>

\* OnDeviceDiscovered on the window's thread, after which the listener leaves the lock.
OnDeviceDiscovered ==
  /\ listener = "invoke" /\ ui = "idle"
  /\ shown' = shown \cup {heard}
  /\ lock' = "free"
  /\ listener' = "receive"
  /\ UNCHANGED <<discovered, silent, online, timerVars, heard, uiVars>>

-----------------------------------------------------------------------------
\* PerformDiscovery, once every five seconds, on a thread of the pool: while one clean-up is under way
\* the next broadcast may go out already.

\* A broadcast that cannot be sent throws, and there is no clean-up after it.
TimerSends ==
  /\ online /\ ~due
  /\ due' = TRUE
  /\ UNCHANGED <<discovered, silent, online, lock, timer, toRemove, leaving, listenerVars, uiVars, shown>>

EveryDevice == discovered   \* a mutant
SeenTooLongAgo == silent

TimerLocks ==
  /\ due /\ timer = "idle" /\ lock = "free"
  /\ due' = FALSE
  /\ lock' = "timer"
  /\ toRemove' = SeenTooLongAgo
  /\ timer' = "remove"
  /\ UNCHANGED <<discovered, silent, online, leaving, listenerVars, uiVars, shown>>

OnlyTheEntry(d) == discovered' = discovered \ {d} /\ UNCHANGED silent   \* a mutant
Forget(d) == discovered' = discovered \ {d} /\ silent' = silent \ {d}

TimerRemoves(d) ==
  /\ timer = "remove" /\ d \in toRemove
  /\ Forget(d)
  /\ toRemove' = toRemove \ {d}
  /\ leaving' = d
  /\ timer' = "invoke"
  /\ UNCHANGED <<online, lock, due, listenerVars, uiVars, shown>>

ItemStays == UNCHANGED shown   \* a mutant
RemoveDeviceFromList == shown' = shown \ {leaving}

\* OnDeviceLost on the window's thread, after which the timer goes on to the next device.
OnDeviceLost ==
  /\ timer = "invoke" /\ ui = "idle"
  /\ RemoveDeviceFromList
  /\ timer' = "remove"
  /\ UNCHANGED <<discovered, silent, online, lock, due, toRemove, leaving, listenerVars, uiVars>>

TimerUnlocks ==
  /\ timer = "remove" /\ toRemove = {}
  /\ lock' = "free"
  /\ timer' = "idle"
  /\ UNCHANGED <<discovered, silent, online, due, toRemove, leaving, listenerVars, uiVars, shown>>

-----------------------------------------------------------------------------
\* The window's thread

\* RefreshDeviceList: the list is cleared, then GetDiscoveredDevices takes the lock.
RefreshClears ==
  /\ ui = "idle" /\ searches < MaxClicks
  /\ searches' = searches + 1
  /\ shown' = {}
  /\ ui' = "refresh"
  /\ UNCHANGED <<discovered, silent, online, lock, timerVars, listenerVars, adding>>

RefreshFills ==
  /\ ui = "refresh" /\ lock = "free"
  /\ shown' = discovered
  /\ ui' = "idle"
  /\ UNCHANGED <<discovered, silent, online, lock, timerVars, listenerVars, adding, searches>>

\* AddDeviceManually: the device has answered, and the window's thread goes on.
ManualAnswer(d) ==
  /\ ui = "idle" /\ searches < MaxClicks
  /\ searches' = searches + 1
  /\ adding' = d
  /\ ui' = "add"
  /\ UNCHANGED <<discovered, silent, online, lock, timerVars, listenerVars, shown>>

\* The event is raised here after the lock, on the window's own thread.
ManualAdds ==
  /\ ui = "add" /\ lock = "free"
  /\ discovered' = discovered \cup {adding} /\ silent' = silent \ {adding}
  /\ shown' = shown \cup {adding}
  /\ ui' = "idle"
  /\ UNCHANGED <<online, lock, timerVars, listenerVars, adding, searches>>

-----------------------------------------------------------------------------
DiscoveryInit ==
  /\ discovered = {} /\ silent = {} /\ online \in BOOLEAN
  /\ lock = "free"
  /\ due = FALSE /\ timer = "idle" /\ toRemove = {} /\ leaving \in Devices
  /\ listener = "receive" /\ heard \in Devices
  /\ ui = "idle" /\ adding \in Devices /\ shown = {} /\ searches = 0

TimerGoesOn == (\E d \in Devices : TimerRemoves(d)) \/ OnDeviceLost \/ TimerUnlocks
Timer == TimerSends \/ TimerLocks \/ TimerGoesOn
Listener == Known \/ New \/ OnDeviceDiscovered
UI == RefreshClears \/ RefreshFills \/ (\E d \in Devices : ManualAnswer(d)) \/ ManualAdds
Network == NetworkChanges \/ \E d \in Devices : FallSilent(d) \/ Answer(d)

DiscoveryNext == Timer \/ Listener \/ UI \/ Network

\* The timer keeps firing, at moments when the network may happen to be gone every time; the listener and
\* the window go on when they can, and a lock that keeps being released is got.  Nobody has to answer or
\* to click.
DiscoveryFairness ==
  /\ WF_discoveryVars(TimerSends) /\ WF_discoveryVars(TimerGoesOn) /\ SF_discoveryVars(TimerLocks)
  /\ WF_discoveryVars(Listener) /\ SF_discoveryVars(Known) /\ SF_discoveryVars(New)
  /\ SF_discoveryVars(RefreshFills) /\ SF_discoveryVars(ManualAdds)

DiscoverySpec == DiscoveryInit /\ [][DiscoveryNext]_discoveryVars /\ DiscoveryFairness

-----------------------------------------------------------------------------
\* Properties

\* The values every variable keeps to.
DiscoveryTypeOK ==
  /\ discovered \subseteq Devices /\ silent \subseteq discovered /\ online \in BOOLEAN
  /\ lock \in {"free", "timer", "listener"}
  /\ due \in BOOLEAN /\ timer \in {"idle", "remove", "invoke"} /\ toRemove \subseteq Devices /\ leaving \in Devices
  /\ listener \in {"receive", "lock", "invoke"} /\ heard \in Devices
  /\ ui \in {"idle", "refresh", "add"} /\ adding \in Devices
  /\ shown \subseteq Devices /\ searches \in 0..MaxClicks

\* Whenever the window is idle and nobody is changing the devices, its list is exactly the discovered
\* devices, in whatever order answers, removals, refreshes and manual additions came: that is what
\* raising the events under the lock is for.
ListIsCurrent == lock = "free" /\ ui = "idle" => shown = discovered

\* A device that still answers is not removed: only one not seen for 30 seconds is (PerformDiscovery).
OnlySilentLeave == [][\A d \in discovered \ discovered' : d \in silent]_discoveryVars

\* As long as the user does not touch the list, which may hang the window (see RefreshEnds), a device
\* that falls silent leaves it, unless it is heard again first, provided the network stays up from some
\* moment on: while no broadcast can be sent nothing is cleaned up, and every device stays.
SilentDeviceLeaves ==
  [](searches = 0) /\ <>[]online =>
    \A d \in Devices : d \in silent ~> d \notin shown \/ d \in discovered \ silent

-----------------------------------------------------------------------------
\* What a document says, and the code does not do

\* IMPLEMENTATION_SUMMARY.md: "Device List: Shows discovered NXDump devices": a refresh ends.
RefreshEnds == ui = "refresh" ~> ui = "idle"
=============================================================================
