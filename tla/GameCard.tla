------------------------------ MODULE GameCard ------------------------------
(***************************************************************************)
(* The game card slot: the detection thread that caches what the inserted  *)
(* card holds (source/core/gamecard.c), the title thread that lists the    *)
(* card's titles when the status changes (source/core/title.c), the user   *)
(* interface that polls both (source/tasks.cpp), and utilsCloseResources.  *)
(*                                                                         *)
(* g_gameCardMutex and g_titleMutex are modelled with their holder: which  *)
(* thread waits for which, and what a try-lock sees, is the point.  A card  *)
(* is one of Cards; what is cached of it, and the list of its titles, is    *)
(* the card itself.                                                         *)
(***************************************************************************)
EXTENDS Integers

CONSTANTS Cards, NoCard,
          MaxMoves       \* bound: insertions and removals in a behaviour

ASSUME GameCardAssumption == NoCard \notin Cards /\ MaxMoves \in Nat

VARIABLES
  card, moves,                    \* the slot, and how often the user touched it
  cardEvent, statusEvent,         \* g_gameCardKernelEvent, g_gameCardStatusChangeEvent
  gcExitEvent, titleExitEvent,    \* the exit events of the two threads
  gcMutex, titleMutex,            \* the holders of g_gameCardMutex and g_titleMutex
  status, info,                   \* g_gameCardStatus, and the card whose data is cached
  misread,                        \* history: the detection thread's last query of the slot failed
  detector, titles, app,          \* gamecardDetectionThreadFunc, titleGameCardInfoThreadFunc, main
  seen,                           \* what titleRefreshGameCardTitleInfo read as its status
  available, updated, listed,     \* g_titleGameCard{Available,InfoUpdated}, the titles listed
  notified                        \* GameCardTask::prev_gc_status

slotVars  == <<card, moves, cardEvent, misread>>
cacheVars == <<status, info>>
titleVars == <<available, updated, listed>>
vars == <<slotVars, statusEvent, gcExitEvent, titleExitEvent, gcMutex, titleMutex, cacheVars,
          detector, titles, app, seen, titleVars, notified>>

\* GameCardStatus; "Processing" is only ever an answer of gamecardGetStatus.
Failures == {"NoGameCardPatchEnabled", "LotusAsicFirmwareUpdateRequired", "InsertedAndInfoNotLoaded"}
Statuses == Failures \cup {"NotInserted", "InsertedAndInfoLoaded"}

-----------------------------------------------------------------------------
\* The user and the slot (external): HOS signals the event whenever a card goes in or out

Insert(c) == /\ card = NoCard /\ moves < MaxMoves
             /\ card' = c

Remove == /\ card # NoCard /\ moves < MaxMoves
          /\ card' = NoCard

Move == /\ (\E c \in Cards : Insert(c)) \/ Remove
        /\ moves' = moves + 1
        /\ cardEvent' = TRUE
        /\ UNCHANGED <<misread, statusEvent, gcExitEvent, titleExitEvent, gcMutex, titleMutex, cacheVars,
                       detector, titles, app, seen, titleVars, notified>>

-----------------------------------------------------------------------------
\* gamecardDetectionThreadFunc

\* gamecardFreeInfo(true)
FreeKeepsStatus == info' = NoCard /\ UNCHANGED status   \* a mutant
FreeShowsProcessing == info' = NoCard /\ status' = "Processing"   \* a mutant
FreeInfo == info' = NoCard /\ status' = "NotInserted"

\* gamecardLoadInfo: everything is read from the card and checked, or everything is freed again
\* (gamecardFreeInfo(false)) and the status tells why.  A card that is gone cannot be read.
LoadedThenFailed ==   \* a mutant
  \/ card # NoCard /\ info' = card /\ status' \in Failures \cup {"InsertedAndInfoLoaded"}
  \/ info' = NoCard /\ status' \in Failures

Load ==
  \/ card # NoCard /\ info' = card /\ status' = "InsertedAndInfoLoaded"
  \/ info' = NoCard /\ status' \in Failures

LoadInfo == IF status = "InsertedAndInfoLoaded" THEN UNCHANGED cacheVars ELSE Load

\* gamecardIsInserted: a query that fails is answered like an empty slot.
IsInserted == card # NoCard /\ misread' = FALSE
IsNotInserted == (card = NoCard /\ misread' = FALSE) \/ misread' = TRUE

LookAtSlot == \/ IsInserted /\ detector' = "load"
              \/ IsNotInserted /\ detector' = "signal"

DetectorStarts ==
  /\ detector = "start" /\ gcMutex = "free"
  /\ gcMutex' = "detector"
  /\ LookAtSlot
  /\ UNCHANGED <<card, moves, cardEvent, statusEvent, gcExitEvent, titleExitEvent, titleMutex, cacheVars, titles,
                 app, seen, titleVars, notified>>

DetectorWakes ==
  /\ detector = "wait" /\ cardEvent
  /\ cardEvent' = FALSE
  /\ detector' = "lock"
  /\ UNCHANGED <<card, moves, misread, statusEvent, gcExitEvent, titleExitEvent, gcMutex, titleMutex,
                 cacheVars, titles, app, seen, titleVars, notified>>

\* The slot is looked at once; three seconds pass before the card is read.
DetectorLocks ==
  /\ detector = "lock" /\ gcMutex = "free"
  /\ gcMutex' = "detector"
  /\ FreeInfo
  /\ LookAtSlot
  /\ UNCHANGED <<card, moves, cardEvent, statusEvent, gcExitEvent, titleExitEvent, titleMutex, titles, app, seen,
                 titleVars, notified>>

DetectorLoads ==
  /\ detector = "load"
  /\ LoadInfo
  /\ detector' = "signal"
  /\ UNCHANGED <<slotVars, statusEvent, gcExitEvent, titleExitEvent, gcMutex, titleMutex, titles,
                 app, seen, titleVars, notified>>

\* The status change event is signalled with the mutex still held.
DetectorSignals ==
  /\ detector = "signal"
  /\ statusEvent' = TRUE
  /\ detector' = "unlock"
  /\ UNCHANGED <<slotVars, gcExitEvent, titleExitEvent, gcMutex, titleMutex, cacheVars, titles, app,
                 seen, titleVars, notified>>

DetectorUnlocksMutex ==
  /\ detector = "unlock"
  /\ gcMutex' = "free"
  /\ detector' = "wait"
  /\ UNCHANGED <<slotVars, statusEvent, gcExitEvent, titleExitEvent, titleMutex, cacheVars, titles,
                 app, seen, titleVars, notified>>

\* The exit event: the thread frees what is cached on the mutex its joiner holds.
DetectorExits ==
  /\ detector = "wait" /\ gcExitEvent
  /\ gcExitEvent' = FALSE
  /\ FreeInfo
  /\ detector' = "done"
  /\ UNCHANGED <<slotVars, statusEvent, titleExitEvent, gcMutex, titleMutex, titles, app, seen,
                 titleVars, notified>>

Detector == \/ DetectorStarts \/ DetectorWakes \/ DetectorLocks \/ DetectorLoads
            \/ DetectorSignals \/ DetectorUnlocksMutex \/ DetectorExits

-----------------------------------------------------------------------------
\* Everything else that reads the card: one call, one hold of the mutex

ReaderLocks ==
  /\ app = "run" /\ gcMutex = "free"
  /\ gcMutex' = "reader"
  /\ UNCHANGED <<slotVars, statusEvent, gcExitEvent, titleExitEvent, titleMutex, cacheVars, detector,
                 titles, app, seen, titleVars, notified>>

ReaderUnlocks ==
  /\ gcMutex = "reader"
  /\ gcMutex' = "free"
  /\ UNCHANGED <<slotVars, statusEvent, gcExitEvent, titleExitEvent, titleMutex, cacheVars, detector,
                 titles, app, seen, titleVars, notified>>

\* gamecardGetStatus: a try-lock, whose failure reads as "Processing".
GetStatus == IF gcMutex = "free" /\ app # "closed" THEN status ELSE "Processing"

-----------------------------------------------------------------------------
\* titleGameCardInfoThreadFunc and titleRefreshGameCardTitleInfo

TitlesWake ==
  /\ titles = "wait" /\ statusEvent
  /\ statusEvent' = FALSE
  /\ titles' = "lock"
  /\ UNCHANGED <<slotVars, gcExitEvent, titleExitEvent, gcMutex, titleMutex, cacheVars, detector, app,
                 seen, titleVars, notified>>

TitlesLock ==
  /\ titles = "lock" /\ titleMutex = "free"
  /\ titleMutex' = "titles"
  /\ seen' = (GetStatus = "InsertedAndInfoLoaded")
  /\ titles' = "refresh"
  /\ UNCHANGED <<slotVars, statusEvent, gcExitEvent, titleExitEvent, gcMutex, cacheVars, detector, app,
                 titleVars, notified>>

\* No change of availability is no update; a card that went takes its titles with it.
NothingNew == seen = available /\ updated' = FALSE /\ UNCHANGED <<available, listed>>

TitlesLeft ==   \* a mutant
  ~seen /\ available /\ available' = FALSE /\ updated' = TRUE /\ UNCHANGED listed
CardGone == ~seen /\ available /\ available' = FALSE /\ updated' = TRUE /\ listed' = NoCard

\* The titles are listed from the card in the slot.  When that fails the card is available all the same.
CardCame ==
  /\ seen /\ ~available
  /\ available' = TRUE
  /\ \/ card # NoCard /\ listed' = card /\ updated' = TRUE
     \/ listed' = NoCard /\ updated' = FALSE

TitlesRefresh ==
  /\ titles = "refresh"
  /\ NothingNew \/ CardGone \/ CardCame
  /\ titleMutex' = "free"
  /\ seen' = FALSE
  /\ titles' = "wait"
  /\ UNCHANGED <<slotVars, statusEvent, gcExitEvent, titleExitEvent, gcMutex, cacheVars, detector, app,
                 notified>>

\* The flags are cleared on the mutex the joiner holds, which closes the title storages next.
TitlesExit ==
  /\ titles = "wait" /\ titleExitEvent
  /\ titleExitEvent' = FALSE
  /\ available' = FALSE /\ updated' = FALSE
  /\ titles' = "done"
  /\ UNCHANGED <<slotVars, statusEvent, gcExitEvent, gcMutex, titleMutex, cacheVars, detector, app, seen,
                 listed, notified>>

Titles == TitlesWake \/ TitlesLock \/ TitlesRefresh \/ TitlesExit

-----------------------------------------------------------------------------
\* The tasks of the user interface, which run on the main thread

\* GameCardTask::run
StatusPolled ==
  /\ app = "run" /\ notified # GetStatus
  /\ notified' = GetStatus
  /\ UNCHANGED <<slotVars, statusEvent, gcExitEvent, titleExitEvent, gcMutex, titleMutex, cacheVars,
                 detector, titles, app, seen, titleVars>>

\* TitleTask::run with titleIsGameCardInfoUpdated, a try-lock too
UpdateCollected ==
  /\ app = "run" /\ titleMutex = "free" /\ updated
  /\ updated' = FALSE
  /\ UNCHANGED <<slotVars, statusEvent, gcExitEvent, titleExitEvent, gcMutex, titleMutex, cacheVars,
                 detector, titles, app, seen, available, listed, notified>>

\* utilsCloseResources: titleExit, then gamecardExit.  Each joins its thread on the mutex it holds.
TitleExitLocks ==
  /\ app = "run" /\ titleMutex = "free" /\ gcMutex # "reader"
  /\ titleMutex' = "app" /\ titleExitEvent' = TRUE
  /\ app' = "titleExit"
  /\ UNCHANGED <<slotVars, statusEvent, gcExitEvent, gcMutex, cacheVars, detector, titles, seen,
                 titleVars, notified>>

TitleExitReturns ==
  /\ app = "titleExit" /\ titles = "done"
  /\ listed' = NoCard
  /\ titleMutex' = "free"
  /\ app' = "titleClosed"
  /\ UNCHANGED <<slotVars, statusEvent, gcExitEvent, titleExitEvent, gcMutex, cacheVars, detector,
                 titles, seen, available, updated, notified>>

GameCardExitLocks ==
  /\ app = "titleClosed" /\ gcMutex = "free"
  /\ gcMutex' = "app" /\ gcExitEvent' = TRUE
  /\ app' = "gamecardExit"
  /\ UNCHANGED <<slotVars, statusEvent, titleExitEvent, titleMutex, cacheVars, detector, titles, seen,
                 titleVars, notified>>

GameCardExitReturns ==
  /\ app = "gamecardExit" /\ detector = "done"
  /\ gcMutex' = "free"
  /\ app' = "closed"
  /\ UNCHANGED <<slotVars, statusEvent, gcExitEvent, titleExitEvent, titleMutex, cacheVars, detector,
                 titles, seen, titleVars, notified>>

App == \/ StatusPolled \/ UpdateCollected \/ TitleExitLocks \/ TitleExitReturns
       \/ GameCardExitLocks \/ GameCardExitReturns

-----------------------------------------------------------------------------
Init == /\ card \in Cards \cup {NoCard} /\ moves = 0 /\ misread = FALSE
        /\ cardEvent = FALSE /\ statusEvent = FALSE /\ gcExitEvent = FALSE /\ titleExitEvent = FALSE
        /\ gcMutex = "free" /\ titleMutex = "free"
        /\ status = "NotInserted" /\ info = NoCard
        /\ detector = "start" /\ titles = "wait" /\ app = "run" /\ seen = FALSE
        /\ available = FALSE /\ updated = FALSE /\ listed = NoCard
        /\ notified = "NotInserted"

Next == Move \/ Detector \/ ReaderLocks \/ ReaderUnlocks \/ Titles \/ App

\* Threads run, the kernel hands a mutex to its waiters in turn, and the tasks run at every frame.
Fairness ==
  /\ SF_vars(DetectorStarts) /\ SF_vars(DetectorLocks) /\ WF_vars(Detector)
  /\ WF_vars(ReaderUnlocks)
  /\ SF_vars(TitlesLock) /\ WF_vars(Titles)
  /\ SF_vars(StatusPolled) /\ SF_vars(UpdateCollected)
  /\ WF_vars(TitleExitReturns) /\ SF_vars(GameCardExitLocks) /\ WF_vars(GameCardExitReturns)

Spec == Init /\ [][Next]_vars /\ Fairness

-----------------------------------------------------------------------------
\* Properties

\* The values every variable keeps to, and which thread may hold which mutex.
TypeOK ==
  /\ card \in Cards \cup {NoCard} /\ moves \in 0..MaxMoves /\ misread \in BOOLEAN
  /\ cardEvent \in BOOLEAN /\ statusEvent \in BOOLEAN
  /\ gcExitEvent \in BOOLEAN /\ titleExitEvent \in BOOLEAN
  /\ gcMutex \in {"free", "detector", "reader", "app"}
  /\ titleMutex \in {"free", "titles", "app"}
  /\ status \in Statuses /\ info \in Cards \cup {NoCard}
  /\ detector \in {"start", "wait", "lock", "load", "signal", "unlock", "done"}
  /\ titles \in {"wait", "lock", "refresh", "done"}
  /\ app \in {"run", "titleExit", "titleClosed", "gamecardExit", "closed"}
  /\ seen \in BOOLEAN /\ available \in BOOLEAN /\ updated \in BOOLEAN
  /\ listed \in Cards \cup {NoCard}
  /\ notified \in Statuses \cup {"Processing"}

\* A caller that sees InsertedAndInfoLoaded finds the data of a card cached, and a caller that sees
\* anything else finds none: a failed load leaves no half of a card behind (gamecardLoadInfo's end).
StatusTellsInfo == gcMutex # "detector" => (status = "InsertedAndInfoLoaded" <=> info # NoCard)

\* The titles of a card are listed only while a card counts as available, until titleExit closes them.
ListedOnlyWhenAvailable == listed # NoCard /\ titles # "done" => available

\* Once a card stays in the slot, or stays out, the cached data is of that card and the status is
\* that of a slot with, or without, a card, whatever was inserted and removed before and however the
\* events of it coalesced; and GameCardTask ends up showing that status.  A card shows as "not
\* inserted" for good exactly if the query made at its last event failed: nobody asks again.
Settled(c) == /\ c = NoCard => status = "NotInserted"
              /\ c # NoCard => info \in {c, NoCard} /\ (status = "NotInserted" <=> misread)
              /\ notified = status
StatusSettles == \A c \in Cards \cup {NoCard} :
                    <>[](card = c /\ app = "run") => []<>Settled(c)

-----------------------------------------------------------------------------
\* What the documents say, and the code does not do

\* title.c, of titleDestroyGameCardInfoThread: "Wait for the gamecard title info thread to exit", and
\* gamecard.h, of gamecardExit: "This includes destroying the background gamecard detection thread":
\* both exits return.
ExitsReturn == app = "titleExit" ~> app = "closed"

\* gamecard.h: "a user-mode gamecard status change event that can be used to wait for status changes on
\* other threads": a card that is loaded and stays is, in the end, a card the title thread has seen.
LoadedCardAvailable == <>[](app = "run" /\ status = "InsertedAndInfoLoaded") => <>[]available
=============================================================================
