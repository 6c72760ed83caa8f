--------------------------- MODULE GameCardProofs ---------------------------
(***************************************************************************)
(* For any set of cards and any number of insertions and removals: what    *)
(* the status of the game card promises about the cached data, and what    *)
(* the availability of the card promises about the listed titles.          *)
(*                                                                         *)
(* StatusTellsInfo speaks of the moments when the detection thread does    *)
(* not hold the mutex; it is inductive only without that condition, which  *)
(* CacheInv drops: the thread never leaves the pair apart between steps.   *)
(***************************************************************************)
EXTENDS GameCard, TLAPS

CacheInv == status = "InsertedAndInfoLoaded" <=> info # NoCard

Inv == TypeOK /\ CacheInv /\ ListedOnlyWhenAvailable

\* Lemma: the invariant holds when the threads are started.
LEMMA InitInv == Init => Inv
  <1> SUFFICES ASSUME Init PROVE Inv
    OBVIOUS
  <1>1. /\ cardEvent \in BOOLEAN /\ statusEvent \in BOOLEAN
        /\ gcExitEvent \in BOOLEAN /\ titleExitEvent \in BOOLEAN
        /\ seen \in BOOLEAN /\ available \in BOOLEAN /\ updated \in BOOLEAN
        /\ misread \in BOOLEAN
    BY DEF Init
  <1> QED
    BY <1>1, GameCardAssumption
       DEF Init, Inv, TypeOK, CacheInv, ListedOnlyWhenAvailable, Statuses, Failures

\* Lemma: what the detection thread does after a look at the slot, and that the look failed or did not.
LEMMA LookIsTyped == LookAtSlot => detector' \in {"load", "signal"} /\ misread' \in BOOLEAN
  <1>1. CASE misread' = FALSE
    BY <1>1 DEF LookAtSlot, IsInserted, IsNotInserted
  <1>2. CASE misread' = TRUE
    BY <1>2 DEF LookAtSlot, IsInserted, IsNotInserted
  <1>3. LookAtSlot => misread' = FALSE \/ misread' = TRUE
    BY DEF LookAtSlot, IsInserted, IsNotInserted
  <1> QED
    BY <1>1, <1>2, <1>3

\* Lemma: no step of the detection thread breaks it: freeing clears the status and the data together,
\* and loading sets both or neither.
LEMMA DetectorKeeps == Inv /\ Detector => Inv'
  <1> SUFFICES ASSUME Inv, Detector PROVE Inv'
    OBVIOUS
  <1> USE GameCardAssumption
          DEF Inv, TypeOK, CacheInv, ListedOnlyWhenAvailable, Statuses, Failures
  <1>1. CASE DetectorStarts
    <2>1. detector' \in {"load", "signal"} /\ misread' \in BOOLEAN
      BY <1>1, LookIsTyped, Zenon DEF DetectorStarts
    <2> QED
      BY <1>1, <2>1 DEF DetectorStarts, cacheVars, titleVars
  <1>2. CASE DetectorWakes
    <2>1. cardEvent' \in BOOLEAN
      BY <1>2 DEF DetectorWakes
    <2> QED
      BY <1>2, <2>1 DEF DetectorWakes, cacheVars, titleVars
  <1>3. CASE DetectorLocks
    <2>1. detector' \in {"load", "signal"} /\ misread' \in BOOLEAN
      BY <1>3, LookIsTyped, Zenon DEF DetectorLocks
    <2> QED
      BY <1>3, <2>1 DEF DetectorLocks, FreeInfo, titleVars
  <1>4. CASE DetectorLoads
    BY <1>4 DEF DetectorLoads, LoadInfo, Load, slotVars, cacheVars, titleVars
  <1>5. CASE DetectorSignals
    BY <1>5 DEF DetectorSignals, slotVars, cacheVars, titleVars
  <1>6. CASE DetectorUnlocksMutex
    BY <1>6 DEF DetectorUnlocksMutex, slotVars, cacheVars, titleVars
  <1>7. CASE DetectorExits
    <2>1. gcExitEvent' \in BOOLEAN
      BY <1>7 DEF DetectorExits
    <2> QED
      BY <1>7, <2>1 DEF DetectorExits, FreeInfo, slotVars, titleVars
  <1> QED
    BY <1>1, <1>2, <1>3, <1>4, <1>5, <1>6, <1>7 DEF Detector

\* Lemma: no step of the title thread breaks it: titles are listed only by a refresh that makes the
\* card available, and are gone with the refresh that makes it unavailable.
LEMMA TitlesKeep == Inv /\ Titles => Inv'
  <1> SUFFICES ASSUME Inv, Titles PROVE Inv'
    OBVIOUS
  <1> USE GameCardAssumption
          DEF Inv, TypeOK, CacheInv, ListedOnlyWhenAvailable, Statuses, Failures
  <1>1. CASE TitlesWake
    <2>1. statusEvent' \in BOOLEAN
      BY <1>1 DEF TitlesWake
    <2> QED
      BY <1>1, <2>1 DEF TitlesWake, slotVars, cacheVars, titleVars
  <1>2. CASE TitlesLock
    BY <1>2 DEF TitlesLock, slotVars, cacheVars, titleVars
  <1>3. CASE TitlesRefresh
    <2>1. CASE NothingNew
      <3>1. available' \in BOOLEAN /\ updated' \in BOOLEAN /\ seen' \in BOOLEAN
        BY <1>3, <2>1 DEF TitlesRefresh, NothingNew
      <3> QED
        BY <1>3, <2>1, <3>1 DEF TitlesRefresh, NothingNew, slotVars, cacheVars
    <2>2. CASE CardGone
      <3>1. available' \in BOOLEAN /\ updated' \in BOOLEAN /\ seen' \in BOOLEAN
        BY <1>3, <2>2 DEF TitlesRefresh, CardGone
      <3> QED
        BY <1>3, <2>2, <3>1 DEF TitlesRefresh, CardGone, slotVars, cacheVars
    <2>3. CASE CardCame
      <3>1. available' \in BOOLEAN /\ updated' \in BOOLEAN /\ seen' \in BOOLEAN
        BY <1>3, <2>3 DEF TitlesRefresh, CardCame
      <3> QED
        BY <1>3, <2>3, <3>1 DEF TitlesRefresh, CardCame, slotVars, cacheVars
    <2> QED
      BY <1>3, <2>1, <2>2, <2>3 DEF TitlesRefresh
  <1>4. CASE TitlesExit
    <2>1. titleExitEvent' \in BOOLEAN /\ available' \in BOOLEAN /\ updated' \in BOOLEAN
      BY <1>4 DEF TitlesExit
    <2> QED
      BY <1>4, <2>1 DEF TitlesExit, slotVars, cacheVars
  <1> QED
    BY <1>1, <1>2, <1>3, <1>4 DEF Titles

\* Lemma: no step of the main thread, which polls and then closes, breaks it.
LEMMA AppKeeps == Inv /\ App => Inv'
  <1> SUFFICES ASSUME Inv, App PROVE Inv'
    OBVIOUS
  <1> USE GameCardAssumption
          DEF Inv, TypeOK, CacheInv, ListedOnlyWhenAvailable, Statuses, Failures
  <1>1. CASE StatusPolled
    BY <1>1 DEF StatusPolled, GetStatus, slotVars, cacheVars, titleVars
  <1>2. CASE UpdateCollected
    <2>1. updated' \in BOOLEAN
      BY <1>2 DEF UpdateCollected
    <2> QED
      BY <1>2, <2>1 DEF UpdateCollected, slotVars, cacheVars
  <1>3. CASE TitleExitLocks
    BY <1>3 DEF TitleExitLocks, slotVars, cacheVars, titleVars
  <1>4. CASE TitleExitReturns
    BY <1>4 DEF TitleExitReturns, slotVars, cacheVars
  <1>5. CASE GameCardExitLocks
    BY <1>5 DEF GameCardExitLocks, slotVars, cacheVars, titleVars
  <1>6. CASE GameCardExitReturns
    BY <1>6 DEF GameCardExitReturns, slotVars, cacheVars, titleVars
  <1> QED
    BY <1>1, <1>2, <1>3, <1>4, <1>5, <1>6 DEF App

\* Lemma: the user, who may act at any moment, and the other readers of the card do not break it.
LEMMA OthersKeep == Inv /\ (Move \/ ReaderLocks \/ ReaderUnlocks) => Inv'
  <1> SUFFICES ASSUME Inv, Move \/ ReaderLocks \/ ReaderUnlocks PROVE Inv'
    OBVIOUS
  <1> USE GameCardAssumption
          DEF Inv, TypeOK, CacheInv, ListedOnlyWhenAvailable, Statuses, Failures
  <1>1. CASE Move
    <2>1. card' \in Cards \cup {NoCard} /\ moves' \in 0..MaxMoves
      BY <1>1 DEF Move, Insert, Remove
    <2> QED
      BY <1>1, <2>1 DEF Move, cacheVars, titleVars
  <1>2. CASE ReaderLocks
    BY <1>2 DEF ReaderLocks, slotVars, cacheVars, titleVars
  <1>3. CASE ReaderUnlocks
    BY <1>3 DEF ReaderUnlocks, slotVars, cacheVars, titleVars
  <1> QED
    BY <1>1, <1>2, <1>3

\* Theorem: the invariant holds in every reachable state.
THEOREM InvHolds == Spec => []Inv
  <1>1. Init => Inv
    BY InitInv
  <1>2. Inv /\ [Next]_vars => Inv'
    <2> SUFFICES ASSUME Inv, [Next]_vars PROVE Inv'
      OBVIOUS
    <2>1. CASE UNCHANGED vars
      BY <2>1 DEF vars, slotVars, cacheVars, titleVars, Inv, TypeOK, CacheInv, ListedOnlyWhenAvailable
    <2> QED
      BY <2>1, DetectorKeeps, TitlesKeep, AppKeeps, OthersKeep DEF Next
  <1> QED
    BY <1>1, <1>2, PTL DEF Spec

\* Theorem: every variable keeps to its values, and every mutex to the threads that may hold it.
THEOREM TypeCorrect == Spec => []TypeOK
  <1>1. Inv => TypeOK
    BY DEF Inv
  <1> QED
    BY <1>1, InvHolds, PTL

\* Theorem: whenever a caller of gamecard.c can hold the mutex, the status tells whether a card's data
\* is cached, whatever the user does with the card while the data is read.
THEOREM StatusIsSound == Spec => []StatusTellsInfo
  <1>1. Inv => StatusTellsInfo
    BY DEF Inv, CacheInv, StatusTellsInfo
  <1> QED
    BY <1>1, InvHolds, PTL

\* Theorem: title.c lists the titles of a game card only while it counts the card as available.
THEOREM ListingIsSound == Spec => []ListedOnlyWhenAvailable
  <1>1. Inv => ListedOnlyWhenAvailable
    BY DEF Inv
  <1> QED
    BY <1>1, InvHolds, PTL
=============================================================================
