--------------------------- MODULE SourcesProofs ----------------------------
(***************************************************************************)
(* What is proved of the sources.  The cursors of a channel: no cursor     *)
(* passes a media that nobody accounts for.  The downloaded files: what a  *)
(* job relies on is kept, and the reapers delete nothing.  The registry:   *)
(* the administrator's last decision holds.  All that and what             *)
(* DeliveryProofs shows holds of the composition.                          *)
(***************************************************************************)
EXTENDS Sources, MediaFiles, DeliveryProofs, NaturalsInduction,
        WellFoundedInduction

-----------------------------------------------------------------------------
(* The largest and the least of a set of numbers *)

LEMMA MinIn ==
    ASSUME NEW S, S \subseteq Nat, S # {}
    PROVE  Min(S) \in S /\ \A y \in S : Min(S) <= y
  <1>1. PICK x \in S : \A y \in S : ~(<<y, x>> \in OpToRel(<, Nat))
    BY NatLessThanWellFounded, WFMin
  <1>2. \A y \in S : ~(y < x)
    BY <1>1 DEF OpToRel
  <1>3. \E z \in S : \A y \in S : z =< y
    BY <1>2
  <1>4. Min(S) \in S /\ \A y \in S : Min(S) =< y
    BY <1>3 DEF Min
  <1> QED BY <1>4

LEMMA MaxIn ==
    ASSUME NEW n \in Nat, NEW S, S \subseteq 0..n, S # {}
    PROVE  Max(S) \in S /\ \A y \in S : y <= Max(S)
  <1> DEFINE T == {k \in Nat : n - k \in S}
  <1>1. T # {}
    <2>1. PICK x \in S : TRUE
      OBVIOUS
    <2>2. n - x \in Nat /\ n - (n - x) = x
      BY <2>1
    <2> QED BY <2>1, <2>2
  <1>2. Min(T) \in T /\ \A k \in T : Min(T) <= k
    <2> HIDE DEF T
    <2> QED BY <1>1, MinIn DEF T
  <1>3. \A y \in S : n - Min(T) >= y
    <2> SUFFICES ASSUME NEW y \in S PROVE n - Min(T) >= y
      OBVIOUS
    <2>1. n - y \in T
      OBVIOUS
    <2>2. Min(T) <= n - y
      BY <1>2, <2>1
    <2>3. y \in Nat /\ Min(T) \in Nat
      BY <1>2
    <2> QED BY <2>2, <2>3
  <1>4. n - Min(T) \in S
    BY <1>2
  <1>5. \E x \in S : \A y \in S : x >= y
    BY <1>3, <1>4
  <1>6. Max(S) \in S /\ \A y \in S : Max(S) >= y
    BY <1>5 DEF Max
  <1> QED BY <1>6

LEMMA MaxOf ==
    ASSUME NEW a \in Nat, NEW b \in Nat
    PROVE  Max({a, b}) = IF a <= b THEN b ELSE a
  <1>1. {a, b} \subseteq 0..(a + b)
    OBVIOUS
  <1>2. Max({a, b}) \in {a, b} /\ \A y \in {a, b} : y <= Max({a, b})
    BY <1>1, MaxIn, a + b \in Nat
  <1> QED BY <1>2

LEMMA MinOf ==
    ASSUME NEW a \in Nat, NEW b \in Nat
    PROVE  Min({a, b}) = IF a <= b THEN a ELSE b
  <1>1. Min({a, b}) \in {a, b} /\ \A y \in {a, b} : Min({a, b}) <= y
    BY MinIn
  <1> QED BY <1>1

-----------------------------------------------------------------------------
(* The cursors: the inductive invariant *)

(* The members of the album are consecutive messages. *)
AlbumConsecutive == \A x, y \in AlbumIds : x..y \subseteq AlbumIds

(* The media that somebody accounts for. *)
Covered ==
    admitted \cup albumBuffer \cup passedOver
        \cup UNION {held[s] : s \in Scanners}

(* A mark is backed: who skips a marked media relies on another producer. *)
MarkedCovered == marked \subseteq Covered

(* The buffer, the flush task and the cached group hold published members of
   the album, the group is the beginning of it, and the task holds nothing
   before it has taken the buffer. *)
AlbumsOK ==
    /\ held["album"] \subseteq AlbumIds \cap Posted
    /\ flushing \in {"none", "waiting"} => held["album"] = {}
    /\ albumBuffer \subseteq AlbumIds \cap Posted
    /\ groupCache \subseteq AlbumIds \cap Posted
    /\ \A x \in AlbumIds, y \in groupCache : x <= y => x \in groupCache

(* What is listed belongs to a pass; the guard lists above its cursor. *)
ListsOK ==
    /\ \A s \in Scanners : left[s] # {} => s \in scanning
    /\ \A m \in left["guard"] :
          guardCursor < m /\ m <= maxSeen /\ m <= published
    /\ maxSeen <= published \/ maxSeen <= guardCursor

(* What lies between the cursor and an id is accounted for, or waits behind
   the window. *)
DoneTo(id) ==
    \A m \in Ids :
        guardCursor < m /\ m <= id => m \in behindWindow \cup Covered

GuardListed ==
    "guard" \in scanning =>
        \A m \in Ids : guardCursor < m /\ m <= maxSeen
            => m \in left["guard"] \cup behindWindow \cup Covered

GuardProcessed ==
    "guard" \in scanning => DoneTo(processedMax) /\ DoneTo(unitMax)

(* A batch begins below the newest id the backfill has fixed. *)
BatchOpen == "backfill" \in scanning => historyNext <= batchLatest

BackfillListed ==
    "backfill" \in scanning =>
        \A m \in Ids : historyNext <= m /\ m <= BatchEnd(batchLatest)
            => m \in left["backfill"] \cup Covered

CursorsTyped == CursorsTypeOK /\ AlbumsOK /\ ListsOK /\ BatchOpen

CursorsInv ==
    /\ CursorsTyped
    /\ MarkedCovered
    /\ GuardListed /\ GuardProcessed /\ BackfillListed
    /\ CursorsCover

(* The type of the cursors, variable by variable. *)
CursorTypes ==
    /\ published \in 0..MaxId
    /\ marked \subseteq Ids /\ admitted \subseteq Ids
    /\ albumBuffer \subseteq Ids /\ groupCache \subseteq Ids
    /\ behindWindow \subseteq Ids /\ passedOver \subseteq Ids
    /\ flushing \in {"none", "waiting", "fetching", "enqueueing"}
    /\ held \in [Scanners -> SUBSET Ids]
    /\ left \in [Scanners -> SUBSET Ids]
    /\ scanning \subseteq Scanners /\ metAlbum \subseteq scanning
    /\ guardCursor \in 0..MaxId /\ maxSeen \in 0..MaxId
    /\ processedMax \in 0..MaxId /\ unitMax \in 0..MaxId
    /\ historyLatest \in 0..MaxId /\ batchLatest \in 0..MaxId
    /\ historyNext \in 1..(MaxId + 1) /\ historyComplete \in BOOLEAN
    /\ scanFaults \in 0..MaxScanFaults

LEMMA TypeParts ==
    /\ CursorsTypeOK <=> CursorTypes
    /\ CursorsTypeOK' <=> CursorTypes'
  BY Zenon DEF CursorsTypeOK, CursorTypes

LEMMA CoveredIs ==
    /\ \A m : m \in Covered <=>
          \/ m \in admitted \/ m \in albumBuffer \/ m \in passedOver
          \/ \E s \in Scanners : m \in held[s]
    /\ \A m : m \in Covered' <=>
          \/ m \in admitted' \/ m \in albumBuffer' \/ m \in passedOver'
          \/ \E s \in Scanners : m \in held'[s]
  BY DEF Covered

LEMMA CoverIs ==
    /\ CursorsCover <=>
          \A m \in Ids : m <= guardCursor \/ m < historyNext => m \in Covered
    /\ CursorsCover' <=>
          \A m \in Ids : m <= guardCursor' \/ m < historyNext' => m \in Covered'
  BY Zenon DEF CursorsCover, Covered

-----------------------------------------------------------------------------
(* The cursors: types *)

LEMMA GroupFacts ==
    ASSUME CursorTypes, AlbumsOK
    PROVE  /\ GroupOf \subseteq AlbumIds \cap Posted
           /\ \A x \in AlbumIds, y \in GroupOf : x <= y => x \in GroupOf
           /\ \A m \in AlbumIds : m <= published =>
                 /\ GroupOf # {}
                 /\ Max(GroupOf) \in GroupOf
                 /\ \A y \in GroupOf : y <= Max(GroupOf)
  <1>1. AlbumIds \subseteq Ids /\ MaxId \in Nat
    BY CursorAssumption
  <1>2. GroupOf \subseteq AlbumIds \cap Posted
    BY DEF AlbumsOK, GroupOf
  <1>3. \A x \in AlbumIds, y \in GroupOf : x <= y => x \in GroupOf
    BY <1>1 DEF AlbumsOK, GroupOf, Posted, Ids, CursorTypes
  <1>4. ASSUME NEW m \in AlbumIds, m <= published PROVE GroupOf # {}
    BY <1>1, <1>4 DEF GroupOf, Posted, Ids
  <1>5. GroupOf \subseteq 0..MaxId
    BY <1>1, <1>2 DEF Ids
  <1> QED BY <1>1, <1>2, <1>3, <1>4, <1>5, MaxIn

LEMMA MarkUnitTyped ==
    ASSUME CursorTypes, AlbumsOK, NEW s \in scanning, NEW m \in Ids,
           NEW skip, MarkUnit(s, m, skip)
    PROVE  /\ held' \in [Scanners -> SUBSET Ids] /\ marked' \subseteq Ids
           /\ left' \in [Scanners -> SUBSET Ids]
           /\ metAlbum' \subseteq scanning
           /\ groupCache' \subseteq Ids /\ passedOver' \subseteq Ids
  <1>1. GroupOf \subseteq Ids
    BY GroupFacts, CursorAssumption
  <1>2. s \in Scanners
    BY DEF CursorTypes
  <1>3. Unit(m, skip) \subseteq Ids
    BY <1>1 DEF Unit
  <1> QED BY <1>1, <1>2, <1>3 DEF MarkUnit, CursorTypes, Unmarked

LEMMA PassOverTyped ==
    ASSUME CursorTypes, NEW S \in SUBSET Ids, PassOver(S)
    PROVE  passedOver' \subseteq Ids
  BY DEF PassOver, CursorTypes

LEMMA CutOffTyped ==
    ASSUME CursorTypes, NEW s \in Scanners, NEW lost \in SUBSET Ids,
           CutOff(s, lost)
    PROVE  /\ scanFaults' \in 0..MaxScanFaults /\ passedOver' \subseteq Ids
           /\ marked' \subseteq Ids /\ admitted' \subseteq Ids
           /\ held' \in [Scanners -> SUBSET Ids]
           /\ left' \in [Scanners -> SUBSET Ids]
           /\ scanning' \subseteq Scanners /\ metAlbum' \subseteq scanning'
  <1>1. scanFaults' \in 0..MaxScanFaults
    BY CursorAssumption DEF CutOff, CursorTypes
  <1>2. held[s] \cup lost \in SUBSET Ids
    BY DEF CursorTypes
  <1>3. passedOver' \subseteq Ids
    BY <1>2, PassOverTyped DEF CutOff
  <1> QED BY <1>1, <1>3 DEF CutOff, CursorTypes

LEMMA EnqueueTyped ==
    ASSUME CursorTypes, NEW s \in Scanners, NEW lost \in SUBSET Ids,
           Enqueue(s, lost)
    PROVE  /\ marked' \subseteq Ids /\ admitted' \subseteq Ids
           /\ passedOver' \subseteq Ids
           /\ held' \in [Scanners -> SUBSET Ids]
  <1>1. passedOver' \subseteq Ids
    BY PassOverTyped DEF Enqueue
  <1> QED BY <1>1 DEF Enqueue, Admit, CursorTypes

LEMMA SetGuardTyped ==
    ASSUME CursorTypes, NEW upto \in 0..MaxId, set_guard_cursor(upto)
    PROVE  /\ guardCursor' \in 0..MaxId
           /\ guardCursor' = IF guardCursor <= upto THEN upto
                                                     ELSE guardCursor
  BY MaxOf DEF set_guard_cursor, CursorTypes

LEMMA BatchEndIs ==
    ASSUME CursorTypes, NEW latest \in 0..MaxId, historyNext <= latest
    PROVE  /\ BatchEnd(latest) \in Ids
           /\ historyNext <= BatchEnd(latest) /\ BatchEnd(latest) <= latest
  <1> DEFINE last == historyNext + HISTORICAL_BACKFILL_BATCH_IDS - 1
  <1>1. last \in Nat /\ latest \in Nat /\ historyNext <= last
    BY CursorAssumption DEF CursorTypes
  <1>2. BatchEnd(latest) = IF latest <= last THEN latest ELSE last
    <2> HIDE DEF last
    <2>1. Min({latest, last}) = IF latest <= last THEN latest ELSE last
      BY <1>1, MinOf
    <2> QED BY <2>1 DEF BatchEnd, last
  <1> QED BY <1>1, <1>2, CursorAssumption DEF CursorTypes, Ids

LEMMA CursorTypesInit == CursorsInit => CursorTypes
  <1> SUFFICES ASSUME CursorsInit PROVE CursorTypes
    OBVIOUS
  <1>1. 0 \in 0..MaxId /\ 0 \in 0..MaxScanFaults /\ 1 \in 1..(MaxId + 1)
    BY CursorAssumption
  <1>2. /\ held \in [Scanners -> SUBSET Ids]
        /\ left \in [Scanners -> SUBSET Ids]
    BY DEF CursorsInit
  <1> QED BY <1>1, <1>2 DEF CursorsInit, CursorTypes

LEMMA CursorTypesStep ==
    ASSUME CursorTypes, AlbumsOK, ListsOK, BatchOpen, CursorsNext
    PROVE  CursorTypes'
  <1> USE DEF cursorLocals, guardLocals, backfillVars, albumVars
  <1>1. MaxId \in Nat /\ published \in 0..MaxId /\ Posted \subseteq Ids
    BY CursorAssumption DEF CursorTypes, Posted, Ids
  <1>2. CASE post_message
    BY <1>1, <1>2 DEF post_message, CursorTypes
  <1>3. CASE auto_monitor
    <2>1. PICK m \in Unmarked(Newest(MaxUpdateLag)) :
            /\ marked' = marked \cup {m}
            /\ \/ /\ albumBuffer' = albumBuffer \cup {m} /\ held' = held
                  /\ flushing' \in {"waiting", flushing}
               \/ /\ held' = [held EXCEPT !["live"] = @ \cup {m}]
                  /\ albumBuffer' = albumBuffer /\ flushing' = flushing
      BY <1>3 DEF auto_monitor
    <2>2. m \in Ids /\ {m} \subseteq Ids
      BY <1>1 DEF Unmarked, Newest
    <2>3. held' \in [Scanners -> SUBSET Ids] /\ albumBuffer' \subseteq Ids
          /\ flushing' \in {"none", "waiting", "fetching", "enqueueing"}
      BY <2>1, <2>2 DEF CursorTypes
    <2>4. marked' \subseteq Ids
      BY <2>1, <2>2 DEF CursorTypes
    <2> QED BY <1>3, <2>3, <2>4 DEF auto_monitor, CursorTypes
  <1>4. CASE _auto_flush_album
    BY <1>4 DEF _auto_flush_album, CursorTypes
  <1>5. CASE live_enqueued
    <2>1. PICK m \in held["live"] :
            /\ Admit({m}) /\ PassOver({})
            /\ held' = [held EXCEPT !["live"] = @ \ {m}]
      BY <1>5 DEF live_enqueued
    <2>2. m \in Ids
      BY <2>1 DEF CursorTypes, Scanners
    <2>3. passedOver' \subseteq Ids
      BY <2>1, PassOverTyped
    <2>4. admitted' \subseteq Ids /\ marked' \subseteq Ids
      BY <2>1, <2>2 DEF Admit, CursorTypes
    <2>5. held' \in [Scanners -> SUBSET Ids]
      BY <2>1 DEF CursorTypes
    <2> QED BY <1>5, <2>3, <2>4, <2>5 DEF live_enqueued, CursorTypes
  <1>6. CASE live_fails
    <2>1. PICK m \in held["live"] :
            /\ PassOver({m}) /\ UNCHANGED <<marked, admitted>>
            /\ held' = [held EXCEPT !["live"] = @ \ {m}]
      BY <1>6 DEF live_fails
    <2>2. {m} \in SUBSET Ids
      BY <2>1 DEF CursorTypes, Scanners
    <2>3. passedOver' \subseteq Ids
      BY <2>1, <2>2, PassOverTyped
    <2>4. held' \in [Scanners -> SUBSET Ids]
      BY <2>1 DEF CursorTypes
    <2>5. scanFaults' \in 0..MaxScanFaults
      BY <1>6, CursorAssumption DEF live_fails, CursorTypes
    <2> QED BY <1>6, <2>1, <2>3, <2>4, <2>5 DEF live_fails, CursorTypes
  <1>22. CASE album_fetched
    <2>1. PICK found \in {AlbumIds \cap Posted, held["album"]} :
            /\ held' = [held EXCEPT !["album"] = found]
            /\ marked' = marked \cup (found \ admitted)
      BY <1>22 DEF album_fetched
    <2>2. found \subseteq Ids
      BY <1>1 DEF CursorTypes, Scanners
    <2> QED BY <1>22, <2>1, <2>2 DEF album_fetched, CursorTypes
  <1>23. CASE album_enqueued
    <2>1. albumBuffer \in SUBSET Ids /\ "album" \in Scanners
      BY DEF CursorTypes, Scanners
    <2>2. /\ marked' \subseteq Ids /\ admitted' \subseteq Ids
          /\ passedOver' \subseteq Ids
          /\ held' \in [Scanners -> SUBSET Ids]
      BY <1>23, <2>1, EnqueueTyped DEF album_enqueued
    <2> QED BY <1>23, <2>2 DEF album_enqueued, FlushOver, CursorTypes
  <1>24. CASE album_fails
    <2>1. albumBuffer \in SUBSET Ids /\ "album" \in Scanners
      BY DEF CursorTypes, Scanners
    <2>2. /\ scanFaults' \in 0..MaxScanFaults /\ passedOver' \subseteq Ids
          /\ marked' \subseteq Ids /\ admitted' \subseteq Ids
          /\ held' \in [Scanners -> SUBSET Ids]
          /\ left' \in [Scanners -> SUBSET Ids]
          /\ scanning' \subseteq Scanners /\ metAlbum' \subseteq scanning'
      BY <1>24, <2>1, CutOffTyped DEF album_fails
    <2> QED BY <1>24, <2>2 DEF album_fails, FlushOver, CursorTypes
  <1>7. CASE group_cache_expires
    BY <1>7 DEF group_cache_expires, CursorTypes
  <1>8. CASE clear_processing_cache_if_idle
    BY <1>8 DEF clear_processing_cache_if_idle, CursorTypes
  <1>9. CASE guard_list
    <2>1. MaxWith(Posted, guardCursor) \in 0..MaxId
      <3>1. Posted \cup {guardCursor} \subseteq 0..MaxId
        BY <1>1 DEF Ids, CursorTypes
      <3> QED BY <1>1, <3>1, MaxIn DEF MaxWith
    <2>2. left' \in [Scanners -> SUBSET Ids] /\ behindWindow' \subseteq Ids
      BY <1>1, <1>9 DEF guard_list, CursorTypes
    <2>3. scanning' \subseteq Scanners /\ metAlbum' \subseteq scanning'
      BY <1>9 DEF guard_list, CursorTypes, Scanners
    <2>4. maxSeen' \in 0..MaxId /\ processedMax' \in 0..MaxId
          /\ unitMax' \in 0..MaxId
      BY <1>1, <1>9, <2>1 DEF guard_list, CursorTypes
    <2> QED BY <1>9, <2>2, <2>3, <2>4 DEF guard_list, CursorTypes
  <1>10. CASE guard_take
    <2> DEFINE m == Min(left["guard"])
               last == IF m \in AlbumIds /\ "guard" \notin metAlbum
                       THEN Max(GroupOf) ELSE m
    <2>1. m \in left["guard"] /\ m \in Ids /\ "guard" \in scanning
      <3>1. left["guard"] \subseteq Nat /\ left["guard"] \subseteq Ids
        BY DEF CursorTypes, Scanners, Ids
      <3>2. left["guard"] # {}
        BY <1>10 DEF guard_take
      <3> QED BY <3>1, <3>2, MinIn DEF ListsOK, Scanners
    <2>2. last \in 0..MaxId
      <3>1. m <= published
        BY <2>1 DEF ListsOK
      <3>2. AlbumIds \subseteq Ids
        BY CursorAssumption
      <3> HIDE DEF m
      <3>3. m \in 0..MaxId
        BY <2>1 DEF Ids
      <3>4. m \in AlbumIds => Max(GroupOf) \in Ids
        BY <3>1, <3>2, GroupFacts
      <3> QED BY <3>3, <3>4 DEF Ids
    <2>3. /\ MarkUnit("guard", m, 1..guardCursor)
          /\ \/ processedMax' = Max({last, processedMax}) /\ unitMax' = 0
             \/ unitMax' = last /\ processedMax' = processedMax
          /\ UNCHANGED <<published, admitted, albumVars, scanning,
                         guardCursor, maxSeen, behindWindow, batchLatest,
                         backfillVars, scanFaults>>
      BY <1>10 DEF guard_take
    <2> HIDE DEF m, last
    <2>4. processedMax' \in 0..MaxId /\ unitMax' \in 0..MaxId
      BY <1>1, <2>2, <2>3, MaxOf DEF CursorTypes
    <2>5. /\ held' \in [Scanners -> SUBSET Ids] /\ marked' \subseteq Ids
          /\ left' \in [Scanners -> SUBSET Ids]
          /\ metAlbum' \subseteq scanning
          /\ groupCache' \subseteq Ids /\ passedOver' \subseteq Ids
      BY <2>1, <2>3, MarkUnitTyped
    <2> QED BY <2>3, <2>4, <2>5 DEF CursorTypes
  <1>11. CASE guard_enqueued
    <2>1. processedMax' \in 0..MaxId /\ unitMax' \in 0..MaxId
      BY <1>1, <1>11, MaxOf DEF guard_enqueued, CursorTypes
    <2>2. /\ marked' \subseteq Ids /\ admitted' \subseteq Ids
          /\ passedOver' \subseteq Ids
          /\ held' \in [Scanners -> SUBSET Ids]
      BY <1>11, EnqueueTyped DEF guard_enqueued, Scanners
    <2> QED BY <1>11, <2>1, <2>2 DEF guard_enqueued, CursorTypes
  <1>12. CASE guard_done
    <2>1. guardCursor' \in 0..MaxId
      BY <1>12, SetGuardTyped DEF guard_done, CursorTypes
    <2> QED BY <1>1, <1>12, <2>1
            DEF guard_done, GuardOver, Unmarked, CursorTypes
  <1>13. CASE guard_error \/ guard_access_error \/ guard_timeout
    <2>1. guardCursor' \in 0..MaxId
      BY <1>13, SetGuardTyped
         DEF guard_error, guard_access_error, guard_timeout, CursorTypes
    <2>2. PICK lost \in SUBSET Ids : CutOff("guard", lost)
      <3>1. /\ {m \in Unmarked(behindWindow) : m <= processedMax}
                  \in SUBSET Ids
            /\ Unmarked(behindWindow \cup left["guard"]) \in SUBSET Ids
        BY DEF Unmarked, CursorTypes, Scanners
      <3> QED BY <1>13, <3>1
              DEF guard_error, guard_access_error, guard_timeout
    <2>3. /\ scanFaults' \in 0..MaxScanFaults /\ passedOver' \subseteq Ids
          /\ marked' \subseteq Ids /\ admitted' \subseteq Ids
          /\ held' \in [Scanners -> SUBSET Ids]
          /\ left' \in [Scanners -> SUBSET Ids]
          /\ scanning' \subseteq Scanners /\ metAlbum' \subseteq scanning'
      BY <2>2, CutOffTyped DEF Scanners
    <2>4. 0 \in 0..MaxId
      BY <1>1
    <2> QED BY <1>13, <2>1, <2>3, <2>4
            DEF guard_error, guard_access_error, guard_timeout, GuardOver,
                CursorTypes
  <1>16. CASE backfill_nothing_left
    <2>1. LatestId \in 0..MaxId
      BY DEF LatestId, CursorTypes
    <2>2. Max({historyNext, LatestId + 1}) \in 1..(MaxId + 1)
      <3>1. historyNext \in Nat /\ LatestId + 1 \in Nat
        BY <1>1, <2>1 DEF CursorTypes
      <3> QED BY <1>1, <2>1, <3>1, MaxOf DEF CursorTypes
    <2> QED BY <1>16, <2>1, <2>2
            DEF backfill_nothing_left, save_historical_cursor, CursorTypes
  <1>17. CASE backfill_fetch
    <2>1. LatestId \in 0..MaxId /\ historyNext <= LatestId
      BY <1>17 DEF LatestId, CursorTypes, backfill_fetch
    <2>2. historyNext..BatchEnd(LatestId) \subseteq Ids
      BY <1>1, <2>1, BatchEndIs DEF CursorTypes, Ids
    <2>3. left' \in [Scanners -> SUBSET Ids]
      BY <1>17, <2>2 DEF backfill_fetch, CursorTypes
    <2>4. scanning' \subseteq Scanners /\ metAlbum' \subseteq scanning'
      BY <1>17 DEF backfill_fetch, CursorTypes, Scanners
    <2> QED BY <1>17, <2>1, <2>3, <2>4 DEF backfill_fetch, CursorTypes
  <1>18. CASE backfill_take
    <2> DEFINE m == Min(left["backfill"])
    <2>1. m \in Ids /\ "backfill" \in scanning
      <3>1. left["backfill"] \subseteq Nat /\ left["backfill"] \subseteq Ids
        BY DEF CursorTypes, Scanners, Ids
      <3>2. left["backfill"] # {}
        BY <1>18 DEF backfill_take
      <3> QED BY <3>1, <3>2, MinIn DEF ListsOK, Scanners
    <2>2. MarkUnit("backfill", m, {})
      BY <1>18 DEF backfill_take
    <2> HIDE DEF m
    <2>3. /\ held' \in [Scanners -> SUBSET Ids] /\ marked' \subseteq Ids
          /\ left' \in [Scanners -> SUBSET Ids]
          /\ metAlbum' \subseteq scanning
          /\ groupCache' \subseteq Ids /\ passedOver' \subseteq Ids
      BY <2>1, <2>2, MarkUnitTyped
    <2> QED BY <1>18, <2>3 DEF backfill_take, CursorTypes
  <1>19. CASE backfill_enqueued
    <2>1. /\ marked' \subseteq Ids /\ admitted' \subseteq Ids
          /\ passedOver' \subseteq Ids
          /\ held' \in [Scanners -> SUBSET Ids]
      BY <1>19, EnqueueTyped DEF backfill_enqueued, Scanners
    <2> QED BY <1>19, <2>1 DEF backfill_enqueued, CursorTypes
  <1>20. CASE backfill_saved
    <2>1. /\ historyNext <= batchLatest
          /\ batchLatest \in 0..MaxId
      BY <1>20 DEF backfill_saved, BatchOpen, CursorTypes
    <2>2. historyNext' \in 1..(MaxId + 1)
      BY <1>1, <1>20, <2>1, BatchEndIs
         DEF backfill_saved, save_historical_cursor, Ids
    <2>3. historyComplete' \in BOOLEAN /\ historyLatest' \in 0..MaxId
          /\ batchLatest' \in 0..MaxId
      BY <1>1, <1>20, <2>1 DEF backfill_saved, save_historical_cursor
    <2>4. scanning' \subseteq Scanners /\ metAlbum' \subseteq scanning'
      BY <1>20 DEF backfill_saved, CursorTypes
    <2> QED BY <1>20, <2>2, <2>3, <2>4 DEF backfill_saved, CursorTypes
  <1>21. CASE backfill_fails
    <2>1. /\ scanFaults' \in 0..MaxScanFaults /\ passedOver' \subseteq Ids
          /\ marked' \subseteq Ids /\ admitted' \subseteq Ids
          /\ held' \in [Scanners -> SUBSET Ids]
          /\ left' \in [Scanners -> SUBSET Ids]
          /\ scanning' \subseteq Scanners /\ metAlbum' \subseteq scanning'
      BY <1>21, CutOffTyped DEF backfill_fails, Scanners
    <2> QED BY <1>1, <1>21, <2>1 DEF backfill_fails, CursorTypes
  <1> QED
    BY <1>2, <1>3, <1>4, <1>5, <1>6, <1>7, <1>8, <1>9, <1>10, <1>11, <1>12,
       <1>13, <1>16, <1>17, <1>18, <1>19, <1>20, <1>21, <1>22, <1>23, <1>24
    DEF CursorsNext

-----------------------------------------------------------------------------
(* The cursors: what is accounted for stays so *)

(* The unit a scanner takes is marked and held, or was accounted for. *)
LEMMA MarkUnitCovers ==
    ASSUME CursorTypes, MarkedCovered, NEW s \in Scanners, held[s] = {},
           NEW m, NEW skip, MarkUnit(s, m, skip),
           UNCHANGED <<admitted, albumBuffer>>
    PROVE  /\ Covered \subseteq Covered' /\ MarkedCovered'
           /\ m \in Covered'
           /\ ~(m \in AlbumIds /\ s \in metAlbum)
                 => Unit(m, skip) \subseteq Covered'
  <1> DEFINE again == m \in AlbumIds /\ s \in metAlbum
             unit == IF again THEN {} ELSE Unit(m, skip)
  <1>1. /\ held' = [held EXCEPT ![s] = Unmarked(unit)]
        /\ marked' = marked \cup Unmarked(unit)
        /\ passedOver' = passedOver \cup (Unmarked({m}) \ unit)
    BY DEF MarkUnit
  <1> HIDE DEF unit
  <1>2. \A t \in Scanners : t # s => held'[t] = held[t]
    BY <1>1 DEF CursorTypes
  <1>3. held'[s] = Unmarked(unit)
    BY <1>1 DEF CursorTypes
  <1>4. Covered \subseteq Covered'
    BY <1>1, <1>2, CoveredIs
  <1>5. unit \subseteq Covered'
    <2>1. Unmarked(unit) \subseteq Covered'
      BY <1>3, CoveredIs
    <2>2. marked \cup admitted \subseteq Covered'
      BY <1>4, CoveredIs DEF MarkedCovered
    <2> QED BY <2>1, <2>2 DEF Unmarked
  <1>6. m \in Covered'
    BY <1>1, <1>4, <1>5, CoveredIs DEF Unmarked, MarkedCovered
  <1>7. MarkedCovered'
    BY <1>1, <1>4, <1>5 DEF MarkedCovered, Unmarked
  <1> QED BY <1>4, <1>5, <1>6, <1>7 DEF unit

LEMMA EnqueueCovers ==
    ASSUME CursorTypes, MarkedCovered, NEW s \in Scanners, NEW lost,
           Enqueue(s, lost), albumBuffer \ lost \subseteq albumBuffer'
    PROVE  Covered \subseteq Covered' /\ MarkedCovered'
  <1>1. \A t \in Scanners : t # s => held'[t] = held[t]
    BY DEF CursorTypes, Enqueue
  <1>2. /\ admitted \subseteq admitted' /\ held[s] \subseteq admitted'
        /\ passedOver \cup lost \subseteq passedOver' \cup admitted'
    BY DEF Enqueue, Admit, PassOver
  <1>3. Covered \subseteq Covered'
    BY <1>1, <1>2, CoveredIs
  <1> QED BY <1>3 DEF MarkedCovered, Enqueue, Admit

LEMMA CutOffCovers ==
    ASSUME CursorTypes, MarkedCovered, NEW s \in Scanners, NEW lost,
           CutOff(s, lost), albumBuffer \ lost \subseteq albumBuffer'
    PROVE  Covered \subseteq Covered' /\ MarkedCovered'
  <1>1. \A t \in Scanners : t # s => held'[t] = held[t]
    BY DEF CursorTypes, CutOff
  <1>2. /\ admitted' = admitted /\ marked' = marked
        /\ passedOver \cup lost \cup held[s]
              \subseteq passedOver' \cup admitted'
    BY DEF CutOff, PassOver
  <1>3. Covered \subseteq Covered'
    BY <1>1, <1>2, CoveredIs
  <1> QED BY <1>2, <1>3 DEF MarkedCovered

LEMMA SameCovers ==
    ASSUME MarkedCovered, marked' \subseteq marked,
           passedOver \subseteq passedOver',
           UNCHANGED <<admitted, albumBuffer, held>>
    PROVE  Covered \subseteq Covered' /\ MarkedCovered'
  <1>1. Covered \subseteq Covered'
    BY CoveredIs
  <1> QED BY <1>1 DEF MarkedCovered

LEMMA CoveredGrows ==
    ASSUME CursorTypes, MarkedCovered, AlbumsOK, CursorsNext
    PROVE  Covered \subseteq Covered' /\ MarkedCovered'
  <1> USE DEF albumVars
  <1>1. CASE post_message \/ group_cache_expires
             \/ clear_processing_cache_if_idle \/ guard_list \/ guard_done
             \/ backfill_nothing_left \/ backfill_fetch \/ backfill_saved
    <2>1. /\ marked' \subseteq marked /\ passedOver \subseteq passedOver'
          /\ UNCHANGED <<admitted, albumBuffer, held>>
      BY <1>1 DEF post_message, group_cache_expires,
                  clear_processing_cache_if_idle, guard_list, guard_done,
                  backfill_nothing_left, backfill_fetch, backfill_saved
    <2> QED BY <2>1, SameCovers
  <1>2. CASE auto_monitor
    <2>1. PICK m \in Unmarked(Newest(MaxUpdateLag)) :
            /\ marked' = marked \cup {m}
            /\ \/ albumBuffer' = albumBuffer \cup {m} /\ held' = held
               \/ /\ held' = [held EXCEPT !["live"] = @ \cup {m}]
                  /\ albumBuffer' = albumBuffer
      BY <1>2 DEF auto_monitor
    <2>2. UNCHANGED <<admitted, passedOver>>
      BY <1>2 DEF auto_monitor
    <2>3. Covered \subseteq Covered' /\ m \in Covered'
      <3>1. CASE albumBuffer' = albumBuffer \cup {m} /\ held' = held
        BY <2>2, <3>1, CoveredIs
      <3>2. CASE /\ held' = [held EXCEPT !["live"] = @ \cup {m}]
                 /\ albumBuffer' = albumBuffer
        <4>1. /\ held'["live"] = held["live"] \cup {m}
              /\ \A t \in Scanners : t # "live" => held'[t] = held[t]
          BY <3>2 DEF CursorTypes, Scanners
        <4> QED BY <2>2, <3>2, <4>1, CoveredIs DEF Scanners
      <3> QED BY <2>1, <3>1, <3>2
    <2> QED BY <2>1, <2>3 DEF MarkedCovered
  <1>3. CASE live_enqueued \/ live_fails
    <2>1. PICK m \in held["live"] :
            /\ \/ Admit({m}) /\ PassOver({})
               \/ UNCHANGED <<marked, admitted>> /\ PassOver({m})
            /\ held' = [held EXCEPT !["live"] = @ \ {m}]
      BY <1>3 DEF live_enqueued, live_fails
    <2>2. /\ held'["live"] = held["live"] \ {m}
          /\ \A t \in Scanners : t # "live" => held'[t] = held[t]
      BY <2>1 DEF CursorTypes, Scanners
    <2>3. /\ admitted \subseteq admitted' /\ marked' \subseteq marked
          /\ passedOver \cup {m} \subseteq passedOver' \cup admitted'
      BY <2>1 DEF Admit, PassOver
    <2>4. albumBuffer' = albumBuffer
      BY <1>3 DEF live_enqueued, live_fails
    <2>5. Covered \subseteq Covered'
      BY <2>2, <2>3, <2>4, CoveredIs DEF Scanners
    <2> QED BY <2>3, <2>5 DEF MarkedCovered
  <1>4. CASE _auto_flush_album
    <2>1. /\ held'["album"] = albumBuffer /\ held["album"] = {}
          /\ \A t \in Scanners : t # "album" => held'[t] = held[t]
      BY <1>4 DEF _auto_flush_album, AlbumsOK, CursorTypes, Scanners
    <2>2. UNCHANGED <<admitted, marked, passedOver>>
      BY <1>4 DEF _auto_flush_album
    <2>3. Covered \subseteq Covered'
      BY <2>1, <2>2, CoveredIs DEF Scanners
    <2> QED BY <2>2, <2>3 DEF MarkedCovered
  <1>5. CASE album_fetched
    <2>1. PICK found \in {AlbumIds \cap Posted, held["album"]} :
            /\ held' = [held EXCEPT !["album"] = found]
            /\ marked' = marked \cup (found \ admitted)
      BY <1>5 DEF album_fetched
    <2>2. /\ held'["album"] = found
          /\ \A t \in Scanners : t # "album" => held'[t] = held[t]
      BY <2>1 DEF CursorTypes, Scanners
    <2>3. held["album"] \subseteq found
      BY DEF AlbumsOK
    <2>4. UNCHANGED <<admitted, albumBuffer, passedOver>>
      BY <1>5 DEF album_fetched
    <2>5. found \subseteq Covered'
      BY <2>2, CoveredIs DEF Scanners
    <2>6. Covered \subseteq Covered'
      BY <2>2, <2>3, <2>4, CoveredIs DEF Scanners
    <2> QED BY <2>1, <2>5, <2>6 DEF MarkedCovered
  <1>6. CASE album_enqueued \/ guard_enqueued \/ backfill_enqueued
    BY <1>6, EnqueueCovers
       DEF album_enqueued, guard_enqueued, backfill_enqueued, Scanners
  <1>7. CASE album_fails
    BY <1>7, CutOffCovers DEF album_fails, Scanners
  <1>8. CASE guard_error \/ guard_access_error \/ guard_timeout
             \/ backfill_fails
    <2>1. PICK s \in Scanners, lost \in {{},
               {m \in Unmarked(behindWindow) : m <= processedMax},
               Unmarked(behindWindow \cup left["guard"])} : CutOff(s, lost)
      BY <1>8 DEF guard_error, guard_access_error, guard_timeout,
                  backfill_fails, Scanners
    <2>2. albumBuffer' = albumBuffer
      BY <1>8 DEF guard_error, guard_access_error, guard_timeout,
                  backfill_fails
    <2> QED BY <2>1, <2>2, CutOffCovers
  <1>9. CASE guard_take
    BY <1>9, MarkUnitCovers DEF guard_take, Scanners
  <1>10. CASE backfill_take
    BY <1>10, MarkUnitCovers DEF backfill_take, Scanners
  <1> QED
    BY <1>1, <1>2, <1>3, <1>4, <1>5, <1>6, <1>7, <1>8, <1>9, <1>10
    DEF CursorsNext

-----------------------------------------------------------------------------
(* The cursors: each part of the invariant *)

LEMMA AlbumsStep ==
    ASSUME CursorTypes, AlbumsOK, CursorsNext
    PROVE  AlbumsOK'
  <1> USE DEF albumVars
  <1>1. published \in Nat /\ AlbumIds \subseteq Ids
    BY CursorAssumption DEF CursorTypes
  <1>2. published' = published \/ published' = published + 1
    BY DEF CursorsNext, post_message, auto_monitor, live_enqueued,
           live_fails, _auto_flush_album, album_fetched, album_enqueued,
           album_fails, FlushOver, group_cache_expires,
           clear_processing_cache_if_idle, guard_list, guard_take,
           guard_enqueued, guard_done, guard_error, guard_access_error,
           guard_timeout, backfill_nothing_left, backfill_fetch,
           backfill_take, backfill_enqueued, backfill_saved, backfill_fails
  <1>3. groupCache' \in {groupCache, GroupOf, {}}
    BY DEF CursorsNext, post_message, auto_monitor, live_enqueued,
           live_fails, _auto_flush_album, album_fetched, album_enqueued,
           album_fails, FlushOver, group_cache_expires,
           clear_processing_cache_if_idle, guard_list, guard_take,
           guard_enqueued, guard_done, guard_error, guard_access_error,
           guard_timeout, backfill_nothing_left, backfill_fetch,
           backfill_take, backfill_enqueued, backfill_saved, backfill_fails,
           MarkUnit
  <1>4. albumBuffer' \subseteq AlbumIds \cap Posted
    <2>1. CASE auto_monitor
      BY <2>1 DEF auto_monitor, AlbumsOK, Unmarked, Newest
    <2>2. CASE ~auto_monitor
      BY <2>2 DEF CursorsNext, post_message, live_enqueued,
           live_fails, _auto_flush_album, album_fetched, album_enqueued,
           album_fails, FlushOver, group_cache_expires,
           clear_processing_cache_if_idle, guard_list, guard_take,
           guard_enqueued, guard_done, guard_error, guard_access_error,
           guard_timeout, backfill_nothing_left, backfill_fetch,
           backfill_take, backfill_enqueued, backfill_saved, backfill_fails,
           AlbumsOK
    <2> QED BY <2>1, <2>2
  <1>5. Posted \subseteq Posted'
    BY <1>1, <1>2 DEF Posted
  <1>6. albumBuffer' \subseteq AlbumIds \cap Posted'
    BY <1>4, <1>5
  <1>7. groupCache' \subseteq AlbumIds \cap Posted'
    BY <1>3, <1>5, GroupFacts DEF AlbumsOK
  <1>8. \A x \in AlbumIds, y \in groupCache' : x <= y => x \in groupCache'
    BY <1>3, GroupFacts DEF AlbumsOK
  <1>9. /\ held'["album"] \subseteq AlbumIds \cap Posted
        /\ flushing' \in {"none", "waiting"} => held'["album"] = {}
    <2> USE DEF CursorTypes, Scanners
    <2>1. CASE auto_monitor \/ live_enqueued \/ live_fails
      BY <2>1 DEF auto_monitor, live_enqueued, live_fails, AlbumsOK
    <2>2. CASE _auto_flush_album
      BY <2>2 DEF _auto_flush_album, AlbumsOK
    <2>3. CASE album_fetched
      BY <2>3 DEF album_fetched, AlbumsOK
    <2>4. CASE album_enqueued \/ album_fails
      BY <2>4 DEF album_enqueued, album_fails, Enqueue, CutOff, FlushOver
    <2>5. CASE \/ guard_take \/ guard_enqueued \/ guard_error
               \/ guard_access_error \/ guard_timeout \/ backfill_take
               \/ backfill_enqueued \/ backfill_fails
      BY <2>5 DEF guard_take, guard_enqueued, guard_error, guard_timeout,
           guard_access_error, backfill_take, backfill_enqueued,
           backfill_fails, MarkUnit, Enqueue, CutOff, AlbumsOK
    <2>6. CASE UNCHANGED <<held, flushing>>
      BY <2>6 DEF AlbumsOK
    <2> QED BY <2>1, <2>2, <2>3, <2>4, <2>5, <2>6
            DEF CursorsNext, post_message, group_cache_expires,
                clear_processing_cache_if_idle, guard_list, guard_done,
                backfill_nothing_left, backfill_fetch, backfill_saved
  <1> QED BY <1>5, <1>6, <1>7, <1>8, <1>9 DEF AlbumsOK

(* The steps of the others leave the guard scan alone. *)
GuardStands ==
    /\ UNCHANGED <<guardCursor, maxSeen, processedMax, unitMax, behindWindow>>
    /\ left'["guard"] = left["guard"]
    /\ "guard" \in scanning' <=> "guard" \in scanning

GuardSteps ==
    \/ guard_list \/ guard_take \/ guard_enqueued \/ guard_done
    \/ guard_error \/ guard_access_error \/ guard_timeout

BackfillStands ==
    /\ UNCHANGED <<historyNext, batchLatest>>
    /\ left'["backfill"] = left["backfill"]
    /\ "backfill" \in scanning' <=> "backfill" \in scanning

BackfillSteps ==
    \/ backfill_nothing_left \/ backfill_fetch \/ backfill_take
    \/ backfill_enqueued \/ backfill_saved \/ backfill_fails

LEMMA GuardStandsStill ==
    ASSUME CursorTypes, CursorsNext, ~GuardSteps
    PROVE  GuardStands
  <1> USE DEF cursorLocals, guardLocals, CursorTypes, Scanners
  <1>1. CASE \/ post_message \/ auto_monitor \/ live_enqueued
             \/ live_fails \/ _auto_flush_album \/ album_fetched
             \/ album_enqueued \/ group_cache_expires
             \/ clear_processing_cache_if_idle \/ backfill_nothing_left
             \/ backfill_enqueued
    BY <1>1 DEF post_message, auto_monitor, live_enqueued, live_fails,
                _auto_flush_album, album_fetched, album_enqueued,
                group_cache_expires, backfill_enqueued,
                clear_processing_cache_if_idle, backfill_nothing_left,
                GuardStands
  <1>2. CASE album_fails \/ backfill_fails
    BY <1>2 DEF album_fails, backfill_fails, CutOff, GuardStands
  <1>3. CASE backfill_fetch \/ backfill_saved
    BY <1>3 DEF backfill_fetch, backfill_saved, GuardStands
  <1>4. CASE backfill_take
    BY <1>4 DEF backfill_take, MarkUnit, GuardStands
  <1> QED BY <1>1, <1>2, <1>3, <1>4 DEF CursorsNext, GuardSteps

LEMMA BackfillStandsStill ==
    ASSUME CursorTypes, CursorsNext, ~BackfillSteps
    PROVE  BackfillStands
  <1> USE DEF cursorLocals, backfillVars, CursorTypes, Scanners
  <1>1. CASE \/ post_message \/ auto_monitor \/ live_enqueued
             \/ live_fails \/ _auto_flush_album \/ album_fetched
             \/ album_enqueued \/ group_cache_expires
             \/ clear_processing_cache_if_idle
             \/ guard_enqueued
    BY <1>1 DEF post_message, auto_monitor, live_enqueued, live_fails,
                _auto_flush_album, album_fetched, album_enqueued,
                group_cache_expires, guard_enqueued,
                clear_processing_cache_if_idle, BackfillStands
  <1>2. CASE \/ album_fails \/ guard_error \/ guard_access_error
             \/ guard_timeout
    BY <1>2 DEF album_fails, guard_error, guard_access_error, guard_timeout,
                CutOff, BackfillStands
  <1>3. CASE guard_list \/ guard_done
    BY <1>3 DEF guard_list, guard_done, BackfillStands
  <1>4. CASE guard_take
    BY <1>4 DEF guard_take, MarkUnit, BackfillStands
  <1> QED BY <1>1, <1>2, <1>3, <1>4 DEF CursorsNext, BackfillSteps

LEMMA ListsStep ==
    ASSUME CursorTypes, ListsOK, CursorsNext, CursorTypes'
    PROVE  ListsOK'
  <1> USE DEF cursorLocals, guardLocals
  <1>1. /\ MaxId \in Nat /\ published \in Nat /\ maxSeen \in Nat
        /\ guardCursor \in Nat /\ left \in [Scanners -> SUBSET Ids]
        /\ Posted \subseteq 0..MaxId
    BY CursorAssumption DEF CursorTypes, Posted
  <1>2. ASSUME NEW t \in Scanners, left'[t] # {} PROVE t \in scanning'
    <2> USE DEF Scanners
    <2>1. CASE guard_list
      BY <1>1, <1>2, <2>1 DEF guard_list, ListsOK
    <2>2. CASE backfill_fetch
      BY <1>1, <1>2, <2>2 DEF backfill_fetch, ListsOK
    <2>3. CASE \E s \in Scanners : \E lost : CutOff(s, lost)
      BY <1>1, <1>2, <2>3 DEF CutOff, ListsOK
    <2>4. CASE guard_take \/ backfill_take
      BY <1>1, <1>2, <2>4 DEF guard_take, backfill_take, MarkUnit, ListsOK
    <2>5. CASE guard_done
      BY <1>1, <1>2, <2>5 DEF guard_done, ListsOK
    <2>6. CASE backfill_saved
      BY <1>1, <1>2, <2>6 DEF backfill_saved, ListsOK
    <2>7. CASE left' = left /\ scanning' = scanning
      BY <1>2, <2>7 DEF ListsOK
    <2> QED
      BY <2>1, <2>2, <2>3, <2>4, <2>5, <2>6, <2>7
         DEF CursorsNext, post_message, auto_monitor, live_enqueued,
             live_fails, _auto_flush_album, album_fetched, album_enqueued,
             album_fails, group_cache_expires,
             clear_processing_cache_if_idle, guard_enqueued, guard_error,
             guard_access_error, guard_timeout, backfill_nothing_left,
             backfill_enqueued, backfill_fails
  <1>3. /\ \A m \in left'["guard"] :
              guardCursor' < m /\ m <= maxSeen' /\ m <= published'
        /\ maxSeen' <= published' \/ maxSeen' <= guardCursor'
    <2>1. CASE ~GuardSteps
      <3>1. published' = published \/ published' = published + 1
        BY <2>1 DEF CursorsNext, GuardSteps, post_message, auto_monitor,
             live_enqueued, live_fails, _auto_flush_album, album_fetched,
             album_enqueued, album_fails, group_cache_expires,
             clear_processing_cache_if_idle,
             backfill_nothing_left, backfill_fetch, backfill_take,
             backfill_enqueued, backfill_saved, backfill_fails
      <3>2. GuardStands
        BY <2>1, GuardStandsStill
      <3>3. left["guard"] \subseteq Nat
        BY <1>1 DEF Scanners, Ids
      <3> QED BY <1>1, <3>1, <3>2, <3>3 DEF GuardStands, ListsOK
    <2>2. CASE guard_list
      <3>1. /\ maxSeen' = MaxWith(Posted, guardCursor)
            /\ UNCHANGED <<guardCursor, published>>
            /\ \A m \in left'["guard"] : m \in Posted /\ m > guardCursor
        BY <1>1, <2>2 DEF guard_list, Scanners
      <3>2. /\ maxSeen' \in Posted \cup {guardCursor}
            /\ \A m \in Posted : m <= maxSeen'
        <4>1. Posted \cup {guardCursor} \subseteq 0..MaxId
          BY <1>1 DEF CursorTypes
        <4> QED BY <1>1, <3>1, <4>1, MaxIn DEF MaxWith
      <3>3. \A m \in Posted : m \in Nat /\ m <= published
        BY <1>1 DEF Posted
      <3>4. \A m \in left'["guard"] :
               guardCursor' < m /\ m <= maxSeen' /\ m <= published'
        BY <1>1, <3>1, <3>2, <3>3
      <3>5. maxSeen' <= published' \/ maxSeen' <= guardCursor'
        BY <1>1, <3>1, <3>2, <3>3
      <3> QED BY <3>4, <3>5
    <2>3. CASE guard_take
      <3>1. /\ left'["guard"] \subseteq left["guard"]
            /\ UNCHANGED <<guardCursor, maxSeen, published>>
        BY <1>1, <2>3 DEF guard_take, MarkUnit, Scanners
      <3> QED BY <3>1 DEF ListsOK
    <2>4. CASE guard_enqueued
      BY <2>4 DEF guard_enqueued, ListsOK
    <2>5. CASE \/ guard_done \/ guard_error \/ guard_access_error
               \/ guard_timeout
      <3>1. left'["guard"] = {} /\ maxSeen' = 0 /\ published' = published
        BY <1>1, <2>5
           DEF guard_done, guard_error, guard_access_error, guard_timeout,
               CutOff, GuardOver, Scanners
      <3> QED BY <1>1, <3>1
    <2> QED BY <2>1, <2>2, <2>3, <2>4, <2>5 DEF GuardSteps
  <1> QED BY <1>2, <1>3 DEF ListsOK

LEMMA GuardTakeStep ==
    ASSUME AlbumConsecutive, CursorsInv, guard_take,
           Covered \subseteq Covered'
    PROVE  GuardListed' /\ GuardProcessed'
  <1> DEFINE m == Min(left["guard"])
             opens == m \in AlbumIds /\ "guard" \notin metAlbum
             last == IF opens THEN Max(GroupOf) ELSE m
  <1>1. /\ MarkUnit("guard", m, 1..guardCursor) /\ held["guard"] = {}
        /\ \/ processedMax' = Max({last, processedMax}) /\ unitMax' = 0
           \/ unitMax' = last /\ processedMax' = processedMax
        /\ UNCHANGED <<published, admitted, albumBuffer, scanning,
                       guardCursor, maxSeen, behindWindow>>
    BY DEF guard_take, albumVars
  <1>2. CursorTypes /\ MarkedCovered /\ AlbumsOK /\ ListsOK /\ GuardListed
        /\ GuardProcessed
    BY TypeParts DEF CursorsInv, CursorsTyped
  <1>3. /\ m \in left["guard"] /\ \A y \in left["guard"] : m <= y
        /\ m \in Ids /\ m \in Nat /\ "guard" \in scanning
        /\ guardCursor < m /\ m <= maxSeen /\ m <= published
    <2>1. left["guard"] \subseteq Nat /\ left["guard"] \subseteq Ids
      BY <1>2 DEF CursorTypes, Scanners, Ids
    <2>2. left["guard"] # {}
      BY DEF guard_take
    <2> QED BY <1>2, <2>1, <2>2, MinIn DEF ListsOK, Scanners
  <1>4. /\ MaxId \in Nat /\ guardCursor \in Nat /\ maxSeen \in Nat
        /\ processedMax \in Nat /\ AlbumIds \subseteq Ids /\ Ids \subseteq Nat
    BY <1>2, CursorAssumption DEF CursorTypes, Ids
  <1> HIDE DEF m
  <1>5. left'["guard"] = left["guard"] \ {m}
    BY <1>1, <1>2 DEF MarkUnit, CursorTypes, Scanners
  <1>6. /\ m \in Covered'
        /\ opens => Unit(m, 1..guardCursor) \subseteq Covered'
    BY <1>1, <1>2, MarkUnitCovers DEF Scanners
  <1>7. GuardListed'
    BY <1>1, <1>2, <1>5, <1>6 DEF GuardListed
  <1>8. ASSUME NEW x \in Ids, guardCursor < x, x <= m
        PROVE  x \in behindWindow \cup Covered'
    <2>1. x <= maxSeen /\ (x # m => x \notin left["guard"])
      BY <1>3, <1>4, <1>8
    <2> QED BY <1>2, <1>3, <1>6, <1>8, <2>1 DEF GuardListed
  <1>9. last \in Nat
        /\ \A x \in Ids : guardCursor < x /\ x <= last
              => x \in behindWindow \cup Covered'
    <2>1. CASE ~opens
      BY <1>3, <1>8, <2>1
    <2>2. CASE opens
      <3>1. /\ last \in GroupOf /\ last \in AlbumIds /\ last \in Nat
            /\ \A x \in AlbumIds : x <= last => x \in GroupOf
        BY <1>2, <1>3, <1>4, <2>2, GroupFacts
      <3>2. ASSUME NEW x \in Ids, guardCursor < x, x <= last, ~(x <= m)
            PROVE  x \in Covered'
        <4>1. x \in m..last
          BY <1>3, <1>4, <3>1, <3>2
        <4>2. x \in AlbumIds
          BY <2>2, <3>1, <4>1 DEF AlbumConsecutive
        <4>3. x \in GroupOf /\ x \notin 1..guardCursor
          BY <1>4, <3>1, <3>2, <4>2
        <4> QED BY <1>6, <2>2, <4>3 DEF Unit
      <3> QED BY <1>8, <3>1, <3>2
    <2> QED BY <2>1, <2>2
  <1> HIDE DEF last
  <1>10. DoneTo(processedMax)
    BY <1>2, <1>3 DEF GuardProcessed
  <1>11. \A x \in Ids :
           guardCursor < x /\ (x <= processedMax' \/ x <= unitMax')
             => x \in behindWindow \cup Covered'
    <2>1. \A x \in Ids : guardCursor < x /\ x <= processedMax
             => x \in behindWindow \cup Covered'
      BY <1>10 DEF DoneTo
    <2>2. /\ processedMax' \in {last, processedMax}
          /\ unitMax' \in {last, 0}
      BY <1>1, <1>4, <1>9, MaxOf
    <2> QED BY <1>4, <1>9, <2>1, <2>2
  <1>12. GuardProcessed'
    BY <1>1, <1>11 DEF GuardProcessed, DoneTo
  <1> QED BY <1>7, <1>12

LEMMA GuardStep ==
    ASSUME AlbumConsecutive, CursorsInv, CursorsNext,
           Covered \subseteq Covered'
    PROVE  /\ GuardListed' /\ GuardProcessed'
           /\ \A m \in Ids : m <= guardCursor' => m \in Covered'
  <1>1. CursorTypes /\ MarkedCovered /\ ListsOK /\ GuardListed /\ GuardProcessed
    BY TypeParts DEF CursorsInv, CursorsTyped
  <1>2. /\ \A m \in Ids : m <= guardCursor => m \in Covered'
        /\ \A m \in Ids : m \in Nat
        /\ guardCursor \in Nat /\ maxSeen \in 0..MaxId
        /\ processedMax \in 0..MaxId /\ unitMax \in Nat /\ MaxId \in Nat
    BY <1>1, CoverIs, CursorAssumption
       DEF CursorsInv, CursorTypes, Ids
  <1>3. \A m \in marked \cup admitted : m \in Covered'
    BY <1>1, CoveredIs DEF MarkedCovered
  <1>4. CASE ~GuardSteps
    <2>1. GuardStands
      BY <1>1, <1>4, GuardStandsStill
    <2> QED BY <1>1, <1>2, <2>1
            DEF GuardStands, GuardListed, GuardProcessed, DoneTo
  <1>5. CASE guard_list
    <2>1. /\ guardCursor' = guardCursor /\ processedMax' = guardCursor
          /\ unitMax' = 0 /\ maxSeen' = MaxWith(Posted, guardCursor)
      BY <1>5 DEF guard_list
    <2>2. \A m \in Posted :
             m > guardCursor => m \in left'["guard"] \cup behindWindow'
      BY <1>1, <1>5 DEF guard_list, CursorTypes, Scanners
    <2>3. maxSeen' \in Posted \cup {guardCursor}
      <3>1. Posted \cup {guardCursor} \subseteq 0..MaxId
        BY <1>1, <1>2 DEF CursorTypes, Posted
      <3> QED BY <1>2, <2>1, <3>1, MaxIn DEF MaxWith
    <2>4. \A m \in Ids : m <= maxSeen' => m \in Posted \/ m <= guardCursor
      BY <1>1, <1>2, <2>3 DEF CursorTypes, Posted, Ids
    <2>5. GuardListed'
      BY <1>2, <2>1, <2>2, <2>4 DEF GuardListed
    <2>6. GuardProcessed'
      BY <1>2, <2>1 DEF GuardProcessed, DoneTo, Ids
    <2> QED BY <1>2, <2>1, <2>5, <2>6
  <1>6. CASE guard_take
    <2>1. guardCursor' = guardCursor
      BY <1>6 DEF guard_take
    <2> QED BY <1>2, <1>6, <2>1, GuardTakeStep
  <1>7. CASE guard_enqueued
    <2>1. /\ processedMax' = Max({unitMax, processedMax}) /\ unitMax' = 0
          /\ UNCHANGED <<left, scanning, guardCursor, maxSeen, behindWindow>>
      BY <1>7 DEF guard_enqueued
    <2>2. processedMax' \in {unitMax, processedMax}
      BY <1>2, <2>1, MaxOf
    <2>3. GuardListed'
      BY <1>1, <2>1 DEF GuardListed
    <2>4. GuardProcessed'
      BY <1>1, <1>2, <2>1, <2>2 DEF GuardProcessed, DoneTo, Ids
    <2> QED BY <1>2, <2>1, <2>3, <2>4
  <1>8. CASE guard_done \/ guard_access_error
    <2>1. /\ set_guard_cursor(maxSeen) /\ "guard" \in scanning
          /\ "guard" \notin scanning'
      BY <1>8 DEF guard_done, guard_access_error, CutOff
    <2>2. guardCursor' \in {guardCursor, maxSeen}
      BY <1>1, <1>2, <2>1, SetGuardTyped
    <2>3. Unmarked(behindWindow \cup left["guard"])
             \subseteq passedOver' \cup admitted'
      BY <1>8 DEF guard_done, guard_access_error, CutOff, PassOver, Unmarked
    <2>4. ASSUME NEW m \in Ids, m <= guardCursor' PROVE m \in Covered'
      <3>1. CASE m <= guardCursor
        BY <1>2, <3>1
      <3>2. CASE guardCursor < m /\ m <= maxSeen
        <4>1. m \in left["guard"] \cup behindWindow \cup Covered
          BY <1>1, <2>1, <3>2 DEF GuardListed
        <4> QED BY <1>3, <2>3, <4>1, CoveredIs DEF Unmarked
      <3> QED BY <1>2, <2>2, <2>4, <3>1, <3>2
    <2> QED BY <2>1, <2>4 DEF GuardListed, GuardProcessed
  <1>9. CASE guard_error
    <2>1. /\ set_guard_cursor(processedMax) /\ "guard" \in scanning
          /\ "guard" \notin scanning'
          /\ {m \in Unmarked(behindWindow) : m <= processedMax}
                \subseteq passedOver' \cup admitted'
      BY <1>9 DEF guard_error, CutOff, PassOver
    <2>2. guardCursor' \in {guardCursor, processedMax}
      BY <1>1, <1>2, <2>1, SetGuardTyped
    <2>3. ASSUME NEW m \in Ids, m <= guardCursor' PROVE m \in Covered'
      <3>1. CASE m <= guardCursor
        BY <1>2, <3>1
      <3>2. CASE guardCursor < m /\ m <= processedMax
        <4>1. m \in behindWindow \cup Covered
          BY <1>1, <2>1, <3>2 DEF GuardProcessed, DoneTo
        <4> QED BY <1>3, <2>1, <3>2, <4>1, CoveredIs DEF Unmarked
      <3> QED BY <1>2, <2>2, <2>3, <3>1, <3>2
    <2> QED BY <2>1, <2>3 DEF GuardListed, GuardProcessed
  <1>10. CASE guard_timeout
    <2>1. guardCursor' = guardCursor /\ "guard" \notin scanning'
      BY <1>10 DEF guard_timeout, CutOff
    <2> QED BY <1>2, <2>1 DEF GuardListed, GuardProcessed
  <1> QED
    BY <1>4, <1>5, <1>6, <1>7, <1>8, <1>9, <1>10 DEF GuardSteps

LEMMA BatchStep ==
    ASSUME CursorTypes, BatchOpen, CursorsNext
    PROVE  BatchOpen'
  <1>1. CASE ~BackfillSteps
    BY <1>1, BackfillStandsStill DEF BackfillStands, BatchOpen
  <1>2. CASE BackfillSteps
    BY <1>2 DEF BackfillSteps, backfill_nothing_left, backfill_fetch,
         backfill_take, backfill_enqueued, backfill_saved, backfill_fails,
         CutOff, cursorLocals, backfillVars, BatchOpen
  <1> QED BY <1>1, <1>2

LEMMA BackfillStep ==
    ASSUME CursorsInv, CursorsNext, Covered \subseteq Covered'
    PROVE  /\ BackfillListed'
           /\ \A m \in Ids : m < historyNext' => m \in Covered'
  <1> USE DEF backfillVars
  <1>1. CursorTypes /\ MarkedCovered /\ BatchOpen /\ BackfillListed
    BY TypeParts DEF CursorsInv, CursorsTyped
  <1>2. /\ \A m \in Ids : m < historyNext => m \in Covered'
        /\ historyNext \in Nat /\ historyNext >= 1 /\ Ids \subseteq Nat
        /\ published \in 0..MaxId /\ historyLatest \in 0..MaxId
        /\ batchLatest \in 0..MaxId /\ MaxId \in Nat
    BY <1>1, CoverIs, CursorAssumption
       DEF CursorsInv, CursorTypes, Ids
  <1>3. CASE ~BackfillSteps
    <2>1. BackfillStands
      BY <1>1, <1>3, BackfillStandsStill
    <2>2. BatchEnd(batchLatest)' = BatchEnd(batchLatest)
      BY <2>1 DEF BackfillStands, BatchEnd
    <2> QED BY <1>1, <1>2, <2>1, <2>2 DEF BackfillStands, BackfillListed
  <1>4. CASE backfill_nothing_left
    <2>1. /\ historyNext' = Max({historyNext, LatestId + 1})
          /\ LatestId = 0 \/ historyNext > LatestId
          /\ "backfill" \notin scanning'
      BY <1>4 DEF backfill_nothing_left, save_historical_cursor
    <2>2. LatestId \in Nat /\ LatestId + 1 \in Nat
      BY <1>2 DEF LatestId
    <2>3. historyNext' = historyNext
      BY <1>2, <2>1, <2>2, MaxOf
    <2> QED BY <1>2, <2>1, <2>3 DEF BackfillListed
  <1>5. CASE backfill_fetch
    <2>1. /\ historyNext' = historyNext /\ batchLatest' = LatestId
          /\ historyNext <= LatestId
      BY <1>5 DEF backfill_fetch
    <2>2. left'["backfill"] = historyNext..BatchEnd(LatestId)
      BY <1>1, <1>5 DEF backfill_fetch, CursorTypes, Scanners
    <2>3. BatchEnd(batchLatest)' = BatchEnd(LatestId)
      BY <2>1 DEF BatchEnd
    <2>4. BatchEnd(LatestId) \in Ids
      <3>1. LatestId \in 0..MaxId
        BY <1>2 DEF LatestId
      <3> QED BY <1>1, <2>1, <3>1, BatchEndIs
    <2>5. BackfillListed'
      BY <1>2, <2>1, <2>2, <2>3, <2>4 DEF BackfillListed
    <2> QED BY <1>2, <2>1, <2>5
  <1>6. CASE backfill_take
    <2> DEFINE m == Min(left["backfill"])
    <2>1. /\ MarkUnit("backfill", m, {}) /\ held["backfill"] = {}
          /\ UNCHANGED <<admitted, albumBuffer, historyNext, batchLatest,
                         scanning>>
      BY <1>6 DEF backfill_take, cursorLocals, albumVars
    <2> HIDE DEF m
    <2>2. left'["backfill"] = left["backfill"] \ {m}
      BY <1>1, <2>1 DEF MarkUnit, CursorTypes, Scanners
    <2>3. m \in Covered'
      BY <1>1, <2>1, MarkUnitCovers DEF Scanners
    <2>4. BatchEnd(batchLatest)' = BatchEnd(batchLatest)
      BY <2>1 DEF BatchEnd
    <2> QED BY <1>1, <1>2, <2>1, <2>2, <2>3, <2>4 DEF BackfillListed
  <1>7. CASE backfill_enqueued
    <2>1. UNCHANGED <<historyNext, batchLatest, scanning, left>>
      BY <1>7 DEF backfill_enqueued, cursorLocals
    <2>2. BatchEnd(batchLatest)' = BatchEnd(batchLatest)
      BY <2>1 DEF BatchEnd
    <2> QED BY <1>1, <1>2, <2>1, <2>2 DEF BackfillListed
  <1>8. CASE backfill_saved
    <2>1. /\ "backfill" \in scanning /\ "backfill" \notin scanning'
          /\ left["backfill"] = {}
          /\ historyNext' = BatchEnd(batchLatest) + 1
      BY <1>8 DEF backfill_saved, save_historical_cursor
    <2>2. BatchEnd(batchLatest) \in Ids
      BY <1>1, <1>2, <2>1, BatchEndIs DEF BatchOpen
    <2>3. ASSUME NEW m \in Ids, m < historyNext' PROVE m \in Covered'
      <3>1. m < historyNext \/ (historyNext <= m /\ m <= BatchEnd(batchLatest))
        <4>1. m \in Nat /\ BatchEnd(batchLatest) \in Nat
          BY <1>2, <2>2
        <4>2. m < BatchEnd(batchLatest) + 1
          BY <2>1, <2>3
        <4> QED BY <1>2, <4>1, <4>2
      <3> QED BY <1>1, <1>2, <2>1, <3>1 DEF BackfillListed
    <2> QED BY <2>1, <2>3 DEF BackfillListed
  <1>9. CASE backfill_fails
    <2>1. historyNext' = historyNext /\ "backfill" \notin scanning'
      BY <1>9 DEF backfill_fails, CutOff
    <2> QED BY <1>2, <2>1 DEF BackfillListed
  <1> QED
    BY <1>3, <1>4, <1>5, <1>6, <1>7, <1>8, <1>9 DEF BackfillSteps

-----------------------------------------------------------------------------
(* The cursors: the theorem *)

LEMMA CursorsTypedInit == CursorsInit => CursorsTyped
  <1> SUFFICES ASSUME CursorsInit PROVE CursorsTyped
    OBVIOUS
  <1>1. CursorsTypeOK
    BY CursorTypesInit, TypeParts
  <1>2. AlbumsOK /\ ListsOK /\ BatchOpen
    BY DEF CursorsInit, AlbumsOK, ListsOK, BatchOpen, Scanners
  <1> QED BY <1>1, <1>2 DEF CursorsTyped

LEMMA CursorsTypedStep ==
    CursorsTyped /\ [CursorsNext]_cursorVars => CursorsTyped'
  <1> SUFFICES ASSUME CursorsTyped, [CursorsNext]_cursorVars PROVE CursorsTyped'
    OBVIOUS
  <1>1. CursorTypes /\ AlbumsOK /\ ListsOK /\ BatchOpen
    BY TypeParts DEF CursorsTyped
  <1>2. CASE CursorsNext
    <2>1. CursorTypes'
      BY <1>1, <1>2, CursorTypesStep
    <2>2. AlbumsOK' /\ ListsOK' /\ BatchOpen'
      BY <1>1, <1>2, <2>1, AlbumsStep, ListsStep, BatchStep
    <2> QED BY <2>1, <2>2, TypeParts DEF CursorsTyped
  <1>3. CASE UNCHANGED cursorVars
    <2> USE <1>3 DEF cursorVars, cursorLocals, guardLocals, backfillVars,
                     albumVars
    <2>1. CursorTypes'
      BY <1>1 DEF CursorTypes
    <2>2. AlbumsOK' /\ ListsOK' /\ BatchOpen'
      BY <1>1 DEF AlbumsOK, ListsOK, BatchOpen, Posted
    <2> QED BY <2>1, <2>2, TypeParts DEF CursorsTyped
  <1> QED BY <1>2, <1>3

LEMMA CursorsInvInit == CursorsInit => CursorsInv
  <1> SUFFICES ASSUME CursorsInit PROVE CursorsInv
    OBVIOUS
  <1>1. CursorsTyped /\ MarkedCovered
    BY CursorsTypedInit DEF CursorsInit, MarkedCovered
  <1>2. GuardListed /\ GuardProcessed /\ BackfillListed
    BY DEF CursorsInit, GuardListed, GuardProcessed, BackfillListed
  <1>3. CursorsCover
    BY CursorAssumption DEF CursorsInit, CursorsCover, Ids
  <1> QED BY <1>1, <1>2, <1>3 DEF CursorsInv

LEMMA CursorsInvStep ==
    ASSUME AlbumConsecutive, CursorsInv, [CursorsNext]_cursorVars
    PROVE  CursorsInv'
  <1>1. /\ CursorTypes /\ AlbumsOK /\ MarkedCovered
        /\ CursorsTyped /\ CursorsTyped'
    BY TypeParts, CursorsTypedStep DEF CursorsInv, CursorsTyped
  <1>2. CASE CursorsNext
    <2>1. Covered \subseteq Covered' /\ MarkedCovered'
      BY <1>1, <1>2, CoveredGrows
    <2>2. /\ GuardListed' /\ GuardProcessed'
          /\ \A m \in Ids : m <= guardCursor' => m \in Covered'
      BY <1>2, <2>1, GuardStep
    <2>3. /\ BackfillListed'
          /\ \A m \in Ids : m < historyNext' => m \in Covered'
      BY <1>2, <2>1, BackfillStep
    <2>4. CursorsCover'
      BY <2>2, <2>3, CoverIs
    <2> QED BY <1>1, <2>1, <2>2, <2>3, <2>4 DEF CursorsInv
  <1>3. CASE UNCHANGED cursorVars
    <2> USE <1>3 DEF cursorVars, cursorLocals, guardLocals, backfillVars,
                     albumVars
    <2>1. Covered' = Covered
      BY DEF Covered
    <2>2. MarkedCovered' /\ GuardListed' /\ GuardProcessed' /\ BackfillListed'
      BY <1>1, <2>1 DEF CursorsInv, MarkedCovered, GuardListed,
                        GuardProcessed, BackfillListed, DoneTo, BatchEnd
    <2>3. CursorsCover'
      BY <2>1, CoverIs DEF CursorsInv
    <2> QED BY <1>1, <2>2, <2>3 DEF CursorsInv
  <1> QED BY <1>2, <1>3

(* The state of a channel's cursors is of its type, whatever the bounds. *)
THEOREM CursorsAreTyped == CursorsSpec => []CursorsTypeOK
  <1>1. CursorsInit => CursorsTyped
    BY CursorsTypedInit
  <1>2. CursorsTyped /\ [CursorsNext]_cursorVars => CursorsTyped'
    BY CursorsTypedStep
  <1>3. CursorsTyped => CursorsTypeOK
    BY DEF CursorsTyped
  <1> QED BY <1>1, <1>2, <1>3, PTL DEF CursorsSpec

(* No cursor of a channel, whatever its length, passes a media that nobody
   admitted, buffers or holds, unless by one of the named exits: the guard
   may stop at an error only where everything below is accounted for, and
   the backfill saves its place only after its whole batch.  The album is
   one of consecutive messages; of another the code may pass a member. *)
THEOREM CursorsPassNothing ==
    ASSUME AlbumConsecutive
    PROVE  CursorsSpec => []CursorsCover
  <1>1. CursorsInit => CursorsInv
    BY CursorsInvInit
  <1>2. CursorsInv /\ [CursorsNext]_cursorVars => CursorsInv'
    BY CursorsInvStep
  <1>3. CursorsInv => CursorsCover
    BY DEF CursorsInv
  <1> QED BY <1>1, <1>2, <1>3, PTL DEF CursorsSpec

-----------------------------------------------------------------------------
(* The files: the inductive invariant *)

(* The type of the files, variable by variable. *)
FileTypes ==
    /\ content \in [Paths -> Contents]
    /\ lastPath \in 0..MaxPaths /\ path \in 0..MaxPaths
    /\ fileStage \in {"queued", "item", "fetch", "bot", "userbot", "fetched",
                      "gathered", "upload", "closed"}
    /\ item \in FileItems
    /\ itemTry \in 0..ZERO_BYTE_ITEM_MAX_RETRIES
    /\ partial \in PathMaps /\ album \in PathMaps
    /\ fileRecord \in [open : BOOLEAN, partial : PathMaps, files : PathMaps]
    /\ fileRecordDisk
          \in [open : BOOLEAN, partial : PathMaps, files : PathMaps]
    /\ fileCheckpoint \in [temp : SUBSET Paths, partial : PathMaps]
    /\ attemptPaths \subseteq Paths /\ tracked \subseteq Paths
    /\ enginePaths \subseteq Paths /\ deferredPaths \subseteq Paths
    /\ engineDeferred \subseteq Paths /\ spared \subseteq Paths
    /\ doomed \subseteq Paths /\ swept \subseteq Paths
    /\ guardStep \in {"idle", "listing", "deleting"}

LEMMA FileTypeParts ==
    /\ FilesTypeOK <=> FileTypes
    /\ FilesTypeOK' <=> FileTypes'
  BY Zenon DEF FilesTypeOK, FileTypes

Fetching == fileStage \in {"bot", "userbot", "fetched"}

(* The path an attempt writes to, 0 between the attempts. *)
InHand == IF Fetching THEN path ELSE 0

(* Every map of items to files the program may go back to. *)
NamedMaps ==
    {partial, album, fileRecord.partial, fileRecord.files,
     fileRecordDisk.partial, fileRecordDisk.files, fileCheckpoint.partial}

(* A file that a map names was validated: it is complete, or was deleted, and
   no attempt writes to its path any more. *)
Sound(f, holds, last, writing) ==
    \A i \in FileItems : f[i] # 0 =>
        f[i] <= last /\ holds[f[i]] \in {"whole", "absent"} /\ f[i] # writing

NamedSound == \A f \in NamedMaps : Sound(f, content, lastPath, InHand)

(* What the path of an attempt may hold at each step. *)
AttemptIsOwn ==
    /\ Fetching => path \in 1..lastPath
    /\ fileStage \in {"bot", "userbot"} => content[path] \in {"absent", "short"}
    /\ fileStage = "fetched" => content[path] \in Outcomes(item)

UnusedAbsent ==
    \A p \in Paths :
        p > lastPath => content[p] = "absent" /\ p \notin deferredPaths

(* Outside of the upload the job's files are among its partial files. *)
FilesArePartial ==
    IF fileStage = "upload" THEN partial = NoFiles
    ELSE \A i \in FileItems : album[i] \in {0, partial[i]}

(* What is deferred counts as active while it exists. *)
DeferredIsActive ==
    /\ deferredPaths \cap OnDisk \subseteq tracked
    /\ engineDeferred \subseteq enginePaths
    /\ Fetching => path \notin deferredPaths
    /\ \A p \in attemptPaths : p <= lastPath

TriesLeft ==
    fileStage \in {"item", "fetch"} => itemTry < ZERO_BYTE_ITEM_MAX_RETRIES

FilesInv ==
    /\ FileTypes /\ AttemptIsOwn /\ TriesLeft
    /\ NamedSound /\ UnusedAbsent /\ FilesArePartial /\ DeferredIsActive
    /\ FilesKept

-----------------------------------------------------------------------------
(* The files: types *)

LEMMA NoFilesMap == NoFiles \in PathMaps
  BY FilesAssumption DEF NoFiles, PathMaps

LEMMA FilesInPaths ==
    ASSUME NEW f \in PathMaps
    PROVE  /\ FilesIn(f) \subseteq Paths
           /\ \A i \in FileItems : f[i] # 0 => f[i] \in FilesIn(f)
           /\ \A p \in FilesIn(f) : p # 0 /\ \E i \in FileItems : f[i] = p
  BY FilesAssumption DEF PathMaps, FilesIn, Range, Paths

LEMMA MapFacts ==
    ASSUME NEW f \in PathMaps, NEW i \in FileItems, NEW p \in 0..MaxPaths
    PROVE  /\ [f EXCEPT ![i] = p] \in PathMaps /\ f[i] \in 0..MaxPaths
           /\ f[i] # 0 => f[i] \in Paths
  <1>1. f \in [FileItems -> 0..MaxPaths] /\ f[i] \in 0..MaxPaths
    BY DEF PathMaps
  <1>2. [f EXCEPT ![i] = p] \in PathMaps
    BY <1>1 DEF PathMaps
  <1> QED BY <1>1, <1>2, FilesAssumption DEF Paths

LEMMA RecordMap ==
    ASSUME NEW f \in PathMaps, NEW g \in PathMaps, NEW open \in BOOLEAN
    PROVE  [open |-> open, partial |-> f, files |-> g]
              \in [open : BOOLEAN, partial : PathMaps, files : PathMaps]
  OBVIOUS

LEMMA ItemFacts ==
    /\ AlbumSize \in Nat \ {0} /\ MaxPaths \in Nat /\ 1 \in FileItems
    /\ ZERO_BYTE_ITEM_MAX_RETRIES \in Nat \ {0}
    /\ FileItems = 1..AlbumSize /\ Paths = 1..MaxPaths
  BY FilesAssumption DEF FileItems, Paths

LEMMA ToItemTyped ==
    ASSUME NEW i, ToItem(i)
    PROVE  /\ fileStage' \in {"item", "gathered"} /\ item' \in FileItems
           /\ itemTry' = 0 /\ path' = 0
  BY ItemFacts DEF ToItem

LEMMA BackTyped ==
    ASSUME NEW next, BackToQueue(next)
    PROVE  /\ fileStage' = next /\ item' \in FileItems
           /\ itemTry' = 0 /\ path' = 0
           /\ attemptPaths' = {} /\ deferredItems' = {}
  BY ItemFacts DEF BackToQueue

LEMMA JobPathsTyped ==
    ASSUME FileTypes
    PROVE  protected_download_file_paths \subseteq Paths
  <1>1. fileRecord.partial \in PathMaps /\ fileRecord.files \in PathMaps
        /\ partial \in PathMaps /\ album \in PathMaps /\ tracked \subseteq Paths
    BY DEF FileTypes
  <1> QED BY <1>1, FilesInPaths
          DEF protected_download_file_paths, JobPaths, RecordPaths

LEMMA TrackTyped ==
    ASSUME FileTypes, NEW S, S \subseteq Paths,
           track_download_file(S) \/ defer_download_cleanup(S)
    PROVE  /\ tracked' \subseteq Paths /\ enginePaths' \subseteq Paths
           /\ deferredPaths' \subseteq Paths /\ engineDeferred' \subseteq Paths
  BY DEF track_download_file, defer_download_cleanup, FileTypes

LEMMA FileTypesInit == FilesInit => FileTypes
  <1> SUFFICES ASSUME FilesInit PROVE FileTypes
    OBVIOUS
  <1>1. 0 \in 0..MaxPaths /\ 0 \in 0..ZERO_BYTE_ITEM_MAX_RETRIES
    BY ItemFacts
  <1>2. content \in [Paths -> Contents]
    BY DEF FilesInit, Contents
  <1> QED BY <1>1, <1>2, NoFilesMap, ItemFacts DEF FilesInit, FileTypes

LEMMA FileTypesStep ==
    ASSUME FileTypes, AttemptIsOwn, TriesLeft, FilesSteps
    PROVE  FileTypes'
  <1> USE DEF jobVars, trackVars, guardVars
  <1>1. /\ 0 \in 0..MaxPaths /\ 0 \in 0..ZERO_BYTE_ITEM_MAX_RETRIES
        /\ \A p \in Paths : p \in 0..MaxPaths
    BY ItemFacts
  <1>2. \A i \in FileItems, p \in 0..MaxPaths :
           /\ [partial EXCEPT ![i] = p] \in PathMaps
           /\ [album EXCEPT ![i] = p] \in PathMaps
           /\ partial[i] \in 0..MaxPaths
           /\ partial[i] # 0 => partial[i] \in Paths
    BY MapFacts DEF FileTypes
  <1>3. \A f, g \in PathMaps :
           /\ record_job_files(f, g) => fileRecord' \in
                  [open : BOOLEAN, partial : PathMaps, files : PathMaps]
           /\ CloseRecord => fileRecord' \in
                  [open : BOOLEAN, partial : PathMaps, files : PathMaps]
    <2> DEFINE Rec == [open : BOOLEAN, partial : PathMaps, files : PathMaps]
    <2>1. \A f, g \in PathMaps, b \in BOOLEAN :
             [open |-> b, partial |-> f, files |-> g] \in Rec
      BY RecordMap
    <2>2. [open |-> FALSE, partial |-> NoFiles, files |-> NoFiles] \in Rec
      BY <2>1, NoFilesMap
    <2>3. ASSUME NEW f \in PathMaps, NEW g \in PathMaps,
                 record_job_files(f, g)
          PROVE  fileRecord' \in Rec
      BY <2>1, <2>3 DEF record_job_files
    <2>4. ASSUME CloseRecord PROVE fileRecord' \in Rec
      BY <2>2, <2>4 DEF CloseRecord
    <2> HIDE DEF Rec
    <2> QED BY <2>3, <2>4 DEF Rec
  <1>4. Fetching => path \in Paths
    BY ItemFacts DEF AttemptIsOwn, FileTypes
  <1>5. CASE download_taken
    <2>1. ToItem(1)
      BY <1>5 DEF download_taken
    <2> QED BY <1>1, <1>5, <2>1, ToItemTyped, NoFilesMap
            DEF download_taken, FileTypes
  <1>6. CASE resume_partial
    <2>1. partial[item] \in Paths
      BY <1>2, <1>6 DEF resume_partial, Resumable, FileTypes
    <2>2. /\ attemptPaths' \subseteq Paths
          /\ UNCHANGED <<content, lastPath, partial, fileRecord,
                         fileRecordDisk, fileCheckpoint, guardVars, swept>>
      BY <1>6, <2>1 DEF resume_partial, FileTypes
    <2>3. CASE validate_file(item, partial[item])
      <3>1. /\ album' = [album EXCEPT ![item] = partial[item]]
            /\ track_download_file({partial[item]}) /\ ToItem(item + 1)
        BY <1>6, <2>3 DEF resume_partial
      <3>2. album' \in PathMaps
        BY <1>1, <1>2, <2>1, <3>1 DEF FileTypes
      <3> QED BY <1>1, <2>1, <2>2, <3>1, <3>2, ToItemTyped, TrackTyped
              DEF FileTypes
    <2>4. CASE ~validate_file(item, partial[item])
      <3>1. /\ defer_download_cleanup({partial[item]})
            /\ fileStage' = "fetch" /\ UNCHANGED <<album, item, itemTry, path>>
        BY <1>6, <2>4 DEF resume_partial
      <3> QED BY <2>1, <2>2, <3>1, TrackTyped DEF FileTypes
    <2> QED BY <2>3, <2>4
  <1>7. CASE fetch_begins
    <2>1. /\ lastPath' \in 0..MaxPaths /\ path' \in Paths
          /\ path' \in 0..MaxPaths
      BY <1>7, ItemFacts DEF fetch_begins, FileTypes
    <2>2. itemTry' \in 0..ZERO_BYTE_ITEM_MAX_RETRIES
      <3>1. itemTry < ZERO_BYTE_ITEM_MAX_RETRIES
        BY <1>7 DEF fetch_begins, TriesLeft
      <3> QED BY <1>7, <3>1, ItemFacts DEF fetch_begins, FileTypes
    <2>3. fileStage' \in {"bot", "userbot"} /\ attemptPaths' \subseteq Paths
      BY <1>7, <2>1 DEF fetch_begins, preferred_download_route, FileTypes
    <2>4. track_download_file({path'})
      BY <1>7 DEF fetch_begins
    <2>5. /\ tracked' \subseteq Paths /\ enginePaths' \subseteq Paths
          /\ deferredPaths' \subseteq Paths /\ engineDeferred' \subseteq Paths
      BY <2>1, <2>4 DEF track_download_file, FileTypes
    <2>6. UNCHANGED <<content, item, partial, album, fileRecord,
                     fileRecordDisk, fileCheckpoint, guardVars, swept>>
      BY <1>7 DEF fetch_begins
    <2> QED BY <2>1, <2>2, <2>3, <2>5, <2>6 DEF FileTypes
  <1>8. CASE write_starts
    BY <1>8 DEF write_starts, FileTypes, Contents
  <1>9. CASE bot_api_fails
    BY <1>9 DEF bot_api_fails, FileTypes, Contents
  <1>10. ASSUME NEW result \in Outcomes(item), hybrid_download_media(result)
         PROVE  FileTypes'
    <2>1. result \in Contents
      BY DEF Outcomes, Contents
    <2>2. content' \in [Paths -> Contents]
      BY <1>10, <2>1 DEF hybrid_download_media, FileTypes
    <2> QED BY <1>10, <2>2 DEF hybrid_download_media, FileTypes
  <1>11. CASE fetch_retried
    <2>1. defer_download_cleanup({path}) /\ path \in Paths
      BY <1>4, <1>11 DEF fetch_retried, Fetching
    <2> QED BY <1>1, <1>11, <2>1, TrackTyped DEF fetch_retried, FileTypes
  <1>12. CASE item_valid
    <2>1. /\ path \in Paths /\ path \in 0..MaxPaths
          /\ partial[item] # 0 => partial[item] \in Paths
      BY <1>2, <1>4, <1>12 DEF item_valid, FileTypes, Fetching
    <2>2. /\ partial' = [partial EXCEPT ![item] = path]
          /\ album' = [album EXCEPT ![item] = path]
          /\ record_job_files(partial', album') /\ ToItem(item + 1)
      BY <1>12 DEF item_valid, remember_partial_download
    <2>3. /\ tracked' \subseteq Paths /\ enginePaths' \subseteq Paths
          /\ deferredPaths' \subseteq Paths /\ engineDeferred' \subseteq Paths
      BY <1>12, <2>1 DEF item_valid, remember_partial_download, FileTypes
    <2>4. partial' \in PathMaps /\ album' \in PathMaps
      BY <1>2, <2>1, <2>2 DEF FileTypes
    <2>5. fileRecord' \in
             [open : BOOLEAN, partial : PathMaps, files : PathMaps]
      BY <2>2, <2>4, RecordMap DEF record_job_files
    <2> QED BY <1>1, <1>12, <2>2, <2>3, <2>4, <2>5, ToItemTyped
            DEF item_valid, FileTypes
  <1>13. CASE item_invalid
    <2>1. defer_download_cleanup({path}) /\ path \in Paths
      BY <1>4, <1>13 DEF item_invalid, Fetching
    <2>2. \/ /\ fileStage' = "fetch" /\ path' = 0
             /\ UNCHANGED <<item, itemTry>>
          \/ ToItem(item + 1)
      BY <1>13 DEF item_invalid
    <2>3. /\ fileStage' \in {"fetch", "item", "gathered"} /\ path' = 0
          /\ item' \in FileItems
          /\ itemTry' \in 0..ZERO_BYTE_ITEM_MAX_RETRIES
      BY <1>1, <2>2, ToItemTyped DEF FileTypes
    <2> QED BY <1>1, <1>13, <2>1, <2>3, TrackTyped
            DEF item_invalid, FileTypes
  <1>14. CASE retry_later
    <2>1. BackToQueue("queued") /\ record_job_files(partial, album)
      BY <1>14 DEF retry_later
    <2> QED BY <1>1, <1>3, <1>14, <2>1, BackTyped, NoFilesMap
            DEF retry_later, FileTypes
  <1>15. CASE items_complete
    <2>1. /\ BackToQueue("upload") /\ record_job_files(NoFiles, album)
          /\ partial' = NoFiles /\ UNCHANGED content
          /\ defer_download_cleanup(FilesIn(partial) \ FilesIn(album))
      BY <1>15 DEF items_complete, clear_partial_download_checkpoint
    <2>2. FilesIn(partial) \ FilesIn(album) \subseteq Paths
      BY FilesInPaths DEF FileTypes
    <2> QED BY <1>1, <1>3, <1>15, <2>1, <2>2, BackTyped, TrackTyped, NoFilesMap
            DEF items_complete, FileTypes
  <1>16. ASSUME NEW outcome \in {"again", "anew", "closed"},
                download_fails(outcome)
         PROVE  FileTypes'
    <2>1. /\ defer_download_cleanup(attemptPaths)
          /\ partial' \in {partial, NoFiles} /\ album' = NoFiles
          /\ CloseRecord \/ record_job_files(partial', fileRecord.files)
          /\ BackToQueue("closed") \/ BackToQueue("queued")
      BY <1>16 DEF download_fails
    <2>2. partial' \in PathMaps /\ fileRecord.files \in PathMaps
      BY <2>1, NoFilesMap DEF FileTypes
    <2>3. fileRecord' \in
             [open : BOOLEAN, partial : PathMaps, files : PathMaps]
      BY <1>3, <2>1, <2>2
    <2>4. /\ tracked' \subseteq Paths /\ enginePaths' \subseteq Paths
          /\ deferredPaths' \subseteq Paths /\ engineDeferred' \subseteq Paths
      BY <2>1, TrackTyped DEF FileTypes
    <2>5. /\ fileStage' \in {"queued", "closed"} /\ item' \in FileItems
          /\ itemTry' = 0 /\ path' = 0 /\ attemptPaths' = {}
      BY <2>1, BackTyped
    <2> QED BY <1>1, <1>16, <2>1, <2>2, <2>3, <2>4, <2>5, NoFilesMap
            DEF download_fails, FileTypes
  <1>17. CASE upload_ends \/ upload_reset
    <2>1. /\ CloseRecord \/ record_job_files(NoFiles, NoFiles)
          /\ DeleteFiles(FilesIn(album)) /\ album' = NoFiles
          /\ BackToQueue("closed") \/ BackToQueue("queued")
          /\ UNCHANGED <<lastPath, partial, fileRecordDisk, fileCheckpoint,
                         guardVars, swept>>
      BY <1>17 DEF upload_ends, upload_reset
    <2>2. /\ content' \in [Paths -> Contents] /\ tracked' \subseteq Paths
          /\ enginePaths' \subseteq Paths /\ engineDeferred' \subseteq Paths
          /\ deferredPaths' = deferredPaths
      BY <2>1 DEF DeleteFiles, FileTypes, Contents
    <2>3. fileRecord' \in
             [open : BOOLEAN, partial : PathMaps, files : PathMaps]
      BY <2>1, <1>3, NoFilesMap
    <2> QED BY <1>1, <2>1, <2>2, <2>3, BackTyped, NoFilesMap DEF FileTypes
  <1>18. CASE guard_protects \/ guard_lists \/ guard_ends
    BY <1>18, JobPathsTyped
       DEF guard_protects, guard_lists, guard_ends, FileTypes, OnDisk
  <1>19. ASSUME NEW p \in Paths, \/ guard_unlinks(p) \/ reap_deferred(p)
                                 \/ reap_deferred_download_cleanup(p)
         PROVE  FileTypes'
    <2>1. content' = [content EXCEPT ![p] = "absent"]
      BY <1>19 DEF guard_unlinks, reap_deferred, reap_deferred_download_cleanup
    <2>2. content' \in [Paths -> Contents]
      BY <2>1 DEF FileTypes, Contents
    <2> QED BY <1>19, <2>2
            DEF guard_unlinks, reap_deferred, reap_deferred_download_cleanup,
                FileTypes
  <1>20. CASE prune_runtime_caches
    BY <1>20 DEF prune_runtime_caches, FileTypes
  <1>21. CASE file_record_saved \/ file_checkpoint_saved
    <2>1. tracked \cap OnDisk \in SUBSET Paths
      BY DEF FileTypes
    <2> QED BY <1>21, <2>1
            DEF file_record_saved, file_checkpoint_saved, FileTypes
  <1>22. ASSUME NEW purge, NEW fromCheckpoint,
                files_boot(purge, fromCheckpoint)
         PROVE  FileTypes'
    <2>1. content' \in [Paths -> Contents]
      BY <1>22 DEF files_boot, run_v21_startup_cleanup, FileTypes, Contents
    <2>2. \A f \in PathMaps : Hydrated(f) \in PathMaps
      BY <1>1 DEF Hydrated, PathMaps
    <2>3. /\ fileRecordDisk.partial \in PathMaps
          /\ fileRecordDisk.files \in PathMaps
          /\ fileCheckpoint.partial \in PathMaps
      BY DEF FileTypes
    <2>4. /\ album' \in {Hydrated(fileRecordDisk.files), NoFiles}
          /\ partial' \in {NoFiles, Hydrated(fileCheckpoint.partial),
                           Hydrated(fileRecordDisk.partial)}
          /\ \E next \in {"closed", "upload", "queued"} : BackToQueue(next)
      BY <1>22 DEF files_boot
    <2>5. album' \in PathMaps /\ partial' \in PathMaps
      BY <2>2, <2>3, <2>4, NoFilesMap
    <2>6. fileRecord' \in
             [open : BOOLEAN, partial : PathMaps, files : PathMaps]
      <3>1. fileRecord' \in {fileRecordDisk,
               [open |-> TRUE, partial |-> partial', files |-> album']}
        BY <1>22 DEF files_boot
      <3>2. [open |-> TRUE, partial |-> partial', files |-> album']
               \in [open : BOOLEAN, partial : PathMaps, files : PathMaps]
        BY <2>5, RecordMap
      <3> QED BY <3>1, <3>2 DEF FileTypes
    <2>7. /\ fileStage' \in {"closed", "upload", "queued"}
          /\ item' \in FileItems /\ itemTry' = 0 /\ path' = 0
          /\ attemptPaths' = {}
      BY <2>4, BackTyped
    <2>8. /\ tracked' = {} /\ enginePaths' = {} /\ deferredPaths' = {}
          /\ engineDeferred' = {} /\ spared' = {} /\ doomed' = {}
          /\ swept' = {} /\ guardStep' = "idle"
          /\ UNCHANGED <<lastPath, fileRecordDisk, fileCheckpoint>>
      BY <1>22 DEF files_boot
    <2> QED BY <1>1, <2>1, <2>5, <2>6, <2>7, <2>8 DEF FileTypes
  <1> QED
    BY <1>5, <1>6, <1>7, <1>8, <1>9, <1>10, <1>11, <1>12, <1>13, <1>14,
       <1>15, <1>16, <1>17, <1>18, <1>19, <1>20, <1>21, <1>22
    DEF FilesSteps

-----------------------------------------------------------------------------
(* The files: what a step may do to a file *)

(* A step deletes files; it writes to none but the path in hand. *)
OnlyInHandWritten ==
    /\ lastPath' \in {lastPath, lastPath + 1}
    /\ \A p \in Paths : content'[p] \in {content[p], "absent"} \/ p = InHand
    /\ InHand' \in {InHand, 0} \/ (InHand' \in Paths /\ InHand' > lastPath)

LEMMA FilesFrame ==
    ASSUME FileTypes, AttemptIsOwn, FilesSteps
    PROVE  OnlyInHandWritten
  <1> USE DEF jobVars, OnlyInHandWritten
  <1>1. CASE UNCHANGED <<content, lastPath, fileStage, path>>
    BY <1>1 DEF InHand, Fetching
  <1>2. CASE content' = content /\ lastPath' = lastPath /\ ~Fetching'
    BY <1>2 DEF InHand
  <1>3. CASE \/ download_taken \/ retry_later
    BY <1>2, <1>3, BackTyped, ToItemTyped
       DEF download_taken, retry_later, Fetching
  <1>4. CASE resume_partial
    <2>1. fileStage' \in {"fetch", "item", "gathered"}
      BY <1>4, ToItemTyped DEF resume_partial
    <2> QED BY <1>2, <1>4, <2>1 DEF resume_partial, Fetching
  <1>5. CASE fetch_begins
    <2>1. path' = lastPath + 1 /\ lastPath' = lastPath + 1 /\ content' = content
          /\ Fetching' /\ lastPath < MaxPaths
      BY <1>5 DEF fetch_begins, preferred_download_route, Fetching
    <2>2. lastPath + 1 \in Paths
      BY <2>1, ItemFacts DEF FileTypes
    <2> QED BY <2>1, <2>2, ItemFacts DEF InHand, FileTypes
  <1>6. CASE write_starts \/ bot_api_fails
    <2>1. /\ InHand = path /\ InHand' = path /\ lastPath' = lastPath
          /\ \/ content' = [content EXCEPT ![path] = "short"]
             \/ content' = [content EXCEPT ![path] = "absent"]
             \/ content' = content
      BY <1>6 DEF write_starts, bot_api_fails, InHand, Fetching
    <2> QED BY <2>1 DEF FileTypes
  <1>7. ASSUME NEW result \in Outcomes(item), hybrid_download_media(result)
        PROVE  OnlyInHandWritten
    <2>1. /\ InHand = path /\ InHand' = path /\ lastPath' = lastPath
          /\ \/ content' = [content EXCEPT ![path] = result]
             \/ content' = content
      BY <1>7 DEF hybrid_download_media, InHand, Fetching
    <2> QED BY <2>1 DEF FileTypes
  <1>8. CASE fetch_retried
    BY <1>2, <1>8 DEF fetch_retried, Fetching
  <1>9. CASE item_valid
    BY <1>2, <1>9, ToItemTyped DEF item_valid, Fetching
  <1>10. CASE item_invalid
    <2>1. fileStage' \in {"fetch", "item", "gathered"}
      BY <1>10, ToItemTyped DEF item_invalid
    <2> QED BY <1>2, <1>10, <2>1 DEF item_invalid, Fetching
  <1>11. CASE items_complete
    BY <1>2, <1>11, BackTyped
       DEF items_complete, clear_partial_download_checkpoint, Fetching
  <1>12. ASSUME NEW outcome \in {"again", "anew", "closed"},
                download_fails(outcome)
         PROVE  OnlyInHandWritten
    <2>1. BackToQueue("closed") \/ BackToQueue("queued")
      BY <1>12 DEF download_fails
    <2> QED BY <1>2, <1>12, <2>1, BackTyped DEF download_fails, Fetching
  <1>13. CASE upload_ends \/ upload_reset
    <2>1. /\ DeleteFiles(FilesIn(album)) /\ lastPath' = lastPath
          /\ BackToQueue("closed") \/ BackToQueue("queued")
      BY <1>13 DEF upload_ends, upload_reset
    <2>2. ~Fetching'
      BY <2>1, BackTyped DEF Fetching
    <2> QED BY <2>1, <2>2 DEF DeleteFiles, InHand
  <1>14. ASSUME NEW q \in Paths, \/ guard_unlinks(q) \/ reap_deferred(q)
                                 \/ reap_deferred_download_cleanup(q)
         PROVE  OnlyInHandWritten
    <2>1. /\ content' = [content EXCEPT ![q] = "absent"]
          /\ UNCHANGED <<lastPath, fileStage, path>>
      BY <1>14 DEF guard_unlinks, reap_deferred, reap_deferred_download_cleanup
    <2> QED BY <2>1 DEF FileTypes, InHand, Fetching
  <1>15. CASE \/ guard_protects \/ guard_lists \/ guard_ends
              \/ prune_runtime_caches \/ file_record_saved
              \/ file_checkpoint_saved
    BY <1>1, <1>15 DEF guard_protects, guard_lists, guard_ends,
         prune_runtime_caches, file_record_saved, file_checkpoint_saved
  <1>16. ASSUME NEW purge, NEW fromCheckpoint,
                files_boot(purge, fromCheckpoint)
         PROVE  OnlyInHandWritten
    <2>1. /\ \E next \in {"closed", "upload", "queued"} : BackToQueue(next)
          /\ run_v21_startup_cleanup(purge) /\ lastPath' = lastPath
      BY <1>16 DEF files_boot
    <2>2. ~Fetching'
      BY <2>1, BackTyped DEF Fetching
    <2> QED BY <2>1, <2>2 DEF run_v21_startup_cleanup, InHand
  <1> QED
    BY <1>3, <1>4, <1>5, <1>6, <1>7, <1>8, <1>9, <1>10, <1>11, <1>12, <1>13,
       <1>14, <1>15, <1>16
    DEF FilesSteps

LEMMA NamedStays ==
    ASSUME FileTypes, FileTypes', NamedSound, OnlyInHandWritten,
           NEW f \in NamedMaps \cup {NoFiles}
    PROVE  Sound(f, content', lastPath', InHand')
  <1>1. /\ f \in PathMaps /\ lastPath \in Nat /\ lastPath' \in Nat
        /\ lastPath <= lastPath'
        /\ InHand' \in {InHand, 0} \/ (InHand' \in Nat /\ InHand' > lastPath)
        /\ \A p \in Paths : content'[p] \in {content[p], "absent"} \/ p = InHand
    BY NoFilesMap, ItemFacts DEF NamedMaps, FileTypes, OnlyInHandWritten
  <1>2. Sound(f, content, lastPath, InHand)
    BY NoFilesMap DEF NamedSound, Sound, NoFiles
  <1>3. ASSUME NEW i \in FileItems, f[i] # 0
        PROVE  /\ f[i] <= lastPath'
               /\ content'[f[i]] \in {"whole", "absent"} /\ f[i] # InHand'
    <2>1. f[i] \in Paths
      <3>1. 0 \in 0..MaxPaths
        BY ItemFacts
      <3> QED BY <1>1, <1>3, <3>1, MapFacts
    <2>2. f[i] \in Nat
      BY <2>1, ItemFacts
    <2>3. /\ f[i] <= lastPath /\ content[f[i]] \in {"whole", "absent"}
          /\ f[i] # InHand
      BY <1>2, <1>3 DEF Sound
    <2>4. content'[f[i]] \in {content[f[i]], "absent"}
      BY <1>1, <2>1, <2>3
    <2> QED BY <1>1, <1>3, <2>2, <2>3, <2>4
  <1> QED BY <1>3 DEF Sound

(* Only validated files are named anew: those of an item that was fetched,
   and those a restart finds. *)
LEMMA NamedStep ==
    ASSUME FileTypes, FileTypes', AttemptIsOwn, NamedSound, FilesSteps
    PROVE  NamedSound'
  <1> USE DEF jobVars
  <1>1. OnlyInHandWritten /\ MaxPaths \in Nat
    BY FilesFrame, ItemFacts
  <1>2. ASSUME NamedMaps' \subseteq NamedMaps \cup {NoFiles}
        PROVE  NamedSound'
    BY <1>1, <1>2, NamedStays DEF NamedSound
  <1>3. CASE UNCHANGED <<partial, fileRecord, fileRecordDisk, fileCheckpoint>>
             /\ album' \in {album, NoFiles}
    BY <1>2, <1>3 DEF NamedMaps
  <1>4. CASE \/ download_taken \/ fetch_begins \/ write_starts
             \/ bot_api_fails
             \/ \E result \in Outcomes(item) : hybrid_download_media(result)
             \/ fetch_retried \/ item_invalid \/ prune_runtime_caches
             \/ guard_protects \/ guard_lists \/ guard_ends
             \/ \E p \in Paths : guard_unlinks(p)
             \/ \E p \in Paths : reap_deferred(p)
             \/ \E p \in Paths : reap_deferred_download_cleanup(p)
    BY <1>3, <1>4
       DEF download_taken, fetch_begins, write_starts, bot_api_fails,
           hybrid_download_media, fetch_retried, item_invalid,
           prune_runtime_caches, guard_protects, guard_lists, guard_ends,
           guard_unlinks, reap_deferred, reap_deferred_download_cleanup
  <1>5. CASE resume_partial
    <2>1. \/ album' = [album EXCEPT ![item] = partial[item]]
          \/ album' = album
      BY <1>5 DEF resume_partial
    <2>2. UNCHANGED <<partial, fileRecord, fileRecordDisk, fileCheckpoint>>
      BY <1>5 DEF resume_partial
    <2>3. Sound(album, content', lastPath', InHand')
          /\ Sound(partial, content', lastPath', InHand')
      BY <1>1, NamedStays DEF NamedMaps
    <2>4. Sound(album', content', lastPath', InHand')
      BY <2>1, <2>3 DEF Sound, FileTypes, PathMaps
    <2>5. \A f \in NamedMaps' : f \in NamedMaps \/ f = album'
      BY <2>2 DEF NamedMaps
    <2> QED BY <1>1, <2>4, <2>5, NamedStays DEF NamedSound
  <1>6. CASE item_valid
    <2>1. /\ partial' = [partial EXCEPT ![item] = path]
          /\ album' = [album EXCEPT ![item] = path]
          /\ fileRecord' = [open |-> TRUE, partial |-> partial',
                            files |-> album']
          /\ content' = content /\ lastPath' = lastPath
          /\ UNCHANGED <<fileRecordDisk, fileCheckpoint>>
          /\ ToItem(item + 1) /\ fileStage = "fetched"
          /\ validate_file(item, path)
      BY <1>6 DEF item_valid, remember_partial_download, record_job_files
    <2>2. InHand' = 0
      BY <2>1, ToItemTyped DEF InHand, Fetching
    <2>3. path <= lastPath' /\ path \in Nat /\ content'[path] = "whole"
          /\ path # InHand'
      <3>1. path \in 1..lastPath /\ content[path] \in Outcomes(item)
        BY <2>1 DEF AttemptIsOwn, Fetching
      <3>2. content[path] = "whole"
        BY <2>1, <3>1
           DEF validate_file, media_path_is_complete_enough, Outcomes
      <3> QED BY <2>1, <2>2, <3>1, <3>2 DEF FileTypes
    <2>4. Sound(album, content', lastPath', InHand')
          /\ Sound(partial, content', lastPath', InHand')
      BY <1>1, NamedStays DEF NamedMaps
    <2>5. Sound(album', content', lastPath', InHand')
          /\ Sound(partial', content', lastPath', InHand')
      BY <2>1, <2>3, <2>4 DEF Sound, FileTypes, PathMaps
    <2>6. \A f \in NamedMaps' : f \in NamedMaps \/ f = album' \/ f = partial'
      BY <2>1 DEF NamedMaps
    <2> QED BY <1>1, <2>5, <2>6, NamedStays DEF NamedSound
  <1>7. CASE retry_later
    BY <1>2, <1>7 DEF retry_later, record_job_files, NamedMaps
  <1>8. CASE items_complete
    BY <1>2, <1>8
       DEF items_complete, clear_partial_download_checkpoint,
           record_job_files, NamedMaps
  <1>9. CASE \E outcome \in {"again", "anew", "closed"} :
               download_fails(outcome)
    <2>1. /\ partial' \in {partial, NoFiles} /\ album' = NoFiles
          /\ fileRecord'.partial \in {partial', NoFiles}
          /\ fileRecord'.files \in {fileRecord.files, NoFiles}
          /\ UNCHANGED <<fileRecordDisk, fileCheckpoint>>
      BY <1>9 DEF download_fails, CloseRecord, record_job_files
    <2> QED BY <1>2, <2>1 DEF NamedMaps
  <1>10. CASE upload_ends \/ upload_reset
    BY <1>2, <1>10 DEF upload_ends, upload_reset, CloseRecord,
         record_job_files, NamedMaps
  <1>11. CASE file_record_saved \/ file_checkpoint_saved
    BY <1>2, <1>11 DEF file_record_saved, file_checkpoint_saved, NamedMaps
  <1>12. CASE \E purge, fromCheckpoint \in BOOLEAN :
                files_boot(purge, fromCheckpoint)
    <2>1. /\ album' \in {Hydrated(fileRecordDisk.files), NoFiles}
          /\ partial' \in {NoFiles, Hydrated(fileCheckpoint.partial),
                           Hydrated(fileRecordDisk.partial)}
          /\ fileRecord' \in {fileRecordDisk,
               [open |-> TRUE, partial |-> partial', files |-> album']}
          /\ UNCHANGED <<fileRecordDisk, fileCheckpoint>>
      BY <1>12 DEF files_boot
    <2>2. ASSUME NEW f \in {fileRecordDisk.files, fileRecordDisk.partial,
                            fileCheckpoint.partial}
          PROVE  Sound(Hydrated(f), content', lastPath', InHand')
      <3>1. Sound(f, content', lastPath', InHand')
        BY <1>1, NamedStays DEF NamedMaps
      <3>2. \A i \in FileItems : Hydrated(f)[i] \in {0, f[i]}
        BY DEF Hydrated
      <3> QED BY <3>1, <3>2 DEF Sound
    <2>3. Sound(NoFiles, content', lastPath', InHand')
      BY <1>1, NamedStays
    <2>4. Sound(album', content', lastPath', InHand')
          /\ Sound(partial', content', lastPath', InHand')
      BY <2>1, <2>2, <2>3
    <2>5. \A f \in NamedMaps' : f \in NamedMaps \/ f = album' \/ f = partial'
      BY <2>1 DEF NamedMaps
    <2> QED BY <1>1, <2>4, <2>5, NamedStays DEF NamedSound
  <1> QED
    BY <1>4, <1>5, <1>6, <1>7, <1>8, <1>9, <1>10, <1>11, <1>12
       DEF FilesSteps

-----------------------------------------------------------------------------
(* The files: each part of the invariant *)

LEMMA AttemptStep ==
    ASSUME FileTypes, AttemptIsOwn, TriesLeft, UnusedAbsent, FilesSteps
    PROVE  AttemptIsOwn' /\ TriesLeft'
  <1> USE DEF jobVars
  <1>1. /\ 0 < ZERO_BYTE_ITEM_MAX_RETRIES /\ MaxPaths \in Nat
        /\ Paths = 1..MaxPaths
    BY ItemFacts
  <1>2. ASSUME UNCHANGED <<fileStage, path, lastPath, item, itemTry>>,
               \A p \in Paths : content'[p] \in {content[p], "absent"}
        PROVE  AttemptIsOwn' /\ TriesLeft'
    <2>1. Fetching => path \in Paths
      BY <1>1 DEF AttemptIsOwn, FileTypes
    <2> QED BY <1>2, <2>1
            DEF AttemptIsOwn, TriesLeft, Fetching, Outcomes
  <1>3. ASSUME ~Fetching', fileStage' \in {"item", "fetch"} => itemTry' = 0
                              \/ itemTry' < ZERO_BYTE_ITEM_MAX_RETRIES
        PROVE  AttemptIsOwn' /\ TriesLeft'
    BY <1>1, <1>3 DEF AttemptIsOwn, TriesLeft, Fetching
  <1>4. ASSUME NEW i, ToItem(i)
        PROVE  AttemptIsOwn' /\ TriesLeft'
    BY <1>3, <1>4, ToItemTyped DEF Fetching
  <1>5. ASSUME NEW next \in {"queued", "upload", "closed"}, BackToQueue(next)
        PROVE  AttemptIsOwn' /\ TriesLeft'
    BY <1>3, <1>5, BackTyped DEF Fetching
  <1>6. CASE download_taken \/ item_valid
    BY <1>4, <1>6 DEF download_taken, item_valid
  <1>7. CASE resume_partial
    <2>1. \/ ToItem(item + 1)
          \/ /\ fileStage' = "fetch" /\ itemTry' = itemTry
             /\ fileStage = "item"
      BY <1>7 DEF resume_partial
    <2> QED BY <1>3, <1>4, <2>1 DEF Fetching, TriesLeft
  <1>8. CASE fetch_begins
    <2>1. /\ path' = lastPath + 1 /\ lastPath' = lastPath + 1
          /\ content' = content /\ lastPath < MaxPaths
          /\ fileStage' \in {"bot", "userbot"}
      BY <1>8 DEF fetch_begins, preferred_download_route
    <2>2. /\ path' \in 1..lastPath' /\ path' \in Paths /\ path' > lastPath
      BY <1>1, <2>1 DEF FileTypes
    <2>3. content'[path'] = "absent"
      BY <2>1, <2>2 DEF UnusedAbsent
    <2> QED BY <2>1, <2>2, <2>3 DEF AttemptIsOwn, TriesLeft
  <1>9. CASE write_starts \/ bot_api_fails
    <2>1. /\ fileStage \in {"bot", "userbot"}
          /\ fileStage' \in {"bot", "userbot"}
          /\ UNCHANGED <<path, lastPath>>
          /\ \/ content' = [content EXCEPT ![path] = "short"]
             \/ content' = [content EXCEPT ![path] = "absent"]
             \/ content' = content
      BY <1>9 DEF write_starts, bot_api_fails
    <2>2. path \in 1..lastPath /\ path \in Paths
      BY <1>1, <2>1 DEF AttemptIsOwn, Fetching, FileTypes
    <2>3. content'[path] \in {"absent", "short"}
      BY <2>1, <2>2 DEF AttemptIsOwn, FileTypes
    <2> QED BY <2>1, <2>2, <2>3 DEF AttemptIsOwn, TriesLeft
  <1>10. ASSUME NEW result \in Outcomes(item), hybrid_download_media(result)
         PROVE  AttemptIsOwn' /\ TriesLeft'
    <2>1. /\ fileStage \in {"bot", "userbot"} /\ fileStage' = "fetched"
          /\ UNCHANGED <<path, lastPath, item>>
          /\ \/ content' = [content EXCEPT ![path] = result]
             \/ content' = content /\ content[path] # "short"
      BY <1>10 DEF hybrid_download_media
    <2>2. path \in 1..lastPath /\ path \in Paths
      BY <1>1, <2>1 DEF AttemptIsOwn, Fetching, FileTypes
    <2>3. content'[path] \in Outcomes(item)
      <3>1. "absent" \in Outcomes(item)
        BY DEF Outcomes
      <3> QED BY <2>1, <2>2, <3>1 DEF AttemptIsOwn, FileTypes
    <2>4. content'[path'] \in Outcomes(item')
      BY <2>1, <2>3
    <2> QED BY <2>1, <2>2, <2>4 DEF AttemptIsOwn, TriesLeft
  <1>11. CASE fetch_retried \/ item_invalid
    <2>1. \/ ToItem(item + 1)
          \/ /\ fileStage' = "fetch"
             /\ itemTry' = itemTry /\ itemTry < ZERO_BYTE_ITEM_MAX_RETRIES
      BY <1>11 DEF fetch_retried, item_invalid
    <2> QED BY <1>3, <1>4, <2>1 DEF Fetching
  <1>12. CASE retry_later \/ items_complete \/ upload_ends \/ upload_reset
    BY <1>5, <1>12 DEF retry_later, items_complete, upload_ends, upload_reset
  <1>13. ASSUME NEW outcome \in {"again", "anew", "closed"},
                download_fails(outcome)
         PROVE  AttemptIsOwn' /\ TriesLeft'
    <2>1. BackToQueue("closed") \/ BackToQueue("queued")
      BY <1>13 DEF download_fails
    <2> QED BY <1>5, <2>1
  <1>14. ASSUME NEW q \in Paths, \/ guard_unlinks(q) \/ reap_deferred(q)
                                 \/ reap_deferred_download_cleanup(q)
         PROVE  AttemptIsOwn' /\ TriesLeft'
    <2>1. /\ content' = [content EXCEPT ![q] = "absent"]
          /\ UNCHANGED <<fileStage, path, lastPath, item, itemTry>>
      BY <1>14 DEF guard_unlinks, reap_deferred, reap_deferred_download_cleanup
    <2>2. \A p \in Paths : content'[p] \in {content[p], "absent"}
      BY <2>1 DEF FileTypes
    <2> QED BY <1>2, <2>1, <2>2
  <1>15. CASE \/ guard_protects \/ guard_lists \/ guard_ends
              \/ prune_runtime_caches \/ file_record_saved
              \/ file_checkpoint_saved
    <2>1. UNCHANGED <<content, fileStage, path, lastPath, item, itemTry>>
      BY <1>15 DEF guard_protects, guard_lists, guard_ends,
           prune_runtime_caches, file_record_saved, file_checkpoint_saved
    <2> QED BY <1>2, <2>1
  <1>16. ASSUME NEW purge, NEW fromCheckpoint,
                files_boot(purge, fromCheckpoint)
         PROVE  AttemptIsOwn' /\ TriesLeft'
    <2>1. \E next \in {"closed", "upload", "queued"} : BackToQueue(next)
      BY <1>16 DEF files_boot
    <2> QED BY <1>5, <2>1
  <1> QED
    BY <1>6, <1>7, <1>8, <1>9, <1>10, <1>11, <1>12, <1>13, <1>14, <1>15, <1>16
       DEF FilesSteps

LEMMA PartialStep ==
    ASSUME FileTypes, FileTypes', FilesArePartial, FilesSteps
    PROVE  FilesArePartial'
  <1> USE DEF jobVars
  <1>1. ASSUME UNCHANGED <<partial, album>>,
               fileStage # "upload" /\ fileStage' # "upload"
        PROVE  FilesArePartial'
    BY <1>1 DEF FilesArePartial
  <1>2. ASSUME album' = NoFiles, fileStage' # "upload"
        PROVE  FilesArePartial'
    BY <1>2 DEF FilesArePartial, NoFiles
  <1>3. ASSUME partial' = NoFiles, fileStage' = "upload"
        PROVE  FilesArePartial'
    BY <1>3 DEF FilesArePartial
  <1>4. CASE download_taken
    BY <1>2, <1>4, ToItemTyped DEF download_taken
  <1>5. CASE resume_partial
    <2>1. /\ fileStage = "item" /\ fileStage' # "upload" /\ partial' = partial
          /\ album' \in {album, [album EXCEPT ![item] = partial[item]]}
      BY <1>5, ToItemTyped DEF resume_partial
    <2> QED BY <2>1 DEF FilesArePartial, FileTypes, PathMaps
  <1>6. CASE fetch_begins \/ write_starts \/ bot_api_fails \/ fetch_retried
             \/ \E result \in Outcomes(item) : hybrid_download_media(result)
    BY <1>1, <1>6
       DEF fetch_begins, write_starts, bot_api_fails, fetch_retried,
           hybrid_download_media, preferred_download_route
  <1>7. CASE item_valid
    <2>1. /\ fileStage = "fetched" /\ fileStage' # "upload"
          /\ partial' = [partial EXCEPT ![item] = path]
          /\ album' = [album EXCEPT ![item] = path]
      BY <1>7, ToItemTyped DEF item_valid, remember_partial_download
    <2> QED BY <2>1 DEF FilesArePartial, FileTypes, PathMaps
  <1>8. CASE item_invalid
    BY <1>1, <1>8, ToItemTyped DEF item_invalid
  <1>9. CASE retry_later \/ upload_ends \/ upload_reset
    BY <1>2, <1>9, BackTyped DEF retry_later, upload_ends, upload_reset
  <1>10. CASE items_complete
    BY <1>3, <1>10, BackTyped
       DEF items_complete, clear_partial_download_checkpoint
  <1>11. CASE \E outcome \in {"again", "anew", "closed"} :
                download_fails(outcome)
    BY <1>2, <1>11, BackTyped DEF download_fails
  <1>12. CASE \/ guard_protects \/ guard_lists \/ guard_ends
              \/ prune_runtime_caches \/ file_record_saved
              \/ file_checkpoint_saved
              \/ \E p \in Paths : \/ guard_unlinks(p) \/ reap_deferred(p)
                                  \/ reap_deferred_download_cleanup(p)
    <2>1. UNCHANGED <<fileStage, partial, album>>
      BY <1>12 DEF guard_protects, guard_lists, guard_ends, guard_unlinks,
           prune_runtime_caches, file_record_saved, file_checkpoint_saved,
           reap_deferred, reap_deferred_download_cleanup
    <2> QED BY <2>1 DEF FilesArePartial
  <1>13. CASE \E purge, fromCheckpoint \in BOOLEAN :
                files_boot(purge, fromCheckpoint)
    <2>1. \/ BackToQueue("upload") /\ partial' = NoFiles
          \/ BackToQueue("closed") /\ album' = NoFiles
          \/ BackToQueue("queued") /\ album' = NoFiles
      BY <1>13 DEF files_boot
    <2> QED BY <1>2, <1>3, <2>1, BackTyped
  <1> QED
    BY <1>4, <1>5, <1>6, <1>7, <1>8, <1>9, <1>10, <1>11, <1>12, <1>13
       DEF FilesSteps

(* What a step does to the paths that are tracked and deferred. *)
TracksKept ==
    /\ \A p \in deferredPaths' :
          p \in deferredPaths \/ (p <= lastPath /\ p \in tracked')
    /\ deferredPaths' # {} => \A p \in tracked : p \in OnDisk' => p \in tracked'
    /\ engineDeferred' \subseteq enginePaths'
    /\ Fetching' => deferredPaths' \subseteq deferredPaths
    /\ \A p \in attemptPaths' : p <= lastPath'

LEMMA TracksStep ==
    ASSUME FileTypes, AttemptIsOwn, NamedSound, DeferredIsActive, FilesSteps
    PROVE  TracksKept
  <1> USE DEF jobVars, trackVars
  <1>1. /\ MaxPaths \in Nat /\ Paths = 1..MaxPaths /\ lastPath \in Nat
        /\ engineDeferred \subseteq enginePaths /\ tracked \subseteq Paths
        /\ \A p \in attemptPaths : p <= lastPath
    BY ItemFacts DEF FileTypes, DeferredIsActive
  <1>2. /\ \A i \in FileItems : partial[i] # 0 => partial[i] <= lastPath
        /\ \A p \in FilesIn(partial) : p <= lastPath
        /\ Fetching => path <= lastPath
    BY FilesInPaths
       DEF NamedSound, NamedMaps, Sound, AttemptIsOwn, FileTypes
  <1>3. ASSUME UNCHANGED <<trackVars, attemptPaths, lastPath>> PROVE TracksKept
    BY <1>1, <1>3 DEF TracksKept
  <1>4. ASSUME NEW S, defer_download_cleanup(S), ~Fetching',
               \A p \in S : p <= lastPath,
               \A p \in attemptPaths' : p <= lastPath, lastPath' = lastPath
        PROVE  TracksKept
    BY <1>1, <1>4 DEF TracksKept, defer_download_cleanup
  <1>5. ASSUME NEW S, track_download_file(S),
               \A p \in attemptPaths' : p <= lastPath'
        PROVE  TracksKept
    BY <1>1, <1>5 DEF TracksKept, track_download_file
  <1>6. CASE \/ download_taken \/ write_starts \/ bot_api_fails
             \/ \E result \in Outcomes(item) : hybrid_download_media(result)
             \/ guard_protects \/ guard_lists \/ guard_ends
             \/ \E p \in Paths : guard_unlinks(p)
             \/ file_record_saved
    BY <1>3, <1>6
       DEF download_taken, write_starts, bot_api_fails, guard_unlinks,
           hybrid_download_media, guard_protects, guard_lists, guard_ends,
           file_record_saved
  <1>7. CASE resume_partial
    <2>1. partial[item] # 0 /\ item \in FileItems /\ lastPath' = lastPath
          /\ attemptPaths' = attemptPaths \cup {partial[item]}
      BY <1>7 DEF resume_partial, Resumable, FileTypes
    <2>2. \A p \in attemptPaths' : p <= lastPath
      BY <1>1, <1>2, <2>1
    <2>3. \/ track_download_file({partial[item]})
          \/ defer_download_cleanup({partial[item]}) /\ fileStage' = "fetch"
      BY <1>7 DEF resume_partial
    <2> QED BY <1>2, <1>4, <1>5, <2>1, <2>2, <2>3 DEF Fetching
  <1>8. CASE fetch_begins
    <2>1. /\ path' = lastPath + 1 /\ lastPath' = lastPath + 1
          /\ attemptPaths' = attemptPaths \cup {path'}
          /\ track_download_file({path'})
      BY <1>8 DEF fetch_begins
    <2>2. \A p \in attemptPaths' : p <= lastPath'
      <3>1. attemptPaths \subseteq Nat
        BY <1>1 DEF FileTypes
      <3> QED BY <1>1, <2>1, <3>1
    <2> QED BY <1>1, <2>1, <2>2 DEF TracksKept, track_download_file
  <1>9. CASE fetch_retried
    <2>1. defer_download_cleanup({path}) /\ path <= lastPath /\ ~Fetching'
          /\ UNCHANGED <<attemptPaths, lastPath>>
      BY <1>2, <1>9 DEF fetch_retried, Fetching
    <2> QED BY <1>1, <1>4, <2>1
  <1>10. CASE item_valid
    <2>1. /\ ~Fetching' /\ UNCHANGED <<attemptPaths, lastPath>>
      BY <1>10, ToItemTyped DEF item_valid, Fetching
    <2>2. \A p \in {partial[item]} \ {0, path} : p <= lastPath
      BY <1>2 DEF FileTypes
    <2> QED BY <1>1, <1>10, <2>1, <2>2
            DEF item_valid, remember_partial_download, TracksKept
  <1>11. CASE item_invalid
    <2>1. ~Fetching' /\ UNCHANGED <<attemptPaths, lastPath>>
      BY <1>11, ToItemTyped DEF item_invalid, Fetching
    <2>2. defer_download_cleanup({path}) /\ path <= lastPath
      BY <1>2, <1>11 DEF item_invalid, Fetching
    <2> QED BY <1>1, <1>4, <2>1, <2>2
  <1>12. CASE retry_later
    BY <1>1, <1>12, BackTyped DEF retry_later, TracksKept, Fetching
  <1>13. CASE items_complete
    <2>1. /\ defer_download_cleanup(FilesIn(partial) \ FilesIn(album))
          /\ ~Fetching' /\ attemptPaths' = {} /\ lastPath' = lastPath
      BY <1>13, BackTyped
         DEF items_complete, clear_partial_download_checkpoint, Fetching
    <2>2. \A p \in FilesIn(partial) \ FilesIn(album) : p <= lastPath
      BY <1>2
    <2> QED BY <1>4, <2>1, <2>2
  <1>14. ASSUME NEW outcome \in {"again", "anew", "closed"},
                download_fails(outcome)
         PROVE  TracksKept
    <2>1. /\ defer_download_cleanup(attemptPaths) /\ lastPath' = lastPath
          /\ BackToQueue("closed") \/ BackToQueue("queued")
      BY <1>14 DEF download_fails
    <2>2. ~Fetching' /\ attemptPaths' = {}
      BY <2>1, BackTyped DEF Fetching
    <2> QED BY <1>1, <1>4, <2>1, <2>2
  <1>15. CASE upload_ends \/ upload_reset
    <2>1. /\ DeleteFiles(FilesIn(album)) /\ lastPath' = lastPath
          /\ BackToQueue("closed") \/ BackToQueue("queued")
      BY <1>15 DEF upload_ends, upload_reset
    <2>2. ~Fetching' /\ attemptPaths' = {}
      BY <2>1, BackTyped DEF Fetching
    <2> QED BY <1>1, <2>1, <2>2 DEF DeleteFiles, TracksKept, OnDisk
  <1>16. ASSUME NEW p \in Paths,
                reap_deferred(p) \/ reap_deferred_download_cleanup(p)
         PROVE  TracksKept
    <2>1. /\ UNCHANGED <<attemptPaths, lastPath, enginePaths>>
          /\ tracked' \in {tracked, tracked \ {p}}
          /\ deferredPaths' \in {deferredPaths, deferredPaths \ {p}}
          /\ engineDeferred' \in {engineDeferred, engineDeferred \ {p}}
          /\ content'[p] = "absent"
      BY <1>16 DEF reap_deferred, reap_deferred_download_cleanup, FileTypes
    <2> QED BY <1>1, <2>1 DEF TracksKept, OnDisk
  <1>17. CASE prune_runtime_caches \/ file_checkpoint_saved
    <2>1. /\ UNCHANGED <<attemptPaths, lastPath, enginePaths, engineDeferred,
                         content>>
          /\ tracked' = tracked \cap OnDisk
          /\ deferredPaths' \subseteq deferredPaths
      BY <1>17 DEF prune_runtime_caches, file_checkpoint_saved
    <2> QED BY <1>1, <2>1 DEF TracksKept, OnDisk
  <1>18. ASSUME NEW purge, NEW fromCheckpoint,
                files_boot(purge, fromCheckpoint)
         PROVE  TracksKept
    <2>1. /\ engineDeferred' = {} /\ deferredPaths' = {}
          /\ \E next \in {"closed", "upload", "queued"} : BackToQueue(next)
      BY <1>18 DEF files_boot
    <2>2. attemptPaths' = {}
      BY <2>1, BackTyped
    <2> QED BY <2>1, <2>2 DEF TracksKept
  <1> QED
    BY <1>6, <1>7, <1>8, <1>9, <1>10, <1>11, <1>12, <1>13, <1>14, <1>15,
       <1>16, <1>17, <1>18
    DEF FilesSteps

LEMMA DeferredStep ==
    ASSUME FileTypes, FileTypes', AttemptIsOwn, NamedSound, UnusedAbsent,
           DeferredIsActive, FilesSteps
    PROVE  UnusedAbsent' /\ DeferredIsActive'
  <1>1. OnlyInHandWritten /\ TracksKept
    BY FilesFrame, TracksStep
  <1>2. /\ MaxPaths \in Nat /\ Paths = 1..MaxPaths /\ lastPath \in Nat
        /\ lastPath' \in Nat /\ lastPath <= lastPath'
        /\ deferredPaths' \subseteq Paths
    BY <1>1, ItemFacts DEF FileTypes, OnlyInHandWritten
  <1>3. InHand <= lastPath /\ InHand \in Nat /\ InHand \notin deferredPaths
    BY <1>2 DEF AttemptIsOwn, InHand, DeferredIsActive, FileTypes
  <1>4. UnusedAbsent'
    <2>1. ASSUME NEW p \in Paths, p > lastPath'
          PROVE  content'[p] = "absent" /\ p \notin deferredPaths'
      <3>1. p > lastPath /\ p # InHand
        BY <1>2, <1>3, <2>1
      <3>2. content[p] = "absent" /\ p \notin deferredPaths
        BY <3>1 DEF UnusedAbsent
      <3> QED BY <1>1, <1>2, <3>1, <3>2 DEF OnlyInHandWritten, TracksKept
    <2> QED BY <2>1 DEF UnusedAbsent
  <1>5. ASSUME NEW p \in deferredPaths', p \in OnDisk' PROVE p \in tracked'
    <2>1. CASE p \in deferredPaths
      <3>1. content'[p] # "absent" /\ p # InHand /\ p \in Paths
        BY <1>2, <1>3, <1>5, <2>1 DEF OnDisk
      <3>2. p \in OnDisk
        BY <1>1, <3>1 DEF OnlyInHandWritten, OnDisk
      <3>3. p \in tracked
        BY <2>1, <3>2 DEF DeferredIsActive
      <3> QED BY <1>1, <1>5, <3>3 DEF TracksKept
    <2>2. CASE p \notin deferredPaths
      BY <1>1, <2>2 DEF TracksKept
    <2> QED BY <2>1, <2>2
  <1>6. Fetching' => path' \notin deferredPaths'
    <2> SUFFICES ASSUME Fetching' PROVE path' \notin deferredPaths
      BY <1>1 DEF TracksKept
    <2>1. path' \in {InHand, 0} \/ (path' \in Paths /\ path' > lastPath)
      BY <1>1 DEF InHand, OnlyInHandWritten
    <2>2. 0 \notin deferredPaths
      BY <1>2 DEF FileTypes
    <2> QED BY <1>3, <2>1, <2>2 DEF UnusedAbsent
  <1> QED BY <1>1, <1>4, <1>5, <1>6 DEF DeferredIsActive, TracksKept

(* The files a job relies on are protected from the cleaners. *)
LEMMA ReliedProtected ==
    ASSUME FileTypes, FilesArePartial, NEW i \in FileItems, NEW p \in Relied(i)
    PROVE  p \in protected_download_file_paths /\ p \in Paths
  <1>1. p \in FilesIn(partial) \/ (fileStage = "upload" /\ p \in FilesIn(album))
    BY FilesInPaths DEF Relied, FilesArePartial, FileTypes
  <1> QED BY <1>1, FilesInPaths
          DEF protected_download_file_paths, JobPaths, FileTypes

LEMMA KeptStep ==
    ASSUME FileTypes, FileTypes', AttemptIsOwn, NamedSound, NamedSound',
           FilesArePartial, DeferredIsActive, FilesKept, FilesSteps
    PROVE  FilesKept'
  <1> USE DEF jobVars
  <1>1. \A i \in FileItems : \A p \in Relied(i) :
           /\ p \in Paths /\ p # InHand
           /\ content'[p] \in {content[p], "absent"}
           /\ p \in protected_download_file_paths
    <2>1. OnlyInHandWritten
      BY FilesFrame
    <2>2. \A i \in FileItems : \A p \in Relied(i) : p # InHand
      BY DEF Relied, NamedSound, NamedMaps, Sound
    <2> QED BY <2>1, <2>2, ReliedProtected DEF OnlyInHandWritten
  <1>2. ASSUME \A i \in FileItems : Relied(i)' \subseteq Relied(i),
               swept \subseteq swept', content' = content
        PROVE  FilesKept'
    BY <1>2 DEF FilesKept
  <1>3. ASSUME album' = NoFiles, partial' \in {partial, NoFiles}
        PROVE  \A i \in FileItems : Relied(i)' \subseteq Relied(i)
    BY <1>3 DEF Relied, NoFiles
  <1>4. ASSUME UNCHANGED <<album, partial>>
        PROVE  \A i \in FileItems : Relied(i)' = Relied(i)
    BY <1>4 DEF Relied
  <1>5. CASE \/ guard_protects \/ guard_lists \/ guard_ends
             \/ prune_runtime_caches \/ file_record_saved
             \/ file_checkpoint_saved \/ fetch_begins \/ fetch_retried
             \/ item_invalid
    <2>1. UNCHANGED <<album, partial, content, swept>>
      BY <1>5 DEF guard_protects, guard_lists, guard_ends,
           prune_runtime_caches, file_record_saved, file_checkpoint_saved,
           fetch_begins, fetch_retried, item_invalid
    <2> QED BY <1>2, <1>4, <2>1
  <1>6. CASE download_taken \/ retry_later
             \/ \E outcome \in {"again", "anew", "closed"} :
                   download_fails(outcome)
    <2>1. /\ album' = NoFiles /\ partial' \in {partial, NoFiles}
          /\ UNCHANGED <<content, swept>>
      BY <1>6 DEF download_taken, retry_later, download_fails
    <2> QED BY <1>2, <1>3, <2>1
  <1>7. CASE items_complete
    <2>1. /\ album' = album /\ partial' = NoFiles
          /\ UNCHANGED <<content, swept>>
      BY <1>7 DEF items_complete, clear_partial_download_checkpoint
    <2>2. \A i \in FileItems : Relied(i)' \subseteq Relied(i)
      BY <2>1 DEF Relied, NoFiles
    <2> QED BY <1>2, <2>1, <2>2
  <1>8. CASE resume_partial
    <2>1. /\ album' \in {album, [album EXCEPT ![item] = partial[item]]}
          /\ UNCHANGED <<partial, content, swept>>
      BY <1>8 DEF resume_partial
    <2>2. \A i \in FileItems : Relied(i)' \subseteq Relied(i)
      BY <2>1 DEF Relied, FileTypes, PathMaps
    <2> QED BY <1>2, <2>1, <2>2
  <1>9. CASE item_valid
    <2>1. /\ partial' = [partial EXCEPT ![item] = path]
          /\ album' = [album EXCEPT ![item] = path]
          /\ UNCHANGED <<content, swept>>
          /\ fileStage = "fetched" /\ validate_file(item, path)
      BY <1>9 DEF item_valid, remember_partial_download
    <2>2. content[path] = "whole"
      BY <2>1 DEF validate_file, media_path_is_complete_enough, Outcomes,
                  AttemptIsOwn
    <2>3. \A i \in FileItems : \A p \in Relied(i)' : p \in Relied(i) \/ p = path
      BY <2>1 DEF Relied, FileTypes, PathMaps
    <2> QED BY <2>1, <2>2, <2>3 DEF FilesKept
  <1>10. CASE upload_ends \/ upload_reset
    <2>1. album' = NoFiles /\ partial' = partial /\ fileStage = "upload"
      BY <1>10 DEF upload_ends, upload_reset
    <2>2. \A i \in FileItems : Relied(i)' = {}
      BY <2>1 DEF Relied, FilesArePartial, NoFiles
    <2> QED BY <2>2 DEF FilesKept
  <1>11. CASE write_starts \/ bot_api_fails
              \/ \E result \in Outcomes(item) : hybrid_download_media(result)
    <2>1. /\ UNCHANGED <<album, partial, swept>> /\ InHand = path
          /\ content' = content
                \/ \E result : content' = [content EXCEPT ![path] = result]
      BY <1>11 DEF write_starts, bot_api_fails, hybrid_download_media,
                   InHand, Fetching
    <2>2. \A i \in FileItems : \A p \in Relied(i) : content'[p] = content[p]
      BY <1>1, <2>1 DEF FileTypes
    <2> QED BY <1>4, <2>1, <2>2 DEF FilesKept
  <1>12. ASSUME NEW q \in Paths, guard_unlinks(q) PROVE FilesKept'
    <2>1. /\ UNCHANGED <<album, partial>>
          /\ content' = [content EXCEPT ![q] = "absent"]
          /\ swept' = swept \cup ({q} \cap protected_download_file_paths)
      BY <1>12 DEF guard_unlinks
    <2>2. ASSUME NEW i \in FileItems, NEW p \in Relied(i)
          PROVE  p \in swept' \/ content'[p] = "whole"
      <3>1. p = q => p \in swept'
        BY <1>1, <2>1, <2>2
      <3>2. p # q => content'[p] = content[p]
        BY <1>1, <2>1, <2>2 DEF FileTypes
      <3> QED BY <2>1, <2>2, <3>1, <3>2 DEF FilesKept
    <2> QED BY <1>4, <2>1, <2>2 DEF FilesKept
  <1>13. ASSUME NEW q \in Paths,
                reap_deferred(q) \/ reap_deferred_download_cleanup(q)
         PROVE  FilesKept'
    <2>1. /\ UNCHANGED <<album, partial, swept>>
          /\ content' = [content EXCEPT ![q] = "absent"]
          /\ q \notin protected_download_file_paths
      BY <1>13 DEF reap_deferred, reap_deferred_download_cleanup,
                   DeferredIsActive
    <2>2. \A i \in FileItems : \A p \in Relied(i) : content'[p] = content[p]
      BY <1>1, <2>1 DEF FileTypes
    <2> QED BY <1>4, <2>1, <2>2 DEF FilesKept
  <1>14. ASSUME NEW purge, NEW fromCheckpoint,
                files_boot(purge, fromCheckpoint)
         PROVE  FilesKept'
    <2>1. /\ album' \in {Hydrated(fileRecordDisk.files), NoFiles}
          /\ partial' \in {NoFiles, Hydrated(fileCheckpoint.partial),
                           Hydrated(fileRecordDisk.partial)}
      BY <1>14 DEF files_boot
    <2>2. ASSUME NEW f, NEW i \in FileItems,
                 NEW g \in {NoFiles, Hydrated(f)}, g[i] # 0
          PROVE  content'[g[i]] \notin {"absent", "short"}
      <3>1. g = Hydrated(f)
        BY <2>2 DEF NoFiles
      <3> QED BY <2>2, <3>1 DEF Hydrated
    <2>3. ASSUME NEW i \in FileItems, NEW p \in Relied(i)'
          PROVE  content'[p] = "whole"
      <3>1. p # 0 /\ (p = album'[i] \/ p = partial'[i])
        BY <2>3 DEF Relied
      <3>2. content'[p] \in {"whole", "absent"}
        BY <3>1 DEF NamedSound, NamedMaps, Sound
      <3>3. content'[p] \notin {"absent", "short"}
        BY <2>1, <2>2, <3>1
      <3> QED BY <3>2, <3>3
    <2> QED BY <2>3 DEF FilesKept
  <1> QED
    BY <1>5, <1>6, <1>7, <1>8, <1>9, <1>10, <1>11, <1>12, <1>13, <1>14
       DEF FilesSteps

-----------------------------------------------------------------------------
(* The files: the theorems *)

LEMMA FilesInvInit == FilesInit => FilesInv
  <1> SUFFICES ASSUME FilesInit PROVE FilesInv
    OBVIOUS
  <1>1. FileTypes
    BY FileTypesInit
  <1>2. AttemptIsOwn /\ TriesLeft /\ UnusedAbsent /\ DeferredIsActive
    BY DEF FilesInit, AttemptIsOwn, TriesLeft, Fetching, UnusedAbsent,
           DeferredIsActive
  <1>3. NamedSound /\ FilesArePartial /\ FilesKept
    BY DEF FilesInit, NamedSound, NamedMaps, Sound, FilesArePartial,
           FilesKept, Relied, NoFiles
  <1> QED BY <1>1, <1>2, <1>3 DEF FilesInv

LEMMA FilesInvStep == FilesInv /\ [FilesNext]_fileVars => FilesInv'
  <1> SUFFICES ASSUME FilesInv, [FilesNext]_fileVars PROVE FilesInv'
    OBVIOUS
  <1>1. CASE FilesNext
    <2>1. FilesSteps
      BY <1>1 DEF FilesNext
    <2>2. FileTypes' /\ AttemptIsOwn' /\ TriesLeft'
      BY <2>1, FileTypesStep, AttemptStep DEF FilesInv
    <2>3. NamedSound' /\ FilesArePartial'
      BY <2>1, <2>2, NamedStep, PartialStep DEF FilesInv
    <2>4. UnusedAbsent' /\ DeferredIsActive'
      BY <2>1, <2>2, DeferredStep DEF FilesInv
    <2>5. FilesKept'
      BY <2>1, <2>2, <2>3, KeptStep DEF FilesInv
    <2> QED BY <2>2, <2>3, <2>4, <2>5 DEF FilesInv
  <1>2. CASE UNCHANGED fileVars
    <2> USE <1>2 DEF fileVars, jobVars, trackVars, guardVars, FilesInv
    <2>1. FileTypes' /\ AttemptIsOwn' /\ TriesLeft'
      BY DEF FileTypes, AttemptIsOwn, TriesLeft, Fetching, Outcomes
    <2>2. NamedSound' /\ FilesArePartial' /\ FilesKept'
      BY DEF NamedSound, NamedMaps, InHand, Fetching, FilesArePartial,
             FilesKept, Relied
    <2>3. UnusedAbsent' /\ DeferredIsActive'
      BY DEF UnusedAbsent, DeferredIsActive, Fetching, OnDisk
    <2> QED BY <2>1, <2>2, <2>3
  <1> QED BY <1>1, <1>2

LEMMA FilesInvHolds == FilesSpec => []FilesInv
  BY FilesInvInit, FilesInvStep, PTL DEF FilesSpec

(* The state of the downloads is of its type, whatever the bounds. *)
THEOREM FilesAreTyped == FilesSpec => []FilesTypeOK
  <1>1. FilesInv => FilesTypeOK
    BY FileTypeParts DEF FilesInv
  <1> QED BY <1>1, FilesInvHolds, PTL

(* The files a job relies on are there and complete, for an album of any size
   and any number of attempts and restarts, unless the storage guard deleted
   them by a list that is older than they are. *)
THEOREM ReliedFilesAreKept == FilesSpec => []FilesKept
  <1>1. FilesInv => FilesKept
    BY DEF FilesInv
  <1> QED BY <1>1, FilesInvHolds, PTL

(* The two reapers delete nothing that exists: what was deferred counts as
   active, and what counts as active is postponed again. *)
THEOREM ReapersDeleteNothing ==
    FilesSpec => [][\A p \in Paths :
        reap_deferred(p) \/ reap_deferred_download_cleanup(p)
            => content' = content]_fileVars
  <1> DEFINE Reaped == \A p \in Paths :
        reap_deferred(p) \/ reap_deferred_download_cleanup(p)
            => content' = content
  <1>1. FilesInv => Reaped
    <2> SUFFICES ASSUME FilesInv, NEW p \in Paths,
                        reap_deferred(p) \/ reap_deferred_download_cleanup(p)
                 PROVE  content' = content
      OBVIOUS
    <2>1. DeferredIsActive /\ content \in [Paths -> Contents]
      BY DEF FilesInv, FileTypes
    <2>2. ~reap_deferred(p)
      BY <2>1 DEF reap_deferred, DeferredIsActive
    <2>3. p \in deferredPaths \ tracked
          /\ content' = [content EXCEPT ![p] = "absent"]
      BY <2>2 DEF reap_deferred_download_cleanup, protected_download_file_paths
    <2>4. content[p] = "absent"
      BY <2>1, <2>3 DEF DeferredIsActive, OnDisk
    <2> QED BY <2>1, <2>3, <2>4
  <1>2. FilesInv /\ [FilesNext]_fileVars => [Reaped]_fileVars
    BY <1>1
  <1> QED BY <1>2, FilesInvHolds, PTL DEF FilesSpec

-----------------------------------------------------------------------------
(* The registry: types *)

RegistryTypes ==
    /\ recordStatus \in [Idents -> RecordStatuses]
    /\ recordDisk \in [status : [Idents -> RecordStatuses], named : BOOLEAN]
    /\ channelRows \subseteq Idents /\ backupRows \subseteq Idents
    /\ activeSet \subseteq Idents /\ loadRows \subseteq Idents
    /\ scanOf \subseteq Idents
    /\ command \in {"idle", "recording", "tracking", "removing", "reload",
                    "filling"}
    /\ commandFor \in Idents /\ olderRow \in Idents
    /\ resolving \in {"idle", "adding", "loading"}
    /\ intent \in {"wanted", "removed", "unclear"}
    /\ recordNamed \in BOOLEAN /\ rowNamed \in BOOLEAN
    /\ commandNamed \in BOOLEAN /\ stranded \in BOOLEAN
    /\ revived \in BOOLEAN /\ untouched \in BOOLEAN
    /\ peerCount \in [Idents -> 0..CHANNEL_RETIRE_PEER_INVALID_AFTER]
    /\ confirmCount \in [Idents -> 0..CHANNEL_HARD_DELETE_CONFIRMATIONS]

LEMMA RegistryTypeParts == RegistryTypes => RegistryTypeOK
  BY Zenon DEF RegistryTypes, RegistryTypeOK

LEMMA InsertedTyped ==
    ASSUME RegistryTypes, NEW i \in Idents, Inserted(i)
    PROVE  channelRows' \subseteq Idents /\ olderRow' \in Idents
  <1>1. (CHOOSE j \in Idents : j # i) \in Idents
    BY DEF Idents
  <1> QED BY <1>1 DEF Inserted, RegistryTypes

LEMMA LoadedTyped ==
    ASSUME RegistryTypes, NEW rows, rows \subseteq Idents
    PROVE  /\ Kept(rows) \subseteq Idents
           /\ Loaded(Kept(rows), rows).active \subseteq Idents
           /\ Loaded(Kept(rows), rows).status \in [Idents -> RecordStatuses]
  <1>1. Kept(rows) \subseteq Idents
    BY DEF Kept, RegistryTypes
  <1>2. \A i \in Idents : recordStatus[i] \in RecordStatuses
    BY DEF RegistryTypes
  <1> QED BY <1>1, <1>2 DEF Loaded, RecordStatuses, Gone, Retirements

LEMMA CountedTyped ==
    ASSUME NEW max \in Nat, NEW x \in 0..max
    PROVE  Counted(x, max) \in 0..max
  BY DEF Counted

LEMMA ClearedTyped ==
    ASSUME NEW max \in Nat, NEW count \in [Idents -> 0..max], NEW S
    PROVE  Cleared(count, S) \in [Idents -> 0..max]
  BY DEF Cleared

LEMMA RegistryTypesInit == RegistryInit => RegistryTypes
  <1> SUFFICES ASSUME RegistryInit PROVE RegistryTypes
    OBVIOUS
  <1>1. /\ 0 \in 0..CHANNEL_RETIRE_PEER_INVALID_AFTER
        /\ 0 \in 0..CHANNEL_HARD_DELETE_CONFIRMATIONS
    BY RegistryAssumption
  <1> QED
    BY <1>1 DEF RegistryInit, RegistryTypes, NoCounts, Idents, RecordStatuses

LEMMA RegistryTypesStep ==
    ASSUME RegistryTypes, RegistryNext
    PROVE  RegistryTypes'
  <1> USE DEF recordVars, tableVars, commandVars, countVars
  <1>1. /\ CHANNEL_RETIRE_PEER_INVALID_AFTER \in Nat
        /\ CHANNEL_HARD_DELETE_CONFIRMATIONS \in Nat
        /\ {"active", "removed", "expired", "unresolved", "alias", "none"}
              = RecordStatuses
        /\ {"name", "num"} = Idents
    BY RegistryAssumption DEF RecordStatuses, Gone, Retirements, Idents
  <1>2. \A i \in Idents, status \in RecordStatuses :
           Recorded(i, status) => recordStatus' \in [Idents -> RecordStatuses]
    BY DEF Recorded, RegistryTypes
  <1>3. \A i \in Idents : NoteRevival(i) => revived' \in BOOLEAN
    BY DEF NoteRevival, RegistryTypes
  <1>4. ASSUME NEW i \in Idents, NEW named \in BOOLEAN, NEW ok \in BOOLEAN,
               add_channel_db(i, named, ok)
        PROVE  RegistryTypes'
    <2>1. channelRows' \subseteq Idents /\ olderRow' \in Idents
          /\ rowNamed' \in BOOLEAN
          /\ command' \in {"idle", "recording", "tracking", "removing",
                           "reload", "filling"}
      BY <1>4, InsertedTyped DEF add_channel_db, RegistryTypes
    <2> QED BY <1>4, <2>1 DEF add_channel_db, RegistryTypes
  <1>5. CASE add_records
    BY <1>1, <1>2, <1>5 DEF add_records, RegistryTypes
  <1>6. ASSUME NEW i \in Idents, rm_channel_db(i)
        PROVE  RegistryTypes'
    BY <1>6 DEF rm_channel_db, RegistryTypes
  <1>7. CASE clear_source_runtime_tracking
    BY <1>1, <1>7, ClearedTyped DEF clear_source_runtime_tracking, RegistryTypes
  <1>8. CASE remove_channel_state
    BY <1>1, <1>8 DEF remove_channel_state, RegistryTypes
  <1>9. CASE load_reads \/ load_fails
    <2>1. CASE load_reads
      BY <2>1 DEF load_reads, RegistryTypes
    <2>2. CASE load_fails
      BY <1>1, <2>2 DEF load_fails, RegistryTypes
    <2> QED BY <1>9, <2>1, <2>2
  <1>10. CASE load_fills
    <2>1. /\ activeSet' \subseteq Idents /\ channelRows' \subseteq Idents
          /\ recordStatus' \in [Idents -> RecordStatuses]
      BY <1>10, LoadedTyped DEF load_fills, RegistryTypes
    <2> QED BY <1>1, <1>10, <2>1 DEF load_fills, RegistryTypes
  <1>11. ASSUME NEW i \in Idents, scan_starts(i)
         PROVE  RegistryTypes'
    <2>1. /\ activeSet' \subseteq Idents /\ scanOf' = {i} /\ untouched' = FALSE
          /\ \E dropped : recordStatus' = [j \in Idents |->
                IF j \in dropped THEN "alias" ELSE recordStatus[j]]
      BY <1>11 DEF scan_starts, RegistryTypes
    <2>2. recordStatus' \in [Idents -> RecordStatuses]
      BY <1>1, <2>1 DEF RegistryTypes
    <2> QED BY <1>11, <2>1, <2>2 DEF scan_starts, RegistryTypes
  <1>12. CASE scan_ends
    BY <1>1, <1>12, ClearedTyped DEF scan_ends, RegistryTypes
  <1>13. CASE health_ok
    BY <1>1, <1>2, <1>3, <1>13 DEF health_ok, RegistryTypes
  <1>14. ASSUME NEW i \in Idents, NEW status \in Retirements,
                Retired(i, status)
         PROVE  /\ activeSet' \subseteq Idents /\ channelRows' \subseteq Idents
                /\ recordStatus' \in [Idents -> RecordStatuses]
                /\ stranded' \in BOOLEAN
    BY <1>1, <1>2, <1>14 DEF Retired, Retirements, RegistryTypes
  <1>15. ASSUME NEW i \in Idents, mark_peer_invalid_unresolved(i)
         PROVE  RegistryTypes'
    <2>1. peerCount' \in [Idents -> 0..CHANNEL_RETIRE_PEER_INVALID_AFTER]
      BY <1>1, <1>15, CountedTyped
         DEF mark_peer_invalid_unresolved, RegistryTypes
    <2>2. \/ Retired(i, "unresolved") /\ NoteRevival(i)
          \/ UNCHANGED <<activeSet, channelRows, recordStatus, stranded,
                         revived>>
      BY <1>15 DEF mark_peer_invalid_unresolved
    <2>3. /\ activeSet' \subseteq Idents /\ channelRows' \subseteq Idents
          /\ recordStatus' \in [Idents -> RecordStatuses]
          /\ stranded' \in BOOLEAN /\ revived' \in BOOLEAN
      BY <1>3, <1>14, <2>2 DEF Retirements, RegistryTypes
    <2>4. /\ scanOf' = {}
          /\ UNCHANGED <<recordNamed, recordDisk, rowNamed, olderRow,
                         backupRows, commandVars, resolving, confirmCount,
                         intent, untouched>>
      BY <1>15 DEF mark_peer_invalid_unresolved, Erring
    <2> QED BY <2>1, <2>3, <2>4 DEF RegistryTypes
  <1>16. ASSUME NEW i \in Idents, quarantine_channel(i)
         PROVE  RegistryTypes'
    BY <1>1, <1>2, <1>3, <1>16 DEF quarantine_channel, Erring, RegistryTypes
  <1>17. ASSUME NEW i \in Idents, maybe_retire_deleted_channel(i)
         PROVE  RegistryTypes'
    <2>1. confirmCount' \in [Idents -> 0..CHANNEL_HARD_DELETE_CONFIRMATIONS]
      BY <1>1, <1>17, CountedTyped
         DEF maybe_retire_deleted_channel, RegistryTypes
    <2>2. \/ /\ Retired(i, "expired") /\ intent' = "unclear"
             /\ UNCHANGED revived
          \/ /\ activeSet' = activeSet \cup {i} /\ Recorded(i, "active")
             /\ NoteRevival(i) /\ UNCHANGED <<channelRows, intent, stranded>>
      BY <1>17 DEF maybe_retire_deleted_channel
    <2>3. /\ activeSet' \subseteq Idents /\ channelRows' \subseteq Idents
          /\ recordStatus' \in [Idents -> RecordStatuses]
          /\ stranded' \in BOOLEAN /\ revived' \in BOOLEAN
          /\ intent' \in {"wanted", "removed", "unclear"}
      BY <1>1, <1>2, <1>3, <1>14, <2>2 DEF Retirements, RegistryTypes
    <2>4. /\ scanOf' = {}
          /\ UNCHANGED <<recordNamed, recordDisk, rowNamed, olderRow,
                         backupRows, commandVars, resolving, peerCount,
                         untouched>>
      BY <1>17 DEF maybe_retire_deleted_channel, Erring
    <2> QED BY <2>1, <2>3, <2>4 DEF RegistryTypes
  <1>18. ASSUME NEW ok \in BOOLEAN, resolve_begins(ok)
         PROVE  RegistryTypes'
    <2>1. /\ activeSet' \subseteq Idents /\ channelRows' \subseteq Idents
          /\ resolving' \in {"idle", "adding", "loading"}
          /\ revived' \in BOOLEAN /\ scanOf' \subseteq Idents
      BY <1>1, <1>3, <1>18 DEF resolve_begins, RegistryTypes
    <2>2. \/ recordStatus' = recordStatus
          \/ \E alias : recordStatus' = [j \in Idents |->
                IF j \in alias THEN "alias" ELSE recordStatus[j]]
      BY <1>18 DEF resolve_begins
    <2>3. recordStatus' \in [Idents -> RecordStatuses]
      BY <1>1, <2>2 DEF RegistryTypes
    <2> QED BY <1>18, <2>1, <2>3 DEF resolve_begins, RegistryTypes
  <1>19. ASSUME NEW ok \in BOOLEAN, resolve_adds(ok)
         PROVE  RegistryTypes'
    <2>1. \/ /\ Inserted("num") /\ rowNamed' = TRUE
             /\ Recorded("num", "active") /\ recordNamed' = TRUE
             /\ NoteRevival("num") /\ UNCHANGED stranded
          \/ /\ stranded' = TRUE
             /\ UNCHANGED <<channelRows, olderRow, rowNamed, recordStatus,
                            recordNamed, revived>>
      BY <1>19 DEF resolve_adds
    <2>2. /\ channelRows' \subseteq Idents /\ olderRow' \in Idents
          /\ recordStatus' \in [Idents -> RecordStatuses]
          /\ rowNamed' \in BOOLEAN /\ recordNamed' \in BOOLEAN
          /\ stranded' \in BOOLEAN /\ revived' \in BOOLEAN
      BY <1>1, <1>2, <1>3, <2>1, InsertedTyped DEF RegistryTypes
    <2> QED BY <1>19, <2>2 DEF resolve_adds, RegistryTypes
  <1>20. CASE resolve_loads
    <2>1. /\ activeSet' \subseteq Idents /\ channelRows' \subseteq Idents
          /\ recordStatus' \in [Idents -> RecordStatuses]
      BY <1>1, <1>20, LoadedTyped DEF resolve_loads, RegistryTypes
    <2>2. revived' \in BOOLEAN /\ stranded' \in BOOLEAN
      BY <1>1, <1>3, <1>20 DEF resolve_loads, RegistryTypes
    <2>3. peerCount' \in [Idents -> 0..CHANNEL_RETIRE_PEER_INVALID_AFTER]
      BY <1>1, <1>20, ClearedTyped DEF resolve_loads, RegistryTypes
    <2> QED BY <1>1, <1>20, <2>1, <2>2, <2>3 DEF resolve_loads, RegistryTypes
  <1>21. CASE resolve_fails
    BY <1>21 DEF resolve_fails, RegistryTypes
  <1>22. CASE json_saved
    BY <1>22 DEF json_saved, RegistryTypes
  <1>23. CASE backup_taken
    BY <1>23 DEF backup_taken, RegistryTypes
  <1>24. ASSUME NEW rows \in {channelRows, backupRows, {}},
                registry_boot(rows)
         PROVE  RegistryTypes'
    <2> DEFINE again == Reactivated(recordDisk)
               filled == reconcile_active_json_sources_to_db(rows, recordDisk)
                         \cup again
               named == recordDisk.named \/ (rowNamed /\ "num" \in filled)
               before == [i \in Idents |->
                            IF i \in again THEN "active"
                            ELSE recordDisk.status[i]]
               loaded(kept) == {i \in kept : before[i] \notin Gone}
               result(kept) ==
                 /\ channelRows' = kept
                 /\ activeSet' = loaded(kept)
                 /\ recordStatus' = [i \in Idents |->
                       IF i \in loaded(kept) THEN "active"
                       ELSE IF i \in filled \ kept THEN "alias"
                       ELSE before[i]]
                 /\ recordNamed' = named
                 /\ rowNamed' = (named /\ "num" \in kept)
    <2>1. \E kept \in IF filled = Idents /\ named
                      THEN {{"name"}, {"num"}} ELSE {filled} : result(kept)
      BY <1>24, Zenon DEF registry_boot
    <2>2. PICK kept \in IF filled = Idents /\ named
                       THEN {{"name"}, {"num"}} ELSE {filled} : result(kept)
      BY <2>1
    <2>3. filled \subseteq Idents /\ again \subseteq Idents
      BY DEF reconcile_active_json_sources_to_db, Reactivated, RegistryTypes
    <2>4. kept \subseteq Idents
      <3> HIDE DEF filled, named, result
      <3> QED BY <2>2, <2>3, <1>1
    <2>5. \A i \in Idents : before[i] \in RecordStatuses
      <3> HIDE DEF again
      <3> QED BY <1>1 DEF RegistryTypes
    <2>6. named \in BOOLEAN
      <3> HIDE DEF filled
      <3> QED BY Zenon DEF RegistryTypes
    <2>7. /\ channelRows' \subseteq Idents /\ activeSet' \subseteq Idents
          /\ recordNamed' \in BOOLEAN /\ rowNamed' \in BOOLEAN
      <3> HIDE DEF before, named, filled
      <3> QED BY <2>2, <2>4, <2>6
    <2>8. recordStatus' \in [Idents -> RecordStatuses]
      <3> HIDE DEF before, named, filled, loaded
      <3>1. recordStatus' = [i \in Idents |->
                       IF i \in loaded(kept) THEN "active"
                       ELSE IF i \in filled \ kept THEN "alias"
                       ELSE before[i]]
        BY <2>2, Zenon
      <3> QED BY <3>1, <2>5, <1>1
    <2> HIDE DEF again, filled, named, before, loaded, result
    <2>9. stranded' \in BOOLEAN /\ revived' \in BOOLEAN
      BY <1>24, Zenon DEF registry_boot, RegistryTypes
    <2>10. olderRow' \in Idents
      <3>1. olderRow' \in IF channelRows' = Idents THEN Idents ELSE {olderRow}
        BY <1>24, Zenon DEF registry_boot
      <3> QED BY <3>1 DEF RegistryTypes
    <2>11. /\ command' = "idle" /\ commandFor' = "name"
           /\ commandNamed' = FALSE /\ loadRows' = {} /\ scanOf' = {}
           /\ resolving' = "idle" /\ untouched' = TRUE
           /\ UNCHANGED <<recordDisk, backupRows, intent>>
      BY <1>24, Zenon DEF registry_boot
    <2>12. /\ peerCount' \in [Idents -> 0..CHANNEL_RETIRE_PEER_INVALID_AFTER]
           /\ confirmCount' \in
                 [Idents -> 0..CHANNEL_HARD_DELETE_CONFIRMATIONS]
      <3>1. /\ peerCount' = Cleared(peerCount, Reactivated(recordDisk))
            /\ confirmCount' = Cleared(confirmCount, Reactivated(recordDisk))
        BY <1>24, Zenon DEF registry_boot
      <3> QED BY <1>1, <3>1, ClearedTyped DEF RegistryTypes
    <2> QED BY <1>1, <2>7, <2>8, <2>9, <2>10, <2>11, <2>12 DEF RegistryTypes
  <1> QED
    BY <1>4, <1>5, <1>6, <1>7, <1>8, <1>9, <1>10, <1>11, <1>12, <1>13,
       <1>15, <1>16, <1>17, <1>18, <1>19, <1>20, <1>21, <1>22, <1>23, <1>24
    DEF RegistryNext

(* The registry keeps its types: the sets of a source's identifiers, its
   records and the counters of its errors. *)
THEOREM RegistryIsTyped == RegistrySpec => []RegistryTypeOK
  <1>1. RegistryTypes /\ [RegistryNext]_registryVars => RegistryTypes'
    <2> SUFFICES ASSUME RegistryTypes, [RegistryNext]_registryVars
                 PROVE  RegistryTypes'
      OBVIOUS
    <2>1. CASE RegistryNext
      BY <2>1, RegistryTypesStep
    <2>2. CASE UNCHANGED registryVars
      BY <2>2 DEF registryVars, recordVars, tableVars, commandVars, countVars,
                  RegistryTypes
    <2> QED BY <2>1, <2>2
  <1> QED
    BY <1>1, RegistryTypesInit, RegistryTypeParts, PTL DEF RegistrySpec

-----------------------------------------------------------------------------
(* The registry: the administrator's decision *)

Removal == command \in {"tracking", "removing"}

(* The last decision was to remove, and nothing has undone it. *)
Undisturbed == intent = "removed" /\ ~revived

(* A restart finds the source by such a record. *)
Lasting(status) == \E i \in Idents : status[i] \in {"active", "unresolved"}

(* What has no record is known nowhere, but for the row of an addition that
   comes to its record next. *)
RecordFirst ==
    \A i \in Idents : recordStatus[i] = "none" =>
        /\ i \notin activeSet /\ i \notin scanOf /\ i \notin loadRows
        /\ i \in channelRows => command = "recording" /\ commandFor = i

(* The rows of the backup have a record, in memory and on disk. *)
BackupRecorded ==
    \A i \in backupRows :
        recordStatus[i] # "none" /\ recordDisk.status[i] # "none"

(* After a restart nothing is under way, and an active record that is not
   scanned is one the restart read as it is. *)
FreshIsQuiet ==
    untouched => /\ command = "idle" /\ resolving = "idle" /\ scanOf = {}
             /\ \A i \in Idents :
                   recordStatus[i] = "active" => Saved \/ activeSet # {}

(* Rows are held only while the set is filled from them. *)
LoadsRead == loadRows # {} => command = "filling"

(* While a removal goes on, what it does not reach is no active source, and
   a row or a member of the set outside its reach is recorded as removed. *)
RemovalHolds ==
    /\ Removal => intent # "wanted"
    /\ Undisturbed /\ Removal =>
          \A i \in Idents \ Targets :
              /\ recordStatus[i] \in {"none", "alias", "removed"}
              /\ i \in channelRows \cup activeSet => recordStatus[i] = "removed"

(* After it there is no active record, and the rows and the set hold removed
   identifiers only; a load that began before fills an empty set. *)
RemovedForGood ==
    Undisturbed /\ ~Removal =>
        /\ \A i \in Idents : recordStatus[i] \in {"none", "alias", "removed"}
        /\ command # "recording" =>
              \A i \in channelRows \cup loadRows \cup activeSet :
                  recordStatus[i] = "removed"
        /\ command = "filling" => activeSet = {}

(* What is wanted and not stranded has a record that lasts, in the file or
   with a row that the present file cannot contradict. *)
WantedLasts ==
    intent = "wanted" /\ ~stranded /\ resolving = "idle" =>
        /\ Lasting(recordStatus)
        /\ Lasting(recordDisk.status) \/ (channelRows # {} /\ ~Saved)

(* So will be what is added, and what a resolution is about to load. *)
WillLast ==
    /\ ~stranded
    /\ \/ /\ resolving = "loading"
          /\ intent = "wanted" \/ command = "recording"
       \/ resolving = "idle" /\ command = "recording"
    => \/ channelRows # {}
       \/ Lasting(recordDisk.status) /\ Lasting(recordStatus)

(* The inductive invariant: DecisionHolds and what carries it from a command
   to the restart that must respect it. *)
RegistryInv ==
    /\ RegistryTypes
    /\ RecordFirst /\ BackupRecorded /\ FreshIsQuiet /\ LoadsRead
    /\ RemovalHolds /\ RemovedForGood
    /\ WantedLasts /\ WillLast
    /\ DecisionHolds

(* What is said of Saved and of Lasting, identifier by identifier. *)
LEMMA StatusesNow ==
    RegistryTypes =>
      /\ recordStatus = [i \in {"name", "num"} |-> recordStatus[i]]
      /\ recordDisk.status = [i \in {"name", "num"} |-> recordDisk.status[i]]
      /\ Saved <=> /\ recordStatus["name"] = recordDisk.status["name"]
                   /\ recordStatus["num"] = recordDisk.status["num"]
                   /\ recordNamed = recordDisk.named
  BY DEF Saved, RegistryTypes, Idents

LEMMA StatusesNext ==
    RegistryTypes' =>
      /\ recordStatus' = [i \in {"name", "num"} |-> recordStatus'[i]]
      /\ recordDisk'.status = [i \in {"name", "num"} |-> recordDisk'.status[i]]
      /\ Saved' <=> /\ recordStatus'["name"] = recordDisk'.status["name"]
                    /\ recordStatus'["num"] = recordDisk'.status["num"]
                    /\ recordNamed' = recordDisk'.named
  BY DEF Saved, RegistryTypes, Idents

LEMMA LastingMeans ==
    ASSUME NEW status
    PROVE  Lasting(status) <=> \/ status["name"] \in {"active", "unresolved"}
                               \/ status["num"] \in {"active", "unresolved"}
  BY DEF Lasting, Idents

LEMMA AddKeeps ==
    ASSUME RegistryInv, RegistryTypes',
           NEW i \in Idents, NEW named \in BOOLEAN, NEW ok \in BOOLEAN,
           add_channel_db(i, named, ok)
    PROVE  RegistryInv'
  <1> USE DEF recordVars, tableVars, commandVars, countVars, Idents,
              RegistryInv, RegistryTypes, add_channel_db, Inserted,
              resolve_source_channel_input
  <1>1. RecordFirst'
    BY DEF RecordFirst
  <1>2. FreshIsQuiet'
    BY DEF FreshIsQuiet
  <1>3. LoadsRead'
    BY DEF LoadsRead
  <1>4. RemovalHolds'
    BY DEF RemovalHolds, Removal
  <1>5. RemovedForGood'
    BY DEF RemovedForGood, Removal, Undisturbed
  <1>6. WantedLasts'
    BY DEF WantedLasts
  <1>7. WillLast'
    BY DEF WillLast
  <1>8. DecisionHolds'
    BY DEF DecisionHolds, WantedIsScanned, RemovedStays
  <1>9. BackupRecorded'
    BY DEF BackupRecorded
  <1> QED BY <1>1, <1>2, <1>3, <1>4, <1>5, <1>6, <1>7, <1>8, <1>9

LEMMA AddRecordsKeeps ==
    ASSUME RegistryInv, RegistryTypes', add_records
    PROVE  RegistryInv'
  <1> USE DEF recordVars, tableVars, commandVars, countVars, Idents,
              RegistryInv, RegistryTypes, add_records, Recorded
  <1>1. RecordFirst'
    BY DEF RecordFirst
  <1>2. BackupRecorded'
    BY DEF BackupRecorded
  <1>3. FreshIsQuiet'
    BY DEF FreshIsQuiet
  <1>4. LoadsRead'
    BY DEF LoadsRead
  <1>5. RemovalHolds'
    BY DEF RemovalHolds, Removal
  <1>6. RemovedForGood'
    BY DEF RemovedForGood, Undisturbed
  <1>7. WantedLasts'
    BY StatusesNext, LastingMeans DEF WantedLasts, WillLast
  <1>8. WillLast'
    BY LastingMeans DEF WillLast
  <1>9. DecisionHolds'
    BY DEF DecisionHolds, WantedIsScanned, RemovedStays, FreshIsQuiet
  <1> QED BY <1>1, <1>2, <1>3, <1>4, <1>5, <1>6, <1>7, <1>8, <1>9

LEMMA RemoveKeeps ==
    ASSUME RegistryInv, RegistryTypes', NEW i \in Idents, rm_channel_db(i)
    PROVE  RegistryInv'
  <1> USE DEF recordVars, tableVars, commandVars, countVars, Idents,
              RegistryInv, RegistryTypes, rm_channel_db, Live, Others, Gone,
              Retirements
  <1>1. RecordFirst'
    BY DEF RecordFirst
  <1>2. FreshIsQuiet'
    BY DEF FreshIsQuiet
  <1>3. LoadsRead'
    BY DEF LoadsRead
  <1>4. RemovalHolds'
    BY DEF RemovalHolds, RecordFirst, Undisturbed, Targets
  <1>5. RemovedForGood'
    BY DEF RemovedForGood, Removal
  <1>6. WantedLasts'
    BY DEF WantedLasts
  <1>7. WillLast'
    BY DEF WillLast
  <1>8. DecisionHolds'
    BY DEF DecisionHolds, WantedIsScanned, RemovedStays
  <1>9. BackupRecorded'
    BY DEF BackupRecorded
  <1> QED BY <1>1, <1>2, <1>3, <1>4, <1>5, <1>6, <1>7, <1>8, <1>9

LEMMA ClearKeeps ==
    ASSUME RegistryInv, RegistryTypes', clear_source_runtime_tracking
    PROVE  RegistryInv'
  <1> USE DEF recordVars, tableVars, commandVars, countVars, Idents,
              RegistryInv, RegistryTypes, clear_source_runtime_tracking,
              Targets
  <1>1. RecordFirst'
    BY DEF RecordFirst
  <1>2. FreshIsQuiet'
    BY DEF FreshIsQuiet
  <1>3. LoadsRead'
    BY DEF LoadsRead
  <1>4. RemovalHolds'
    BY DEF RemovalHolds, Removal, Undisturbed
  <1>5. RemovedForGood'
    BY DEF RemovedForGood, Removal
  <1>6. WillLast'
    BY DEF WillLast
  <1>7. DecisionHolds'
    BY DEF DecisionHolds, WantedIsScanned, RemovedStays, FreshIsQuiet
  <1>8. BackupRecorded' /\ WantedLasts'
    BY DEF BackupRecorded, WantedLasts, Saved
  <1> QED BY <1>1, <1>2, <1>3, <1>4, <1>5, <1>6, <1>7, <1>8

LEMMA RemoveStateKeeps ==
    ASSUME RegistryInv, RegistryTypes', remove_channel_state
    PROVE  RegistryInv'
  <1> USE DEF recordVars, tableVars, commandVars, countVars, Idents,
              RegistryInv, RegistryTypes, remove_channel_state, Targets
  <1>1. RecordFirst'
    BY DEF RecordFirst
  <1>2. BackupRecorded'
    BY DEF BackupRecorded
  <1>3. FreshIsQuiet'
    BY DEF FreshIsQuiet
  <1>4. LoadsRead'
    BY DEF LoadsRead
  <1>5. RemovalHolds'
    BY DEF RemovalHolds, Removal
  <1>6. RemovedForGood'
    BY DEF RemovedForGood, RemovalHolds, RecordFirst, LoadsRead, Undisturbed
  <1>7. WantedLasts'
    BY DEF WantedLasts, RemovalHolds, Removal
  <1>8. WillLast'
    BY DEF WillLast, RemovalHolds, Removal
  <1>9. DecisionHolds'
    BY DEF DecisionHolds, WantedIsScanned, RemovedStays
  <1> QED BY <1>1, <1>2, <1>3, <1>4, <1>5, <1>6, <1>7, <1>8, <1>9

LEMMA LoadReadsKeeps ==
    ASSUME RegistryInv, RegistryTypes', load_reads
    PROVE  RegistryInv'
  <1> USE DEF recordVars, tableVars, commandVars, countVars, Idents,
              RegistryInv, RegistryTypes, load_reads
  <1>1. RecordFirst'
    BY DEF RecordFirst
  <1>2. FreshIsQuiet'
    BY DEF FreshIsQuiet
  <1>3. LoadsRead'
    BY DEF LoadsRead
  <1>4. RemovalHolds'
    BY DEF RemovalHolds, Removal
  <1>5. RemovedForGood'
    BY DEF RemovedForGood, Removal, Undisturbed
  <1>6. WillLast'
    BY DEF WillLast
  <1>7. DecisionHolds'
    BY DEF DecisionHolds, WantedIsScanned, RemovedStays, FreshIsQuiet
  <1>8. BackupRecorded' /\ WantedLasts'
    BY DEF BackupRecorded, WantedLasts, Saved
  <1> QED BY <1>1, <1>2, <1>3, <1>4, <1>5, <1>6, <1>7, <1>8

LEMMA LoadFillsKeeps ==
    ASSUME RegistryInv, RegistryTypes', load_fills
    PROVE  RegistryInv'
  <1> USE DEF recordVars, tableVars, commandVars, countVars, Idents,
              RegistryInv, RegistryTypes, load_fills, Loaded, Kept,
              PurgedWrongly, Gone, Retirements
  <1>1. RecordFirst'
    BY DEF RecordFirst
  <1>2. BackupRecorded'
    BY DEF BackupRecorded
  <1>3. FreshIsQuiet'
    BY DEF FreshIsQuiet
  <1>4. LoadsRead'
    BY DEF LoadsRead
  <1>5. RemovalHolds'
    BY DEF RemovalHolds, Removal
  <1>6. RemovedForGood'
    BY DEF RemovedForGood, Removal, Undisturbed
  <1>7. WantedLasts'
    BY StatusesNext, LastingMeans DEF WantedLasts
  <1>8. WillLast'
    BY LastingMeans DEF WillLast
  <1>9. DecisionHolds'
    BY DEF DecisionHolds, WantedIsScanned, RemovedStays, RemovedForGood,
           Undisturbed, Removal
  <1> QED BY <1>1, <1>2, <1>3, <1>4, <1>5, <1>6, <1>7, <1>8, <1>9

LEMMA LoadFailsKeeps ==
    ASSUME RegistryInv, RegistryTypes', load_fails
    PROVE  RegistryInv'
  <1> USE DEF recordVars, tableVars, commandVars, countVars, Idents,
              RegistryInv, RegistryTypes, load_fails
  <1>1. RecordFirst'
    BY DEF RecordFirst
  <1>2. FreshIsQuiet'
    BY DEF FreshIsQuiet
  <1>3. LoadsRead'
    BY DEF LoadsRead
  <1>4. RemovalHolds'
    BY DEF RemovalHolds, Removal
  <1>5. RemovedForGood'
    BY DEF RemovedForGood, Removal, Undisturbed
  <1>6. WillLast'
    BY DEF WillLast
  <1>7. DecisionHolds'
    BY DEF DecisionHolds, WantedIsScanned, RemovedStays, RemovedForGood,
           Undisturbed, Removal
  <1>8. BackupRecorded' /\ WantedLasts'
    BY DEF BackupRecorded, WantedLasts, Saved
  <1> QED BY <1>1, <1>2, <1>3, <1>4, <1>5, <1>6, <1>7, <1>8

LEMMA ScanStartsLasts ==
    ASSUME RegistryInv, RegistryTypes', NEW i \in Idents, scan_starts(i)
    PROVE  WantedLasts' /\ WillLast'
  <1> USE DEF recordVars, tableVars, commandVars, countVars, Idents,
              RegistryInv
  <1>1. /\ Saved /\ UNCHANGED <<recordNamed, recordDisk, channelRows, command,
                                resolving, intent, stranded>>
    BY DEF scan_starts
  <1>2. \/ recordStatus' = recordStatus
        \/ recordStatus'[i] = "active"
    <2>1. PICK list \in ScanList :
            /\ i \in list
            /\ recordStatus' = [j \in Idents |->
                  IF j \in {k \in activeSet : Live(k)} \ list THEN "alias"
                  ELSE recordStatus[j]]
      BY DEF scan_starts
    <2>2. CASE {k \in activeSet : Live(k)} \subseteq list
      BY <2>1, <2>2 DEF RegistryTypes
    <2>3. CASE ~ {k \in activeSet : Live(k)} \subseteq list
      <3>1. Live(i) /\ i \in activeSet /\ recordStatus'[i] = recordStatus[i]
        BY <2>1, <2>3 DEF ScanList, RegistryTypes
      <3> QED
        BY <3>1 DEF Live, RecordFirst, RegistryTypes, RecordStatuses, Gone
    <2> QED BY <2>2, <2>3
  <1>3. Lasting(recordStatus) => Lasting(recordStatus')
    BY <1>2 DEF Lasting
  <1>4. WantedLasts'
    BY <1>1, <1>3, StatusesNow DEF WantedLasts, Lasting
  <1>5. WillLast'
    BY <1>1, <1>3 DEF WillLast
  <1> QED BY <1>4, <1>5

LEMMA ScanStartsKeeps ==
    ASSUME RegistryInv, RegistryTypes', NEW i \in Idents, scan_starts(i)
    PROVE  RegistryInv'
  <1> USE DEF recordVars, tableVars, commandVars, countVars, Idents,
              RegistryInv, RegistryTypes, scan_starts, ScanList, Live, Gone,
              Retirements
  <1>1. WantedLasts' /\ WillLast'
    BY ScanStartsLasts
  <1>2. RecordFirst'
    BY DEF RecordFirst
  <1>3. BackupRecorded'
    BY DEF BackupRecorded
  <1>4. FreshIsQuiet'
    BY DEF FreshIsQuiet
  <1>5. RemovalHolds'
    BY DEF RemovalHolds, Removal, Undisturbed, Targets
  <1>6. RemovedForGood'
    BY DEF RemovedForGood, Removal, Undisturbed
  <1>7. DecisionHolds'
    BY DEF DecisionHolds, WantedIsScanned, RemovedStays
  <1>8. LoadsRead'
    BY DEF LoadsRead
  <1> QED BY <1>1, <1>2, <1>3, <1>4, <1>5, <1>6, <1>7, <1>8

LEMMA ScanEndsKeeps ==
    ASSUME RegistryInv, RegistryTypes', scan_ends
    PROVE  RegistryInv'
  <1> USE DEF recordVars, tableVars, commandVars, countVars, Idents,
              RegistryInv, RegistryTypes, scan_ends
  <1>1. RecordFirst'
    BY DEF RecordFirst
  <1>2. FreshIsQuiet'
    BY DEF FreshIsQuiet
  <1>3. BackupRecorded' /\ LoadsRead' /\ RemovalHolds' /\ RemovedForGood'
        /\ WantedLasts' /\ WillLast' /\ DecisionHolds'
    BY DEF BackupRecorded, LoadsRead, RemovalHolds, Removal, Undisturbed,
           Targets, RemovedForGood, WantedLasts, Saved, WillLast,
           DecisionHolds, WantedIsScanned, RemovedStays
  <1> QED BY <1>1, <1>2, <1>3

LEMMA HealthKeeps ==
    ASSUME RegistryInv, RegistryTypes', health_ok
    PROVE  RegistryInv'
  <1> USE DEF recordVars, tableVars, commandVars, countVars, Idents,
              RegistryInv, RegistryTypes, health_ok, Recorded, NoteRevival,
              Targets
  <1>1. RecordFirst'
    BY DEF RecordFirst
  <1>2. BackupRecorded'
    BY DEF BackupRecorded
  <1>3. FreshIsQuiet'
    BY DEF FreshIsQuiet
  <1>4. RemovalHolds'
    BY DEF RemovalHolds, Removal, Undisturbed
  <1>5. RemovedForGood'
    BY DEF RemovedForGood, Removal, Undisturbed
  <1>6. WantedLasts'
    BY StatusesNext, LastingMeans DEF WantedLasts
  <1>7. WillLast'
    BY LastingMeans DEF WillLast
  <1>8. DecisionHolds'
    BY DEF DecisionHolds, WantedIsScanned, RemovedStays
  <1>9. LoadsRead'
    BY DEF LoadsRead
  <1> QED BY <1>1, <1>2, <1>3, <1>4, <1>5, <1>6, <1>7, <1>8, <1>9

LEMMA PeerInvalidCases ==
    ASSUME RegistryInv, RegistryTypes', NEW i \in Idents,
           mark_peer_invalid_unresolved(i)
    PROVE  RecordFirst' /\ RemovalHolds' /\ WantedLasts'
  <1> USE DEF recordVars, tableVars, commandVars, countVars, Idents,
              RegistryInv
  <1>1. /\ scanOf = {i} /\ resolving = "idle"
        /\ scanOf' = {}
        /\ UNCHANGED <<recordNamed, recordDisk, command, commandFor, loadRows,
                       resolving, intent>>
    BY DEF mark_peer_invalid_unresolved, Erring
  <1>2. CASE UNCHANGED <<activeSet, channelRows, recordStatus, stranded,
                         revived>>
    <2>1. RemovalHolds'
      BY <1>1, <1>2 DEF RemovalHolds, Removal, Undisturbed, Targets
    <2>2. WantedLasts'
      BY <1>1, <1>2, StatusesNow, StatusesNext DEF WantedLasts
    <2>3. RecordFirst'
      BY <1>1, <1>2 DEF RecordFirst
    <2> QED BY <2>1, <2>2, <2>3
  <1>3. CASE Retired(i, "unresolved") /\ NoteRevival(i)
    <2>1. /\ recordStatus' = [recordStatus EXCEPT ![i] = "unresolved"]
          /\ activeSet' = activeSet \ {i} /\ channelRows' = channelRows \ {i}
          /\ stranded' = (stranded \/ command # "idle" \/ ~Saved)
      BY <1>3 DEF Retired, Recorded
    <2>2. RemovalHolds'
      BY <1>1, <1>3, <2>1
         DEF NoteRevival, RemovalHolds, Removal, Undisturbed, Targets,
             RegistryTypes
    <2>3. Lasting(recordStatus')
      BY <2>1 DEF Lasting, RegistryTypes
    <2>4. WantedLasts'
      BY <1>1, <2>1, <2>3, StatusesNow DEF WantedLasts, Lasting
    <2>5. RecordFirst'
      BY <1>1, <2>1 DEF RecordFirst, RegistryTypes
    <2> QED BY <2>2, <2>4, <2>5
  <1> QED BY <1>2, <1>3 DEF mark_peer_invalid_unresolved

LEMMA PeerInvalidKeeps ==
    ASSUME RegistryInv, RegistryTypes', NEW i \in Idents,
           mark_peer_invalid_unresolved(i)
    PROVE  RegistryInv'
  <1> USE DEF recordVars, tableVars, commandVars, countVars, Idents,
              RegistryInv, RegistryTypes, mark_peer_invalid_unresolved, Erring,
              Retired, Recorded, NoteRevival, Targets
  <1>1. RecordFirst' /\ RemovalHolds' /\ WantedLasts'
    BY PeerInvalidCases
  <1>2. BackupRecorded'
    BY DEF BackupRecorded
  <1>3. FreshIsQuiet'
    BY DEF FreshIsQuiet
  <1>4. RemovedForGood'
    BY DEF RemovedForGood, Removal, Undisturbed
  <1>5. WillLast'
    BY DEF WillLast
  <1>6. DecisionHolds'
    BY DEF DecisionHolds, WantedIsScanned, RemovedStays, FreshIsQuiet
  <1>7. LoadsRead'
    BY DEF LoadsRead
  <1> QED BY <1>1, <1>2, <1>3, <1>4, <1>5, <1>6, <1>7

LEMMA QuarantineKeeps ==
    ASSUME RegistryInv, RegistryTypes', NEW i \in Idents, quarantine_channel(i)
    PROVE  RegistryInv'
  <1> USE DEF recordVars, tableVars, commandVars, countVars, Idents,
              RegistryInv, RegistryTypes, quarantine_channel, Erring, Recorded,
              NoteRevival, Targets
  <1>1. RecordFirst'
    BY DEF RecordFirst
  <1>2. BackupRecorded'
    BY DEF BackupRecorded
  <1>3. FreshIsQuiet'
    BY DEF FreshIsQuiet
  <1>4. RemovalHolds'
    BY DEF RemovalHolds, Removal, Undisturbed
  <1>5. RemovedForGood'
    BY DEF RemovedForGood, Removal, Undisturbed
  <1>6. WantedLasts'
    BY StatusesNext, LastingMeans DEF WantedLasts
  <1>7. WillLast'
    BY LastingMeans DEF WillLast
  <1>8. DecisionHolds'
    BY DEF DecisionHolds, WantedIsScanned, RemovedStays
  <1>9. LoadsRead'
    BY DEF LoadsRead
  <1> QED BY <1>1, <1>2, <1>3, <1>4, <1>5, <1>6, <1>7, <1>8, <1>9

LEMMA DeletedCases ==
    ASSUME RegistryInv, RegistryTypes', NEW i \in Idents,
           maybe_retire_deleted_channel(i)
    PROVE  RecordFirst' /\ RemovalHolds' /\ WantedLasts' /\ WillLast'
  <1> USE DEF recordVars, tableVars, commandVars, countVars, Idents,
              RegistryInv
  <1>1. /\ scanOf = {i} /\ resolving = "idle"
        /\ scanOf' = {}
        /\ UNCHANGED <<recordNamed, recordDisk, command, commandFor, loadRows,
                       resolving>>
    BY DEF maybe_retire_deleted_channel, Erring
  <1>2. CASE Retired(i, "expired") /\ intent' = "unclear"
    <2>1. stranded' = (stranded \/ command # "idle" \/ ~Saved)
      BY <1>2 DEF Retired
    <2>2. RemovalHolds' /\ WantedLasts' /\ WillLast'
      BY <1>1, <1>2, <2>1 DEF RemovalHolds, Undisturbed, WantedLasts, WillLast
    <2>3. RecordFirst'
      BY <1>1, <1>2 DEF Retired, Recorded, RecordFirst, RegistryTypes
    <2> QED BY <2>2, <2>3
  <1>3. CASE /\ activeSet' = activeSet \cup {i}
             /\ Recorded(i, "active")
             /\ NoteRevival(i)
             /\ UNCHANGED <<channelRows, intent, stranded>>
    <2>1. recordStatus' = [recordStatus EXCEPT ![i] = "active"]
      BY <1>3 DEF Recorded
    <2>2. RemovalHolds'
      BY <1>1, <1>3, <2>1
         DEF NoteRevival, RemovalHolds, Removal, Undisturbed, Targets,
             RegistryTypes
    <2>3. Lasting(recordStatus')
      BY <2>1 DEF Lasting, RegistryTypes
    <2>4. WantedLasts'
      BY <1>1, <1>3, <2>3, StatusesNow, StatusesNext
         DEF WantedLasts, Lasting
    <2>5. WillLast'
      BY <1>1, <1>3, <2>3 DEF WillLast
    <2>6. RecordFirst'
      BY <1>1, <1>3, <2>1 DEF RecordFirst, RegistryTypes
    <2> QED BY <2>2, <2>4, <2>5, <2>6
  <1> QED BY <1>2, <1>3 DEF maybe_retire_deleted_channel

LEMMA DeletedKeeps ==
    ASSUME RegistryInv, RegistryTypes', NEW i \in Idents,
           maybe_retire_deleted_channel(i)
    PROVE  RegistryInv'
  <1> USE DEF recordVars, tableVars, commandVars, countVars, Idents,
              RegistryInv, RegistryTypes, maybe_retire_deleted_channel, Erring,
              Retired, Recorded, NoteRevival, Targets
  <1>1. RecordFirst' /\ RemovalHolds' /\ WantedLasts' /\ WillLast'
    BY DeletedCases
  <1>2. BackupRecorded'
    BY DEF BackupRecorded
  <1>3. FreshIsQuiet'
    BY DEF FreshIsQuiet
  <1>4. RemovedForGood'
    BY DEF RemovedForGood, Removal, Undisturbed
  <1>5. DecisionHolds'
    BY DEF DecisionHolds, WantedIsScanned, RemovedStays
  <1>6. LoadsRead'
    BY DEF LoadsRead
  <1> QED BY <1>1, <1>2, <1>3, <1>4, <1>5, <1>6

LEMMA ResolveBeginsCases ==
    ASSUME RegistryInv, RegistryTypes', NEW ok \in BOOLEAN, resolve_begins(ok)
    PROVE  RecordFirst' /\ RemovalHolds'
  <1> USE DEF recordVars, tableVars, commandVars, countVars, Idents,
              RegistryInv
  <1>1. /\ activeSet' = activeSet \ (scanOf \ {"num"})
        /\ scanOf' \subseteq scanOf
        /\ UNCHANGED <<recordNamed, command, commandFor, intent, loadRows>>
    BY DEF resolve_begins
  <1>2. CASE UNCHANGED <<channelRows, recordStatus, revived>>
    BY <1>1, <1>2
       DEF RecordFirst, RemovalHolds, Removal, Undisturbed, Targets
  <1>3. CASE ok
    <2>1. /\ channelRows' = channelRows \ (scanOf \ {"num"})
          /\ recordStatus' = [j \in Idents |->
                IF j \in scanOf \ {"num"} THEN "alias" ELSE recordStatus[j]]
          /\ NoteRevival("num")
      BY <1>3 DEF resolve_begins
    <2>2. \A j \in Idents :
             \/ recordStatus'[j] = recordStatus[j]
             \/ /\ recordStatus'[j] = "alias"
                /\ j \notin channelRows' \cup activeSet'
      BY <1>1, <2>1
    <2>3. /\ channelRows' \subseteq channelRows
          /\ activeSet' \subseteq activeSet
      BY <1>1, <2>1
    <2>4. Undisturbed' => Undisturbed
      BY <1>1, <2>1 DEF Undisturbed, NoteRevival, RegistryTypes
    <2>5. RecordFirst'
      BY <1>1, <2>2, <2>3 DEF RecordFirst
    <2>6. RemovalHolds'
      BY <1>1, <2>2, <2>3, <2>4 DEF RemovalHolds, Removal, Targets
    <2> QED BY <2>5, <2>6
  <1> QED BY <1>2, <1>3 DEF resolve_begins

LEMMA ResolveBeginsKeeps ==
    ASSUME RegistryInv, RegistryTypes', NEW ok \in BOOLEAN, resolve_begins(ok)
    PROVE  RegistryInv'
  <1> USE DEF recordVars, tableVars, commandVars, countVars, Idents,
              RegistryInv, RegistryTypes, resolve_begins, NoteRevival, Targets
  <1>1. RecordFirst' /\ RemovalHolds'
    BY ResolveBeginsCases
  <1>2. BackupRecorded'
    BY DEF BackupRecorded
  <1>3. FreshIsQuiet'
    BY DEF FreshIsQuiet
  <1>4. RemovedForGood'
    BY DEF RemovedForGood, Removal, Undisturbed
  <1>5. WantedLasts'
    BY StatusesNext DEF WantedLasts
  <1>6. WillLast'
    BY DEF WillLast
  <1>7. DecisionHolds'
    BY DEF DecisionHolds, WantedIsScanned, RemovedStays, FreshIsQuiet
  <1>8. LoadsRead'
    BY DEF LoadsRead
  <1> QED BY <1>1, <1>2, <1>3, <1>4, <1>5, <1>6, <1>7, <1>8

LEMMA ResolveAddsCases ==
    ASSUME RegistryInv, RegistryTypes', NEW ok \in BOOLEAN, resolve_adds(ok)
    PROVE  RecordFirst' /\ BackupRecorded' /\ WillLast'
  <1>1. UNCHANGED <<recordDisk, backupRows, activeSet, command, commandFor,
                    loadRows, scanOf>>
    BY DEF resolve_adds, commandVars
  <1>2. CASE ok
    <2>1. /\ channelRows' = channelRows \cup {"num"}
          /\ recordStatus' = [recordStatus EXCEPT !["num"] = "active"]
      BY <1>2 DEF resolve_adds, Inserted, Recorded
    <2>2. RecordFirst'
      BY <1>1, <2>1 DEF RegistryInv, RegistryTypes, RecordFirst
    <2>3. BackupRecorded'
      BY <1>1, <2>1 DEF RegistryInv, RegistryTypes, BackupRecorded
    <2>4. WillLast'
      BY <2>1 DEF WillLast
    <2> QED BY <2>2, <2>3, <2>4
  <1>3. CASE ~ok
    <2>1. channelRows' = channelRows /\ recordStatus' = recordStatus
          /\ stranded' = TRUE
      BY <1>3 DEF resolve_adds, recordVars
    <2> QED
      BY <1>1, <2>1 DEF RegistryInv, RecordFirst, BackupRecorded, WillLast
  <1> QED BY <1>2, <1>3

LEMMA ResolveAddsKeeps ==
    ASSUME RegistryInv, RegistryTypes', NEW ok \in BOOLEAN, resolve_adds(ok)
    PROVE  RegistryInv'
  <1> USE DEF recordVars, tableVars, commandVars, countVars, Idents,
              RegistryInv, RegistryTypes, resolve_adds, Inserted, Recorded,
              NoteRevival, Targets
  <1>1. RecordFirst' /\ BackupRecorded' /\ WillLast'
    BY ResolveAddsCases
  <1>2. FreshIsQuiet'
    BY DEF FreshIsQuiet
  <1>3. RemovalHolds'
    BY DEF RemovalHolds, Removal, Undisturbed
  <1>4. RemovedForGood'
    BY DEF RemovedForGood, Removal, Undisturbed
  <1>5. WantedLasts'
    BY DEF WantedLasts
  <1>6. DecisionHolds'
    BY DEF DecisionHolds, WantedIsScanned, RemovedStays
  <1>7. LoadsRead'
    BY DEF LoadsRead
  <1> QED BY <1>1, <1>2, <1>3, <1>4, <1>5, <1>6, <1>7

LEMMA ResolveLoadsKeeps ==
    ASSUME RegistryInv, RegistryTypes', resolve_loads
    PROVE  RegistryInv'
  <1> USE DEF recordVars, tableVars, commandVars, countVars, Idents,
              RegistryInv, RegistryTypes, resolve_loads, Loaded, Kept,
              PurgedWrongly, NoteRevival, Targets, Gone, Retirements
  <1>1. RecordFirst'
    BY DEF RecordFirst
  <1>2. BackupRecorded'
    BY DEF BackupRecorded
  <1>3. FreshIsQuiet'
    BY DEF FreshIsQuiet
  <1>4. RemovalHolds'
    BY DEF RemovalHolds, Removal
  <1>5. RemovedForGood'
    BY DEF RemovedForGood, Removal, Undisturbed
  <1>6. WantedLasts'
    BY StatusesNext, LastingMeans DEF WantedLasts, WillLast
  <1>7. WillLast'
    BY LastingMeans DEF WillLast
  <1>8. DecisionHolds'
    BY DEF DecisionHolds, WantedIsScanned, RemovedStays, FreshIsQuiet
  <1>9. LoadsRead'
    BY DEF LoadsRead
  <1> QED BY <1>1, <1>2, <1>3, <1>4, <1>5, <1>6, <1>7, <1>8, <1>9

LEMMA ResolveFailsKeeps ==
    ASSUME RegistryInv, RegistryTypes', resolve_fails
    PROVE  RegistryInv'
  <1> USE DEF recordVars, tableVars, commandVars, countVars, Idents,
              RegistryInv, RegistryTypes, resolve_fails
  <1>1. RecordFirst'
    BY DEF RecordFirst
  <1>2. FreshIsQuiet'
    BY DEF FreshIsQuiet
  <1>3. WantedLasts'
    BY DEF WantedLasts
  <1>4. WillLast'
    BY DEF WillLast
  <1>5. DecisionHolds'
    BY DEF DecisionHolds, WantedIsScanned, RemovedStays, RemovedForGood,
           Undisturbed, Removal
  <1>6. BackupRecorded' /\ LoadsRead' /\ RemovalHolds' /\ RemovedForGood'
    BY DEF BackupRecorded, LoadsRead, RemovalHolds, Removal, Undisturbed,
           Targets, RemovedForGood
  <1> QED BY <1>1, <1>2, <1>3, <1>4, <1>5, <1>6

LEMMA JsonSavedKeeps ==
    ASSUME RegistryInv, RegistryTypes', json_saved
    PROVE  RegistryInv'
  <1> USE DEF recordVars, tableVars, commandVars, countVars, Idents,
              RegistryInv, RegistryTypes, json_saved, Saved
  <1>1. BackupRecorded'
    BY DEF BackupRecorded
  <1>2. FreshIsQuiet'
    BY DEF FreshIsQuiet
  <1>3. WantedLasts'
    BY LastingMeans DEF WantedLasts
  <1>4. WillLast'
    BY LastingMeans DEF WillLast
  <1>5. DecisionHolds'
    BY DEF DecisionHolds, WantedIsScanned, RemovedStays, FreshIsQuiet
  <1>6. RecordFirst' /\ LoadsRead' /\ RemovalHolds' /\ RemovedForGood'
    BY DEF RecordFirst, LoadsRead, RemovalHolds, Removal, Undisturbed, Targets,
           RemovedForGood
  <1> QED BY <1>1, <1>2, <1>3, <1>4, <1>5, <1>6

LEMMA BackupTakenKeeps ==
    ASSUME RegistryInv, RegistryTypes', backup_taken
    PROVE  RegistryInv'
  <1> USE DEF recordVars, tableVars, commandVars, countVars, Idents,
              RegistryInv, RegistryTypes, backup_taken
  <1>1. BackupRecorded'
    BY StatusesNow DEF BackupRecorded, RecordFirst
  <1>2. RecordFirst' /\ FreshIsQuiet' /\ LoadsRead' /\ RemovalHolds'
        /\ RemovedForGood' /\ WantedLasts' /\ WillLast' /\ DecisionHolds'
    BY DEF RecordFirst, FreshIsQuiet, Saved, LoadsRead, RemovalHolds, Removal,
           Undisturbed, Targets, RemovedForGood, WantedLasts, WillLast,
           DecisionHolds, WantedIsScanned, RemovedStays
  <1> QED BY <1>1, <1>2

LEMMA BootKeeps ==
    ASSUME RegistryInv, RegistryTypes',
           NEW rows \in {channelRows, backupRows, {}}, registry_boot(rows)
    PROVE  RegistryInv'
  <1> DEFINE again == Reactivated(recordDisk)
             filled == reconcile_active_json_sources_to_db(rows, recordDisk)
                       \cup again
             named == recordDisk.named \/ (rowNamed /\ "num" \in filled)
             before == [i \in Idents |->
                          IF i \in again THEN "active"
                          ELSE recordDisk.status[i]]
             loaded(kept) == {i \in kept : before[i] \notin Gone}
             result(kept) ==
               /\ channelRows' = kept
               /\ activeSet' = loaded(kept)
               /\ recordStatus' = [i \in Idents |->
                     IF i \in loaded(kept) THEN "active"
                     ELSE IF i \in filled \ kept THEN "alias"
                     ELSE before[i]]
               /\ recordNamed' = named
               /\ rowNamed' = (named /\ "num" \in kept)
  <1>1. PICK kept \in IF filled = Idents /\ named
                      THEN {{"name"}, {"num"}} ELSE {filled} : result(kept)
    BY Zenon DEF registry_boot
  <1>2. /\ rows = channelRows \/ Saved
        /\ stranded' = (stranded \/ resolving # "idle" \/ Hidden')
        /\ revived' = (\/ revived
                       \/ /\ intent = "removed"
                          /\ \/ ~Saved \/ command # "idle"
                             \/ \E i \in activeSet' :
                                   recordStatus[i] = "alias")
        /\ command' = "idle" /\ loadRows' = {} /\ scanOf' = {}
        /\ resolving' = "idle" /\ untouched' = TRUE
        /\ recordDisk' = recordDisk /\ backupRows' = backupRows
        /\ intent' = intent
    BY Zenon DEF registry_boot
  <1>3. rows \subseteq Idents
    BY DEF RegistryInv, RegistryTypes
  <1>4. /\ rows \subseteq filled /\ filled \subseteq Idents
        /\ \A i \in Idents : recordDisk.status[i] = "unresolved" => i \in filled
        /\ \A i \in Idents : recordDisk.status[i] = "active" =>
              \/ i \in filled
              \/ recordDisk.named /\ rows # {}
              \/ recordDisk.named /\ "num" \in filled
        /\ (\A i \in Idents :
               recordDisk.status[i] \notin {"active", "unresolved"}) =>
              filled = rows
    BY <1>3 DEF reconcile_active_json_sources_to_db, Reactivated, Idents
  <1>5. \A i \in Idents :
           before[i] = IF recordDisk.status[i] = "unresolved" THEN "active"
                       ELSE recordDisk.status[i]
    BY DEF Reactivated
  <1>6. recordDisk.named => named
    OBVIOUS
  <1> HIDE DEF again, filled, named, before
  <1>7. kept \subseteq filled /\ (filled # {} => kept # {})
    BY <1>1 DEF Idents
  <1>8. /\ channelRows' = kept /\ recordNamed' = named
        /\ activeSet' = {i \in kept : before[i] \notin Gone}
        /\ \A i \in Idents : recordStatus'[i] =
              IF i \in kept /\ before[i] \notin Gone THEN "active"
              ELSE IF i \in filled \ kept THEN "alias" ELSE before[i]
    BY <1>1
  <1> HIDE DEF loaded, result
  <1>9. \A i \in Idents : recordStatus'[i] = "none" => i \notin filled
    BY <1>8 DEF Gone, Retirements
  <1>10. RecordFirst'
    BY <1>2, <1>7, <1>8, <1>9 DEF RecordFirst
  <1>11. BackupRecorded'
    BY <1>2, <1>5, <1>8 DEF RegistryInv, RegistryTypes, BackupRecorded
  <1>12. ASSUME NEW i \in Idents, recordStatus'[i] = "active", activeSet' = {}
         PROVE  Saved'
    <2>1. \A j \in Idents : j \in kept => before[j] \in Gone
      BY <1>8, <1>12
    <2>2. i \notin filled /\ recordDisk.status[i] = "active"
      BY <1>4, <1>5, <1>8, <1>12, <2>1 DEF Gone, Retirements
    <2>3. \A j \in Idents : j \in kept => recordDisk.status[j] \in Gone
      BY <1>5, <2>1 DEF Gone, Retirements
    <2>4. kept = filled /\ kept # {}
      BY <1>1, <1>4, <1>7, <2>2
    <2>5. recordDisk.named
      BY <1>4, <2>2
    <2>6. \A j \in Idents : recordStatus'[j] = recordDisk.status[j]
      BY <1>4, <1>5, <1>8, <2>1, <2>4 DEF Gone, Retirements
    <2>7. recordNamed' = recordDisk.named
      BY <1>6, <1>8, <2>5 DEF RegistryInv, RegistryTypes
    <2> QED
      BY <1>2, <2>6, <2>7, StatusesNext DEF Idents
  <1>13. FreshIsQuiet'
    BY <1>2, <1>12 DEF FreshIsQuiet
  <1>14. LoadsRead' /\ RemovalHolds' /\ WillLast'
    BY <1>2 DEF LoadsRead, RemovalHolds, WillLast, Removal
  <1>15. ASSUME Undisturbed'
         PROVE  /\ \A i \in Idents :
                      recordStatus'[i] \in {"none", "alias", "removed"}
                /\ activeSet' = {}
                /\ \A i \in channelRows' : recordStatus'[i] = "removed"
    <2>1. /\ Undisturbed /\ Saved /\ command = "idle"
          /\ \A i \in activeSet' : recordStatus[i] # "alias"
      BY <1>2, <1>15 DEF Undisturbed, RegistryTypes
    <2>2. /\ \A i \in Idents : recordStatus[i] \in {"none", "alias", "removed"}
          /\ \A i \in channelRows : recordStatus[i] = "removed"
      BY <2>1 DEF RegistryInv, RemovedForGood, Removal
    <2>3. \A i \in Idents : before[i] = recordStatus[i]
      BY <1>5, <2>1, <2>2, StatusesNow DEF RegistryInv, Idents
    <2>4. filled = rows
      BY <1>4, <2>1, <2>2, StatusesNow DEF RegistryInv, Idents
    <2>5. \A i \in rows : recordStatus[i] # "none"
      BY <2>2 DEF RegistryInv, BackupRecorded
    <2>6. \A i \in kept : before[i] \in Gone
      BY <1>3, <1>7, <1>8, <2>1, <2>2, <2>3, <2>4, <2>5
         DEF Gone, Retirements
    <2> QED
      BY <1>3, <1>7, <1>8, <2>2, <2>3, <2>4, <2>6 DEF Gone, Retirements
  <1>16. RemovedForGood'
    BY <1>2, <1>15 DEF RemovedForGood
  <1>17. ASSUME intent' = "wanted", ~stranded'
         PROVE  /\ activeSet' # {}
                /\ Lasting(recordStatus')
                /\ Lasting(recordDisk'.status) \/ (channelRows' # {} /\ ~Saved')
    <2>1. /\ intent = "wanted" /\ ~stranded /\ resolving = "idle"
          /\ \A i \in kept : recordStatus'[i] \notin Gone
      BY <1>2, <1>8, <1>17 DEF Hidden
    <2>2. Lasting(recordDisk.status) \/ (channelRows # {} /\ ~Saved)
      BY <2>1 DEF RegistryInv, WantedLasts
    <2>3. filled # {}
      BY <1>2, <1>4, <2>2 DEF Lasting
    <2>4. PICK i \in kept : i \in Idents
      BY <1>4, <1>7, <2>3
    <2>5. i \in activeSet' /\ recordStatus'[i] = "active"
      BY <1>8, <2>1, <2>4
    <2>6. Lasting(recordStatus')
      BY <2>4, <2>5 DEF Lasting
    <2>7. Saved' => Lasting(recordDisk'.status)
      BY <2>6 DEF Saved
    <2> QED BY <1>8, <2>4, <2>5, <2>6, <2>7
  <1>18. WantedLasts'
    BY <1>17 DEF WantedLasts
  <1>19. DecisionHolds'
    BY <1>15, <1>17
       DEF DecisionHolds, WantedIsScanned, RemovedStays, Undisturbed
  <1> QED
    BY <1>10, <1>11, <1>13, <1>14, <1>16, <1>18, <1>19 DEF RegistryInv

LEMMA RegistryInvInit == RegistryInit => RegistryInv
  <1> SUFFICES ASSUME RegistryInit PROVE RegistryInv
    OBVIOUS
  <1>1. RegistryTypes
    BY RegistryTypesInit
  <1>2. /\ RecordFirst /\ BackupRecorded /\ FreshIsQuiet /\ LoadsRead
        /\ RemovalHolds /\ RemovedForGood
    BY DEF RegistryInit, RecordFirst, BackupRecorded, FreshIsQuiet, LoadsRead,
           RemovalHolds, RemovedForGood, Removal
  <1>3. WantedLasts /\ WillLast /\ DecisionHolds
    BY DEF RegistryInit, WantedLasts, WillLast, DecisionHolds,
           WantedIsScanned, RemovedStays
  <1> QED BY <1>1, <1>2, <1>3 DEF RegistryInv

LEMMA RegistryInvStep ==
    ASSUME RegistryInv, RegistryTypes', RegistryNext
    PROVE  RegistryInv'
  BY AddKeeps, AddRecordsKeeps, RemoveKeeps, ClearKeeps, RemoveStateKeeps,
     LoadReadsKeeps, LoadFillsKeeps, LoadFailsKeeps, ScanStartsKeeps,
     ScanEndsKeeps, HealthKeeps, PeerInvalidKeeps, QuarantineKeeps,
     DeletedKeeps, ResolveBeginsKeeps, ResolveAddsKeeps, ResolveLoadsKeeps,
     ResolveFailsKeeps, JsonSavedKeeps, BackupTakenKeeps, BootKeeps
  DEF RegistryNext

LEMMA RegistryInvStutter ==
    ASSUME RegistryInv, UNCHANGED registryVars
    PROVE  RegistryInv'
  <1> USE DEF registryVars, recordVars, tableVars, commandVars, countVars
  <1>1. /\ RegistryTypes' /\ RecordFirst' /\ BackupRecorded' /\ FreshIsQuiet'
        /\ LoadsRead'
    BY DEF RegistryInv, RegistryTypes, RecordFirst, BackupRecorded,
           FreshIsQuiet, LoadsRead, Saved
  <1>2. RemovalHolds' /\ RemovedForGood'
    BY DEF RegistryInv, RemovalHolds, RemovedForGood, Removal, Undisturbed,
           Targets
  <1>3. WantedLasts' /\ WillLast' /\ DecisionHolds'
    BY DEF RegistryInv, WantedLasts, WillLast, DecisionHolds, WantedIsScanned,
           RemovedStays, Lasting, Saved
  <1> QED BY <1>1, <1>2, <1>3 DEF RegistryInv

(* What the administrator decided last holds, whatever the order of commands,
   scans, retirements, resolutions, saves and restarts, and for any number of
   them: a source that was added is scanned after a restart, one that was
   removed is not scanned again, except in the cases DecisionHolds names. *)
THEOREM DecisionsHold == RegistrySpec => []DecisionHolds
  <1>1. RegistryInv /\ [RegistryNext]_registryVars => RegistryInv'
    <2>1. RegistryInv /\ RegistryNext => RegistryInv'
      BY RegistryTypesStep, RegistryInvStep DEF RegistryInv
    <2> QED BY <2>1, RegistryInvStutter
  <1>2. RegistryInv => DecisionHolds
    BY DEF RegistryInv
  <1> QED BY <1>1, <1>2, RegistryInvInit, PTL DEF RegistrySpec

-----------------------------------------------------------------------------
(* The composition *)

(* Each part of a behaviour of Sources is a behaviour of that part. *)
LEMMA SourcesPartsBehave ==
    SourcesSpec => RegistrySpec /\ CursorsSpec /\ Spec
  <1>1. SourcesInit => RegistryInit /\ CursorsInit /\ Init
    BY DEF SourcesInit
  <1>2. [SourcesNext]_sourcesVars
            => [RegistryNext]_registryVars /\ [CursorsNext]_cursorVars
               /\ [Next]_vars
    BY DEF SourcesNext, sourcesVars, deliveryVars
  <1> QED
    BY <1>1, <1>2, PTL DEF SourcesSpec, RegistrySpec, CursorsSpec, Spec

(* In every state of the composition the part that is explored is of its
   type. *)
THEOREM SourcesAreTyped == SourcesSpec => []SourcesTypeOK
  <1>1. RegistryTypeOK /\ CursorsTypeOK /\ TypeOK => SourcesTypeOK
    BY DEF SourcesTypeOK
  <1> QED
    BY <1>1, SourcesPartsBehave, RegistryIsTyped, CursorsAreTyped,
       TypeCorrect, PTL

(* What the parts promise holds of the composition too, which the run
   explores: decisions hold, cursors pass nothing, what is recorded as posted
   is in the target, and a message is posted twice only after a lapse. *)
THEOREM SourcesHold ==
    ASSUME AlbumConsecutive
    PROVE  SourcesSpec =>
               /\ []DecisionHolds /\ []CursorsCover
               /\ []PostedIsInTarget /\ []OnlyLapsesHurt
  BY SourcesPartsBehave, DecisionsHold, CursorsPassNothing, PostedPresent,
     OnlyLapsesRepeat, PTL
=============================================================================
