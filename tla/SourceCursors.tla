--------------------------- MODULE SourceCursors ----------------------------
(***************************************************************************)
(* One source channel and the producers that read it: the live handlers,   *)
(* the task that flushes their album buffer, the guard scan behind a       *)
(* cursor and the historical backfill.  Each marks a media in the          *)
(* processing cache, awaits, and admits it; whoever meets a marked media   *)
(* skips it.  The history variable "passedOver" holds what is passed over  *)
(* on purpose, by a producer that was cut off, or by the last pop of the   *)
(* album buffer.                                                           *)
(***************************************************************************)
EXTENDS Naturals, FiniteSets, FiniteSetsExt

CONSTANTS
    MaxId,                          \* bound on the messages of the channel
    AlbumIds,                       \* the messages of one media group
    SOURCE_GUARD_LOOKBACK,
    SOURCE_GUARD_CATCHUP_LIMIT,
    HISTORICAL_BACKFILL_BATCH_IDS,
    MaxUpdateLag,                   \* bound: an update comes among so many
    MaxScanFaults                   \* bound on errors and timeouts

Ids == 1..MaxId

ASSUME CursorAssumption ==
    /\ MaxId \in Nat
    /\ AlbumIds \subseteq Ids
    /\ SOURCE_GUARD_LOOKBACK \in Nat \ {0}
    /\ SOURCE_GUARD_CATCHUP_LIMIT \in Nat \ {0}
    /\ HISTORICAL_BACKFILL_BATCH_IDS \in Nat \ {0}
    /\ MaxUpdateLag \in Nat
    /\ MaxScanFaults \in Nat

Scanners == {"live", "album", "guard", "backfill"}

VARIABLES
    published,         \* id of the newest message
    marked,         \* processing_cache, without the media admitted since
    admitted,       \* media with a queue record or in the target
    albumBuffer,    \* auto_album_buffer
    flushing,       \* auto_album_tasks: "none", or the await of its task
    groupCache,     \* MEDIA_GROUP_FETCH_CACHE, empty when it has expired
    held,           \* per scanner: marked, enqueue_media_job not finished
    left,           \* per scanner: listed, not yet looked at
    scanning,       \* scanners in the middle of a pass
    metAlbum,       \* scanners that met the album in this pass
    guardCursor,    \* last_seen_message_id
    maxSeen, processedMax, unitMax, \* local to the guard scan
    behindWindow,   \* local: newer than the cursor, older than the lookback
    historyNext, historyLatest, historyComplete,
    batchLatest,    \* local to the backfill: latest_id
    passedOver,     \* given up by a producer and not admitted since
    scanFaults

guardLocals == <<maxSeen, processedMax, unitMax, behindWindow>>
cursorLocals == <<guardLocals, batchLatest>>
albumVars == <<albumBuffer, flushing>>
backfillVars == <<historyNext, historyLatest, historyComplete>>
cursorVars ==
    <<published, marked, admitted, albumVars, groupCache, held, left,
      scanning, metAlbum, guardCursor, cursorLocals, backfillVars,
      passedOver, scanFaults>>

CursorsInit ==
    /\ published = 0
    /\ marked = {} /\ admitted = {} /\ groupCache = {}
    /\ albumBuffer = {} /\ flushing = "none"
    /\ held = [s \in Scanners |-> {}]
    /\ left = [s \in Scanners |-> {}]
    /\ scanning = {} /\ metAlbum = {}
    /\ guardCursor = 0 /\ maxSeen = 0 /\ processedMax = 0 /\ unitMax = 0
    /\ behindWindow = {}
    /\ historyNext = 1 /\ historyLatest = 0 /\ historyComplete = FALSE
    /\ batchLatest = 0
    /\ passedOver = {} /\ scanFaults = 0

Posted == 1..published
Newest(limit) == {m \in Posted : m + limit > published}
MaxWith(S, low) == Max(S \cup {low})

(* check_and_mark_processing of a set: what was not marked or known. *)
Unmarked(S) == S \ (marked \cup admitted)

(* fetch_scan_media_group: the cached members, or those published by now. *)
GroupOf == IF groupCache # {} THEN groupCache ELSE AlbumIds \cap Posted

(* The unit a scanner takes for message m: the message, or its album without
   the members the scanner does not look at. *)
Unit(m, skip) == IF m \in AlbumIds THEN GroupOf \ skip ELSE {m}

(* A scanner looks at message m: it marks the unit of m, or passes a member
   of an album it has met in this pass (processed_albums). *)
MarkUnit(s, m, skip) ==
    LET again == m \in AlbumIds /\ s \in metAlbum
        unit == IF again THEN {} ELSE Unit(m, skip)
    IN  /\ held' = [held EXCEPT ![s] = Unmarked(unit)]
        /\ marked' = marked \cup Unmarked(unit)
        /\ left' = [left EXCEPT ![s] = @ \ {m}]
        /\ metAlbum' = IF m \in AlbumIds THEN metAlbum \cup {s} ELSE metAlbum
        /\ groupCache' = IF m \in AlbumIds /\ ~again THEN GroupOf
                                                     ELSE groupCache
        /\ passedOver' = passedOver \cup (Unmarked({m}) \ unit)

(* The media of S are admitted. *)
Admit(S) ==
    /\ admitted' = admitted \cup S
    /\ marked' = marked \ S

(* The media of S are given up, those excepted that have been admitted. *)
PassOver(S) == passedOver' = (passedOver \cup S) \ admitted'

(* enqueue_media_job ends with a record or a delivery.  It returns without
   either where the admission engine refuses every message: that is what
   is_valid_media has taken out of the list before. *)
Enqueue(s, lost) ==
    /\ held[s] # {}
    /\ Admit(held[s])
    /\ held' = [held EXCEPT ![s] = {}]
    /\ PassOver(lost)

(* The local variables of a guard scan that is over. *)
GuardOver ==
    maxSeen' = 0 /\ processedMax' = 0 /\ unitMax' = 0 /\ behindWindow' = {}

(* A scanner is cut off: what it had marked stays marked. *)
CutOff(s, lost) ==
    /\ scanFaults < MaxScanFaults
    /\ scanFaults' = scanFaults + 1
    /\ UNCHANGED <<marked, admitted>>
    /\ PassOver(held[s] \cup lost)
    /\ held' = [held EXCEPT ![s] = {}]
    /\ left' = [left EXCEPT ![s] = {}]
    /\ scanning' = scanning \ {s}
    /\ metAlbum' = metAlbum \ {s}

-----------------------------------------------------------------------------
(* The channel, the live handlers and the flush task *)

post_message ==
    /\ published < MaxId
    /\ published' = published + 1
    /\ UNCHANGED <<marked, admitted, albumVars, groupCache, held, left,
                   scanning, metAlbum, guardCursor, cursorLocals, backfillVars,
                   passedOver, scanFaults>>

(* The update of one of the newest messages; it may also be lost.  A member of
   the album is buffered, and no task is started while one is registered. *)
auto_monitor ==
    /\ \E m \in Unmarked(Newest(MaxUpdateLag)) :
          /\ marked' = marked \cup {m}
          /\ IF m \in AlbumIds
             THEN /\ albumBuffer' = albumBuffer \cup {m}
                  /\ flushing' = IF flushing = "none" THEN "waiting"
                                                     ELSE flushing
                  /\ UNCHANGED held
             ELSE /\ held' = [held EXCEPT !["live"] = @ \cup {m}]
                  /\ UNCHANGED <<albumBuffer, flushing>>
    /\ UNCHANGED <<published, admitted, groupCache, left, scanning, metAlbum,
                   guardCursor, cursorLocals, backfillVars, passedOver,
                   scanFaults>>

(* Each handler of a single ends by itself. *)
live_enqueued ==
    /\ \E m \in held["live"] :
          /\ Admit({m})
          /\ held' = [held EXCEPT !["live"] = @ \ {m}]
          /\ PassOver({})
    /\ UNCHANGED <<published, albumVars, groupCache, left, scanning, metAlbum,
                   guardCursor, cursorLocals, backfillVars, scanFaults>>

live_fails ==
    /\ scanFaults < MaxScanFaults
    /\ scanFaults' = scanFaults + 1
    /\ \E m \in held["live"] :
          /\ held' = [held EXCEPT !["live"] = @ \ {m}]
          /\ UNCHANGED <<marked, admitted>>
          /\ PassOver({m})
    /\ UNCHANGED <<published, albumVars, groupCache, left, scanning, metAlbum,
                   guardCursor, cursorLocals, backfillVars>>

(* ALBUM_WAIT is over: the task takes what is buffered. *)
_auto_flush_album ==
    /\ flushing = "waiting"
    /\ flushing' = "fetching"
    /\ held' = [held EXCEPT !["album"] = albumBuffer]
    /\ albumBuffer' = {}
    /\ UNCHANGED <<published, marked, admitted, groupCache, left, scanning,
                   metAlbum, guardCursor, cursorLocals, backfillVars,
                   passedOver, scanFaults>>

(* get_media_group gives the members published by now, or it fails. *)
album_fetched ==
    /\ flushing = "fetching"
    /\ flushing' = "enqueueing"
    /\ \E album \in {AlbumIds \cap Posted, held["album"]} :
          /\ held' = [held EXCEPT !["album"] = album]
          /\ marked' = marked \cup (album \ admitted)
    /\ UNCHANGED <<published, admitted, albumBuffer, groupCache, left,
                   scanning, metAlbum, guardCursor, cursorLocals, backfillVars,
                   passedOver, scanFaults>>

(* The task ends, with a record or an error: it pops the buffer once more. *)
FlushOver ==
    /\ flushing = "enqueueing"
    /\ flushing' = "none"
    /\ albumBuffer' = {}

album_enqueued ==
    /\ Enqueue("album", albumBuffer)
    /\ FlushOver
    /\ UNCHANGED <<published, groupCache, left, scanning, metAlbum,
                   guardCursor, cursorLocals, backfillVars, scanFaults>>

album_fails ==
    /\ CutOff("album", albumBuffer)
    /\ FlushOver
    /\ UNCHANGED <<published, groupCache, guardCursor, cursorLocals,
                   backfillVars>>

(* SCAN_ALBUM_PREFETCH_CACHE_SECONDS are over. *)
group_cache_expires ==
    /\ groupCache # {}
    /\ groupCache' = {}
    /\ UNCHANGED <<published, marked, admitted, albumVars, held, left,
                   scanning, metAlbum, guardCursor, cursorLocals, backfillVars,
                   passedOver, scanFaults>>

(* Called by the sync, the healer and the recovery loops. *)
clear_processing_cache_if_idle ==
    /\ marked # {}
    /\ marked' = {}
    /\ UNCHANGED <<published, admitted, albumVars, groupCache, held, left,
                   scanning, metAlbum, guardCursor, cursorLocals, backfillVars,
                   passedOver, scanFaults>>

-----------------------------------------------------------------------------
(* source_guard_scan_channel *)

(* The newest messages are listed down to the cursor. *)
guard_list ==
    /\ "guard" \notin scanning
    /\ scanning' = scanning \cup {"guard"}
    /\ LET limit == IF guardCursor = 0 THEN SOURCE_GUARD_CATCHUP_LIMIT
                                       ELSE SOURCE_GUARD_LOOKBACK
           unseen == {m \in Posted : m > guardCursor}
       IN  /\ left' = [left EXCEPT !["guard"] = unseen \cap Newest(limit)]
           /\ behindWindow' = unseen \ Newest(limit)
    /\ maxSeen' = MaxWith(Posted, guardCursor)
    /\ processedMax' = guardCursor
    /\ unitMax' = 0
    /\ UNCHANGED <<published, marked, admitted, albumVars, groupCache, held,
                   metAlbum, guardCursor, batchLatest, backfillVars,
                   passedOver, scanFaults>>

(* processed_max follows when the unit needs no admission. *)
guard_take ==
    /\ left["guard"] # {}
    /\ held["guard"] = {}
    /\ LET m == Min(left["guard"])
           last == IF m \in AlbumIds /\ "guard" \notin metAlbum
                   THEN Max(GroupOf) ELSE m
       IN  /\ MarkUnit("guard", m, 1..guardCursor)
           /\ IF held'["guard"] = {}
              THEN processedMax' = Max({last, processedMax}) /\ unitMax' = 0
              ELSE unitMax' = last /\ UNCHANGED processedMax
    /\ UNCHANGED <<published, admitted, albumVars, scanning, guardCursor,
                   maxSeen, behindWindow, batchLatest, backfillVars,
                   scanFaults>>

guard_enqueued ==
    /\ Enqueue("guard", {})
    /\ processedMax' = Max({unitMax, processedMax})
    /\ unitMax' = 0
    /\ UNCHANGED <<published, albumVars, groupCache, left, scanning, metAlbum,
                   guardCursor, maxSeen, behindWindow, batchLatest,
                   backfillVars, scanFaults>>

(* set_guard_cursor never moves the cursor back. *)
set_guard_cursor(target) == guardCursor' = Max({guardCursor, target})

guard_done ==
    /\ "guard" \in scanning
    /\ left["guard"] = {} /\ held["guard"] = {}
    /\ set_guard_cursor(maxSeen)
    /\ passedOver' = passedOver \cup Unmarked(behindWindow)
    /\ scanning' = scanning \ {"guard"}
    /\ metAlbum' = metAlbum \ {"guard"}
    /\ GuardOver
    /\ UNCHANGED <<published, marked, admitted, albumVars, groupCache, held,
                   left, batchLatest, backfillVars, scanFaults>>

(* A mutant: the cursor is set to the newest message seen. *)
MutantCursorToSeen ==
    /\ "guard" \in scanning
    /\ CutOff("guard", Unmarked(behindWindow))
    /\ set_guard_cursor(maxSeen)
    /\ GuardOver
    /\ UNCHANGED <<published, albumVars, groupCache, batchLatest,
                   backfillVars>>

(* A fetch or an admission raised: the cursor stops at what was processed. *)
guard_error ==
    /\ "guard" \in scanning
    /\ CutOff("guard",
              {m \in Unmarked(behindWindow) : m <= processedMax})
    /\ set_guard_cursor(processedMax)
    /\ GuardOver
    /\ UNCHANGED <<published, albumVars, groupCache, batchLatest,
                   backfillVars>>

(* An access error ends the loop without had_error. *)
guard_access_error ==
    /\ "guard" \in scanning
    /\ left["guard"] \cup held["guard"] # {}
    /\ CutOff("guard", Unmarked(behindWindow \cup left["guard"]))
    /\ set_guard_cursor(maxSeen)
    /\ GuardOver
    /\ UNCHANGED <<published, albumVars, groupCache, batchLatest,
                   backfillVars>>

(* ADAPTIVE_INTAKE_TIMEOUT_SECONDS: the task is cancelled at its await. *)
guard_timeout ==
    /\ "guard" \in scanning
    /\ CutOff("guard", {})
    /\ GuardOver
    /\ UNCHANGED <<published, albumVars, groupCache, guardCursor, batchLatest,
                   backfillVars>>

-----------------------------------------------------------------------------
(* historical_backfill_loop *)

LatestId == IF historyLatest = 0 THEN published ELSE historyLatest

save_historical_cursor(next, latest, complete) ==
    /\ historyNext' = next
    /\ historyLatest' = latest
    /\ historyComplete' = complete

(* Nothing is left below the newest id of the first visit. *)
backfill_nothing_left ==
    /\ "backfill" \notin scanning
    /\ ~historyComplete
    /\ LatestId = 0 \/ historyNext > LatestId
    /\ save_historical_cursor(Max({historyNext, LatestId + 1}), LatestId, TRUE)
    /\ UNCHANGED <<published, marked, admitted, albumVars, groupCache, held,
                   left, scanning, metAlbum, guardCursor, cursorLocals,
                   passedOver, scanFaults>>

BatchEnd(latest) ==
    Min({latest, historyNext + HISTORICAL_BACKFILL_BATCH_IDS - 1})

backfill_fetch ==
    /\ "backfill" \notin scanning
    /\ ~historyComplete
    /\ historyNext <= LatestId
    /\ scanning' = scanning \cup {"backfill"}
    /\ batchLatest' = LatestId
    /\ left' = [left EXCEPT !["backfill"] =
                   historyNext..BatchEnd(LatestId)]
    /\ UNCHANGED <<published, marked, admitted, albumVars, groupCache, held,
                   metAlbum, guardCursor, guardLocals, backfillVars,
                   passedOver, scanFaults>>

(* enqueue_historical_batch, oldest first. *)
backfill_take ==
    /\ left["backfill"] # {}
    /\ held["backfill"] = {}
    /\ MarkUnit("backfill", Min(left["backfill"]), {})
    /\ UNCHANGED <<published, admitted, albumVars, scanning, guardCursor,
                   cursorLocals, backfillVars, scanFaults>>

backfill_enqueued ==
    /\ Enqueue("backfill", {})
    /\ UNCHANGED <<published, albumVars, groupCache, left, scanning, metAlbum,
                   guardCursor, cursorLocals, backfillVars, scanFaults>>

(* The cursor is saved after the whole batch. *)
backfill_saved ==
    /\ "backfill" \in scanning
    /\ left["backfill"] = {} /\ held["backfill"] = {}
    /\ save_historical_cursor(BatchEnd(batchLatest) + 1, batchLatest,
                              BatchEnd(batchLatest) >= batchLatest)
    /\ scanning' = scanning \ {"backfill"}
    /\ metAlbum' = metAlbum \ {"backfill"}
    /\ batchLatest' = 0
    /\ UNCHANGED <<published, marked, admitted, albumVars, groupCache, held,
                   left, guardCursor, guardLocals, passedOver, scanFaults>>

backfill_fails ==
    /\ "backfill" \in scanning
    /\ CutOff("backfill", {})
    /\ batchLatest' = 0
    /\ UNCHANGED <<published, albumVars, groupCache, guardCursor, guardLocals,
                   backfillVars>>

-----------------------------------------------------------------------------

CursorsNext ==
    \/ post_message \/ auto_monitor \/ live_enqueued \/ live_fails
    \/ _auto_flush_album \/ album_fetched \/ album_enqueued \/ album_fails
    \/ group_cache_expires \/ clear_processing_cache_if_idle
    \/ guard_list \/ guard_take \/ guard_enqueued \/ guard_done
    \/ guard_error \/ guard_access_error \/ guard_timeout
    \/ backfill_nothing_left \/ backfill_fetch \/ backfill_take
    \/ backfill_enqueued \/ backfill_saved \/ backfill_fails

CursorsSpec == CursorsInit /\ [][CursorsNext]_cursorVars

CursorsTypeOK ==
    /\ published \in 0..MaxId
    /\ {marked, admitted, albumBuffer, groupCache, behindWindow,
        passedOver} \subseteq SUBSET Ids
    /\ flushing \in {"none", "waiting", "fetching", "enqueueing"}
    /\ held \in [Scanners -> SUBSET Ids] /\ left \in [Scanners -> SUBSET Ids]
    /\ scanning \subseteq Scanners /\ metAlbum \subseteq scanning
    /\ {guardCursor, maxSeen, processedMax, unitMax, historyLatest, batchLatest}
          \subseteq 0..MaxId
    /\ historyNext \in 1..(MaxId + 1) /\ historyComplete \in BOOLEAN
    /\ scanFaults \in 0..MaxScanFaults

(* A cursor passes only media that a producer has admitted or holds, or that
   one of the named exits gave up: the lookback window, an access error, a
   stale album, a producer cut off between mark and record, the last pop of
   the album buffer. *)
CursorsCover ==
    \A m \in Ids :
        m <= guardCursor \/ m < historyNext
            => m \in admitted \cup albumBuffer \cup passedOver
                     \cup UNION {held[s] : s \in Scanners}
=============================================================================
