----------------------------- MODULE MediaFiles -----------------------------
(***************************************************************************)
(* The downloaded files of one album: every item attempt writes to a path  *)
(* of its own, through the bot or the user account; the file is validated, *)
(* kept for a retry and uploaded.  Meanwhile the storage guard, the reaper *)
(* of deferred files and the cleanup engine delete files on threads, and a *)
(* restart purges the directory.                                           *)
(***************************************************************************)
EXTENDS Naturals, FiniteSets, Functions

CONSTANTS
    AlbumSize,
    Photos,                         \* items with a decoder to check them
    ZERO_BYTE_ITEM_MAX_RETRIES,
    MaxPaths,                       \* bound on item attempts
    MaxFileBoots                    \* bound on restarts

FileItems == 1..AlbumSize
Paths == 1..MaxPaths

ASSUME FilesAssumption ==
    /\ {AlbumSize, ZERO_BYTE_ITEM_MAX_RETRIES} \subseteq Nat \ {0}
    /\ Photos \subseteq FileItems
    /\ {MaxPaths, MaxFileBoots} \subseteq Nat

(* Too small for any media, cut off, zeros, of the right size and unreadable,
   or as it was sent. *)
Contents == {"absent", "short", "cut", "zeros", "garbled", "whole"}

VARIABLES
    content,        \* what each path holds
    lastPath,       \* paths used so far
    fileStage,      \* step of the job
    item, itemTry, path,
    partial,        \* _partial_download_files, 0 if none
    album,          \* downloaded_files, then the files of the upload
    attemptPaths,   \* files_to_cleanup
    deferredItems,  \* items that failed in this attempt
    fileRecord,     \* record of the job: [open, partial, files]
    fileRecordDisk, \* the same in the JSON file
    fileCheckpoint, \* checkpoint: [temp, partial]
    tracked,        \* active_download_files
    enginePaths,    \* active_paths of the cleanup engine
    deferredPaths,  \* deferred_download_cleanup
    engineDeferred, \* deferred of the cleanup engine
    guardStep, spared, doomed, \* storage guard: its step and local lists
    swept,          \* needed files the guard deleted by a list older than them
    fileBoots

jobVars == <<fileStage, item, itemTry, path, partial, album, attemptPaths,
             deferredItems>>
trackVars == <<tracked, enginePaths, deferredPaths, engineDeferred>>
guardVars == <<guardStep, spared, doomed>>
fileVars ==
    <<content, lastPath, jobVars, fileRecord, fileRecordDisk, fileCheckpoint,
      trackVars, guardVars, swept, fileBoots>>

NoFiles == [i \in FileItems |-> 0]
FilesIn(f) == Range(f) \ {0}
OnDisk == {p \in Paths : content[p] # "absent"}

FilesInit ==
    /\ content = [p \in Paths |-> "absent"]
    /\ lastPath = 0
    /\ fileStage = "queued" /\ item = 1 /\ itemTry = 0 /\ path = 0
    /\ partial = NoFiles /\ album = NoFiles
    /\ attemptPaths = {} /\ deferredItems = {}
    /\ fileRecord = [open |-> TRUE, partial |-> NoFiles, files |-> NoFiles]
    /\ fileRecordDisk = fileRecord
    /\ fileCheckpoint = [temp |-> {}, partial |-> NoFiles]
    /\ tracked = {} /\ enginePaths = {}
    /\ deferredPaths = {} /\ engineDeferred = {}
    /\ guardStep = "idle" /\ spared = {} /\ doomed = {}
    /\ swept = {} /\ fileBoots = 0

-----------------------------------------------------------------------------
(* Validation and bookkeeping *)

(* minimum_complete_size *)
media_path_is_complete_enough(p) == content[p] \notin {"absent", "short"}

(* The size must be the one of the source, the samples must not be zero, a
   photo must decode; what the inspection of a video's boxes finds is no
   reason to refuse it. *)
validate_file(i, p) ==
    /\ media_path_is_complete_enough(p)
    /\ content[p] # "cut"
    /\ content[p] # "zeros"
    /\ i \in Photos => content[p] # "garbled"

track_download_file(S) ==
    /\ tracked' = tracked \cup S
    /\ enginePaths' = enginePaths \cup S
    /\ UNCHANGED <<deferredPaths, engineDeferred>>

(* A path that is deferred counts as active until it is reaped. *)
defer_download_cleanup(S) ==
    /\ tracked' = tracked \cup S
    /\ enginePaths' = enginePaths \cup S
    /\ deferredPaths' = deferredPaths \cup S
    /\ engineDeferred' = engineDeferred \cup S

(* untrack_download_files, then cleanup: the engine deletes what it does not
   hold as active. *)
DeleteFiles(S) ==
    /\ tracked' = tracked \ S
    /\ enginePaths' = enginePaths \ S
    /\ engineDeferred' = engineDeferred \ S
    /\ content' = [p \in Paths |-> IF p \in S THEN "absent" ELSE content[p]]
    /\ UNCHANGED deferredPaths

JobPaths == FilesIn(partial) \cup
            (IF fileStage = "upload" THEN FilesIn(album) ELSE {})

RecordPaths(r) == IF r.open THEN FilesIn(r.partial) \cup FilesIn(r.files)
                            ELSE {}

protected_download_file_paths ==
    tracked \cup JobPaths \cup RecordPaths(fileRecord)

record_job_files(newPartial, newFiles) ==
    fileRecord' = [open |-> TRUE, partial |-> newPartial, files |-> newFiles]

CloseRecord ==
    fileRecord' = [open |-> FALSE, partial |-> NoFiles, files |-> NoFiles]

-----------------------------------------------------------------------------
(* channel_download_worker_loop *)

ToItem(i) ==
    /\ fileStage' = IF i \in FileItems THEN "item" ELSE "gathered"
    /\ item' = IF i \in FileItems THEN i ELSE 1
    /\ itemTry' = 0 /\ path' = 0

BackToQueue(stage) ==
    /\ fileStage' = stage
    /\ item' = 1 /\ itemTry' = 0 /\ path' = 0
    /\ attemptPaths' = {} /\ deferredItems' = {}

download_taken ==
    /\ fileStage = "queued"
    /\ ToItem(1)
    /\ album' = NoFiles
    /\ UNCHANGED <<content, lastPath, partial, attemptPaths, deferredItems,
                   fileRecord, fileRecordDisk, fileCheckpoint, trackVars,
                   guardVars, swept, fileBoots>>

(* partial_download_file_for_message *)
Resumable == partial[item] # 0 /\ media_path_is_complete_enough(partial[item])

resume_partial ==
    /\ fileStage = "item" /\ Resumable
    /\ attemptPaths' = attemptPaths \cup {partial[item]}
    /\ IF validate_file(item, partial[item])
       THEN /\ album' = [album EXCEPT ![item] = partial[item]]
            /\ track_download_file({partial[item]})
            /\ ToItem(item + 1)
       ELSE /\ defer_download_cleanup({partial[item]})
            /\ fileStage' = "fetch"
            /\ UNCHANGED <<album, item, itemTry, path>>
    /\ UNCHANGED <<content, lastPath, partial, deferredItems, fileRecord,
                   fileRecordDisk, fileCheckpoint, guardVars, swept,
                   fileBoots>>

(* The bot account is asked first, unless it lately could not read the source:
   the caches of that expire at times of their own. *)
preferred_download_route == fileStage' \in {"bot", "userbot"}

(* A path of its own for every attempt at an item, tracked before it exists. *)
fetch_begins ==
    /\ fileStage = "fetch" \/ (fileStage = "item" /\ ~Resumable)
    /\ lastPath < MaxPaths
    /\ lastPath' = lastPath + 1
    /\ path' = lastPath'
    /\ itemTry' = itemTry + 1
    /\ attemptPaths' = attemptPaths \cup {path'}
    /\ track_download_file({path'})
    /\ preferred_download_route
    /\ UNCHANGED <<content, item, partial, album, deferredItems, fileRecord,
                   fileRecordDisk, fileCheckpoint, guardVars, swept,
                   fileBoots>>

write_starts ==
    /\ fileStage \in {"bot", "userbot"}
    /\ content[path] = "absent"
    /\ content' = [content EXCEPT ![path] = "short"]
    /\ UNCHANGED <<lastPath, jobVars, fileRecord, fileRecordDisk,
                   fileCheckpoint, trackVars, guardVars, swept, fileBoots>>

(* The bot account failed or may not read the source: the user account takes
   over, its rests are removed unless they are new. *)
bot_api_fails ==
    /\ fileStage = "bot"
    /\ fileStage' = "userbot"
    /\ content' \in {content, [content EXCEPT ![path] = "absent"]}
    /\ UNCHANGED <<lastPath, item, itemTry, path, partial, album,
                   attemptPaths, deferredItems, fileRecord, fileRecordDisk,
                   fileCheckpoint, trackVars, guardVars, swept, fileBoots>>

(* What a transport leaves behind: a photo that was cut does not decode. *)
Outcomes(i) == {"absent", "short", "whole"} \cup
               (IF i \in Photos THEN {"garbled"} ELSE {"cut", "zeros"})

(* The transport returns; a file deleted meanwhile is missing. *)
hybrid_download_media(result) ==
    /\ fileStage \in {"bot", "userbot"}
    /\ IF content[path] = "short"
       THEN content' = [content EXCEPT ![path] = result]
       ELSE result = "absent" /\ UNCHANGED content
    /\ fileStage' = "fetched"
    /\ UNCHANGED <<lastPath, item, itemTry, path, partial, album,
                   attemptPaths, deferredItems, fileRecord, fileRecordDisk,
                   fileCheckpoint, trackVars, guardVars, swept, fileBoots>>

(* A timeout or a network error, with attempts left. *)
fetch_retried ==
    /\ fileStage = "userbot"
    /\ itemTry < ZERO_BYTE_ITEM_MAX_RETRIES
    /\ defer_download_cleanup({path})
    /\ fileStage' = "fetch" /\ path' = 0
    /\ UNCHANGED <<content, lastPath, item, itemTry, partial, album,
                   attemptPaths, deferredItems, fileRecord, fileRecordDisk,
                   fileCheckpoint, guardVars, swept, fileBoots>>

(* remember_partial_download: the former file of the item is given up. *)
remember_partial_download ==
    LET obsolete == {partial[item]} \ {0, path}
    IN  /\ partial' = [partial EXCEPT ![item] = path]
        /\ tracked' = tracked \cup {path} \cup obsolete
        /\ enginePaths' = enginePaths \cup {path} \cup obsolete
        /\ deferredPaths' = deferredPaths \cup obsolete
        /\ engineDeferred' = engineDeferred \cup obsolete

item_valid ==
    /\ fileStage = "fetched"
    /\ validate_file(item, path)
    /\ remember_partial_download
    /\ album' = [album EXCEPT ![item] = path]
    /\ record_job_files(partial', album')
    /\ ToItem(item + 1)
    /\ UNCHANGED <<content, lastPath, attemptPaths, deferredItems,
                   fileRecordDisk, fileCheckpoint, guardVars, swept,
                   fileBoots>>

item_invalid ==
    /\ fileStage = "fetched"
    /\ ~validate_file(item, path)
    /\ defer_download_cleanup({path})
    /\ IF itemTry < ZERO_BYTE_ITEM_MAX_RETRIES
       THEN /\ fileStage' = "fetch" /\ path' = 0
            /\ UNCHANGED <<item, itemTry, deferredItems>>
       ELSE ToItem(item + 1) /\ deferredItems' = deferredItems \cup {item}
    /\ UNCHANGED <<content, lastPath, partial, album, attemptPaths,
                   fileRecord, fileRecordDisk, fileCheckpoint, guardVars,
                   swept, fileBoots>>

(* Items are missing: the job waits for them with the files it has. *)
retry_later ==
    /\ fileStage = "gathered" /\ deferredItems # {}
    /\ record_job_files(partial, album)
    /\ BackToQueue("queued")
    /\ album' = NoFiles
    /\ UNCHANGED <<content, lastPath, partial, fileRecordDisk, fileCheckpoint,
                   trackVars, guardVars, swept, fileBoots>>

(* Partial files the upload does not use are given up. *)
clear_partial_download_checkpoint(preserved) ==
    /\ partial' = NoFiles
    /\ defer_download_cleanup(FilesIn(partial) \ preserved)
    /\ UNCHANGED content

items_complete ==
    /\ fileStage = "gathered" /\ deferredItems = {}
    /\ clear_partial_download_checkpoint(FilesIn(album))
    /\ record_job_files(NoFiles, album)
    /\ BackToQueue("upload")
    /\ UNCHANGED <<lastPath, album, fileRecordDisk, fileCheckpoint, guardVars,
                   swept, fileBoots>>

(* An exception ends the attempt.  The job is tried again later, with its
   partial files or from the start, or it is closed; the paths of the attempt
   are deferred, those a retry still names too. *)
download_fails(outcome) ==
    /\ fileStage = "userbot"
    /\ defer_download_cleanup(attemptPaths)
    /\ partial' = IF outcome = "again" THEN partial ELSE NoFiles
    /\ IF outcome = "closed" THEN CloseRecord
       ELSE record_job_files(partial', fileRecord.files)
    /\ BackToQueue(IF outcome = "closed" THEN "closed" ELSE "queued")
    /\ album' = NoFiles
    /\ UNCHANGED <<content, lastPath, fileRecordDisk, fileCheckpoint,
                   guardVars, swept, fileBoots>>

-----------------------------------------------------------------------------
(* upload_worker_loop: its finally block *)

upload_ends ==
    /\ fileStage = "upload"
    /\ CloseRecord
    /\ DeleteFiles(FilesIn(album))
    /\ BackToQueue("closed")
    /\ album' = NoFiles
    /\ UNCHANGED <<lastPath, partial, fileRecordDisk, fileCheckpoint,
                   guardVars, swept, fileBoots>>

(* build_fresh_download_retry_job: missing or refused files are fetched anew. *)
upload_reset ==
    /\ fileStage = "upload"
    /\ record_job_files(NoFiles, NoFiles)
    /\ DeleteFiles(FilesIn(album))
    /\ BackToQueue("queued")
    /\ album' = NoFiles
    /\ UNCHANGED <<lastPath, partial, fileRecordDisk, fileCheckpoint,
                   guardVars, swept, fileBoots>>

-----------------------------------------------------------------------------
(* The cleaners, on threads *)

(* cleanup_download_dir_if_needed: what is protected, what is there, delete. *)
guard_protects ==
    /\ guardStep = "idle"
    /\ guardStep' = "listing"
    /\ spared' = protected_download_file_paths
    /\ UNCHANGED <<content, lastPath, jobVars, fileRecord, fileRecordDisk,
                   fileCheckpoint, trackVars, doomed, swept, fileBoots>>

guard_lists ==
    /\ guardStep = "listing"
    /\ guardStep' = "deleting"
    /\ doomed' = OnDisk \ spared
    /\ spared' = {}
    /\ UNCHANGED <<content, lastPath, jobVars, fileRecord, fileRecordDisk,
                   fileCheckpoint, trackVars, swept, fileBoots>>

guard_unlinks(p) ==
    /\ guardStep = "deleting" /\ p \in doomed
    /\ content' = [content EXCEPT ![p] = "absent"]
    /\ doomed' = doomed \ {p}
    /\ swept' = swept \cup ({p} \cap protected_download_file_paths)
    /\ UNCHANGED <<lastPath, jobVars, fileRecord, fileRecordDisk,
                   fileCheckpoint, trackVars, guardStep, spared, fileBoots>>

(* Enough was freed, or the list is done. *)
guard_ends ==
    /\ guardStep = "deleting"
    /\ guardStep' = "idle"
    /\ doomed' = {}
    /\ UNCHANGED <<content, lastPath, jobVars, fileRecord, fileRecordDisk,
                   fileCheckpoint, trackVars, spared, swept, fileBoots>>

(* The cleanup engine's reap_deferred of a path that is due: one it holds as
   active is postponed, and "defer" makes a path active.  Nobody calls it with
   "force". *)
reap_deferred(p) ==
    /\ p \in engineDeferred \ enginePaths
    /\ content' = [content EXCEPT ![p] = "absent"]
    /\ engineDeferred' = engineDeferred \ {p}
    /\ UNCHANGED <<lastPath, jobVars, fileRecord, fileRecordDisk,
                   fileCheckpoint, tracked, enginePaths, deferredPaths,
                   guardVars, swept, fileBoots>>

(* A mutant: what is protected is not asked for. *)
MutantReapsAll(p) ==
    /\ p \in deferredPaths
    /\ content' = [content EXCEPT ![p] = "absent"]
    /\ tracked' = tracked \ {p}
    /\ deferredPaths' = deferredPaths \ {p}
    /\ UNCHANGED <<lastPath, jobVars, fileRecord, fileRecordDisk,
                   fileCheckpoint, enginePaths, engineDeferred, guardVars,
                   swept, fileBoots>>

(* The bot's reaper: a protected path is postponed, and a tracked path is
   protected. *)
reap_deferred_download_cleanup(p) ==
    /\ p \in deferredPaths \ protected_download_file_paths
    /\ content' = [content EXCEPT ![p] = "absent"]
    /\ tracked' = tracked \ {p}
    /\ deferredPaths' = deferredPaths \ {p}
    /\ UNCHANGED <<lastPath, jobVars, fileRecord, fileRecordDisk,
                   fileCheckpoint, enginePaths, engineDeferred, guardVars,
                   swept, fileBoots>>

(* Paths that do not exist are forgotten, one that is about to be written
   too. *)
prune_runtime_caches ==
    /\ ~ tracked \subseteq OnDisk
    /\ tracked' = tracked \cap OnDisk
    /\ deferredPaths' = deferredPaths \ (tracked \ OnDisk)
    /\ UNCHANGED <<content, lastPath, jobVars, fileRecord, fileRecordDisk,
                   fileCheckpoint, enginePaths, engineDeferred, guardVars,
                   swept, fileBoots>>

-----------------------------------------------------------------------------
(* Files on disk and restarts *)

(* What is saved after the last restart of a behaviour is read by nobody. *)
BootsLeft == fileBoots < MaxFileBoots

file_record_saved ==
    /\ BootsLeft /\ fileRecordDisk # fileRecord
    /\ fileRecordDisk' = fileRecord
    /\ UNCHANGED <<content, lastPath, jobVars, fileRecord, fileCheckpoint,
                   trackVars, guardVars, swept, fileBoots>>

file_checkpoint_saved ==
    /\ BootsLeft
    /\ fileCheckpoint' = [temp |-> tracked \cap OnDisk, partial |-> partial]
    /\ fileCheckpoint' # fileCheckpoint
    /\ tracked' = tracked \cap OnDisk
    /\ UNCHANGED <<content, lastPath, jobVars, fileRecord, fileRecordDisk,
                   enginePaths, deferredPaths, engineDeferred, guardVars,
                   swept, fileBoots>>

(* v21_existing_recovery_file_paths *)
RecoveryPaths == fileCheckpoint.temp \cup RecordPaths(fileRecordDisk)

(* purge_download_root_on_boot, or only the sweep of files that are too
   small. *)
run_v21_startup_cleanup(purge) ==
    content' = [p \in Paths |->
        IF p \notin RecoveryPaths /\ (purge \/ content[p] = "short")
        THEN "absent" ELSE content[p]]

(* hydrate_runtime_job_from_checkpoint: the named files that are there. *)
Hydrated(f) ==
    [i \in FileItems |->
        IF f[i] # 0 /\ content'[f[i]] \notin {"absent", "short"}
        THEN f[i] ELSE 0]

(* The job comes back from its record or from the checkpoint: to the upload
   when all its files are there, else to the download. *)
files_boot(purge, fromCheckpoint) ==
    /\ BootsLeft
    /\ fileBoots' = fileBoots + 1
    /\ run_v21_startup_cleanup(purge)
    /\ LET uploadable == /\ FilesIn(fileRecordDisk.partial) = {}
                         /\ 0 \notin Range(Hydrated(fileRecordDisk.files))
       IN  /\ album' = IF fileRecordDisk.open /\ uploadable
                       THEN Hydrated(fileRecordDisk.files) ELSE NoFiles
           /\ partial' = IF ~fileRecordDisk.open \/ uploadable THEN NoFiles
                         ELSE Hydrated(IF fromCheckpoint
                                       THEN fileCheckpoint.partial
                                       ELSE fileRecordDisk.partial)
           /\ BackToQueue(IF ~fileRecordDisk.open THEN "closed"
                          ELSE IF uploadable THEN "upload" ELSE "queued")
    /\ fileRecord' = IF fileRecordDisk.open
                     THEN [open |-> TRUE, partial |-> partial',
                           files |-> album']
                     ELSE fileRecordDisk
    /\ tracked' = {} /\ enginePaths' = {}
    /\ deferredPaths' = {} /\ engineDeferred' = {}
    /\ guardStep' = "idle" /\ spared' = {} /\ doomed' = {}
    /\ swept' = {}
    /\ UNCHANGED <<lastPath, fileRecordDisk, fileCheckpoint>>

(* The job is closed, in the file too. *)
FilesOver == fileStage = "closed" /\ (BootsLeft => ~fileRecordDisk.open)

FilesSteps ==
    \/ download_taken \/ resume_partial \/ fetch_begins \/ write_starts
    \/ bot_api_fails
    \/ \E result \in Outcomes(item) : hybrid_download_media(result)
    \/ fetch_retried \/ item_valid \/ item_invalid
    \/ retry_later \/ items_complete
    \/ \E outcome \in {"again", "anew", "closed"} : download_fails(outcome)
    \/ upload_ends \/ upload_reset
    \/ guard_protects \/ guard_lists \/ guard_ends
    \/ \E p \in Paths : guard_unlinks(p)
    \/ \E p \in Paths : reap_deferred(p)
    \/ \E p \in Paths : reap_deferred_download_cleanup(p)
    \/ prune_runtime_caches
    \/ file_record_saved \/ file_checkpoint_saved
    \/ \E purge, fromCheckpoint \in BOOLEAN : files_boot(purge, fromCheckpoint)

FilesNext == ~FilesOver /\ FilesSteps

FilesSpec == FilesInit /\ [][FilesNext]_fileVars

-----------------------------------------------------------------------------

PathMaps == [FileItems -> 0..MaxPaths]

FilesTypeOK ==
    /\ content \in [Paths -> Contents]
    /\ lastPath \in 0..MaxPaths /\ path \in 0..MaxPaths
    /\ fileStage \in {"queued", "item", "fetch", "bot", "userbot", "fetched",
                      "gathered", "upload", "closed"}
    /\ item \in FileItems
    /\ itemTry \in 0..ZERO_BYTE_ITEM_MAX_RETRIES
    /\ {partial, album} \subseteq PathMaps
    /\ {fileRecord, fileRecordDisk} \subseteq
          [open : BOOLEAN, partial : PathMaps, files : PathMaps]
    /\ fileCheckpoint \in [temp : SUBSET Paths, partial : PathMaps]
    /\ {attemptPaths, tracked, enginePaths, deferredPaths, engineDeferred,
        spared, doomed, swept} \subseteq SUBSET Paths
    /\ guardStep \in {"idle", "listing", "deleting"}

(* The files a job relies on: those of its upload, those gathered so far and
   those a retry resumes from. *)
Relied(i) == {album[i], partial[i]} \ {0}

(* The files a job relies on are there and complete, whatever the cleaners, a
   restart and the retries did, unless the storage guard deleted them by a
   list that is older than they are. *)
FilesKept ==
    \A i \in FileItems : \A p \in Relied(i) :
        p \in swept \/ content[p] = "whole"
=============================================================================
