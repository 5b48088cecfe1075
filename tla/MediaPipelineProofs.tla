------------------------ MODULE MediaPipelineProofs ------------------------
(***************************************************************************)
(* Type correctness of the media pipeline, for any sets of jobs, media,    *)
(* workers and producers and any queue bounds.  First what each helper of  *)
(* the handlers does to the part of the state it writes, then one step per *)
(* action of each component, then the theorem.                             *)
(***************************************************************************)
EXTENDS MediaPipeline, TLAPS

AttemptOK == attempt \in [Jobs -> 1..MAX_RETRIES]

FilesOK == files \in [Jobs -> BOOLEAN]

ProcessingOK == processing \in SUBSET Uids

(* The status names that occur in the handlers are statuses. *)
LEMMA StatusNames ==
    {"queued", "downloading", "downloaded", "queued_upload", "uploading",
     "retry", "retry_later", "queued_recovered", "uploaded",
     "skipped_duplicate", "skipped_dead_media", "skipped_source_retired",
     "failed", "failed_invalid_media", "none", "retry_admission_failed",
     "retry_download"} = Statuses
  BY DEF Statuses, QUEUE_STUCK_STATUSES, QUEUE_TERMINAL_STATUSES

(* The parts of MediaOK that a handler writes one at a time. *)
LEMMA MediaParts ==
    MediaOK <=> /\ FilesOK /\ AttemptOK /\ ProcessingOK
                /\ known \in SUBSET Uids /\ delivered \in [Uids -> Nat]
  BY DEF MediaOK, FilesOK, AttemptOK, ProcessingOK

LEMMA MediaPartsPrime ==
    MediaOK' <=> /\ FilesOK' /\ AttemptOK' /\ ProcessingOK'
                 /\ known' \in SUBSET Uids /\ delivered' \in [Uids -> Nat]
  BY DEF MediaOK, FilesOK, AttemptOK, ProcessingOK

-----------------------------------------------------------------------------
(* Records *)

(* Writing the records keeps the reservation order and the files well typed. *)
LEMMA RecordsType ==
    ASSUME RecordsOK,
           NEW d \in [Jobs -> Statuses], NEW u \in [Jobs -> Statuses],
           Records(d, u)
    PROVE  RecordsOK'
  BY DEF RecordsOK, Records

(* record_download_job writes a status. *)
LEMMA RecordDownloadType ==
    ASSUME RecordsOK, NEW j \in Jobs, NEW s \in Statuses,
           record_download_job(j, s)
    PROVE  RecordsOK'
  BY RecordsType DEF RecordsOK, record_download_job

(* record_upload_job writes a status. *)
LEMMA RecordUploadType ==
    ASSUME RecordsOK, NEW j \in Jobs, NEW s \in Statuses,
           record_upload_job(j, s)
    PROVE  RecordsOK'
  BY RecordsType DEF RecordsOK, record_upload_job

(* A handler that writes both lanes writes statuses. *)
LEMMA RecordBothType ==
    ASSUME RecordsOK, NEW j \in Jobs, NEW s \in Statuses, NEW t \in Statuses,
           record_both(j, s, t)
    PROVE  RecordsOK'
<1>1. [dl EXCEPT ![j] = s] \in [Jobs -> Statuses]
  BY DEF RecordsOK
<1>2. [ul EXCEPT ![j] = t] \in [Jobs -> Statuses]
  BY DEF RecordsOK
<1>3. Records([dl EXCEPT ![j] = s], [ul EXCEPT ![j] = t])
  BY DEF record_both
<1> QED
  BY <1>1, <1>2, <1>3, RecordsType

-----------------------------------------------------------------------------
(* Helpers of the workers *)

(* The attempt counter saturates at MAX_RETRIES. *)
LEMMA NextAttemptType ==
    ASSUME AttemptOK, NEW j \in Jobs, NextAttempt(j)
    PROVE  AttemptOK'
  BY LimitsAssumption DEF AttemptOK, NextAttempt

(* A renewed or handed-over descriptor starts at attempt 1. *)
LEMMA FirstAttemptType ==
    ASSUME AttemptOK, NEW j \in Jobs,
           attempt' = [attempt EXCEPT ![j] = 1]
    PROVE  AttemptOK'
  BY LimitsAssumption DEF AttemptOK

(* An upload handler counts an attempt only below the limit. *)
LEMMA CountAttemptType ==
    ASSUME AttemptOK, NEW j \in Jobs, attempt[j] < MAX_RETRIES,
           attempt' = [attempt EXCEPT ![j] = @ + 1]
    PROVE  AttemptOK'
  BY LimitsAssumption DEF AttemptOK

(* Deferred cleanup removes the files or leaves them. *)
LEMMA CleanedLaterType ==
    ASSUME FilesOK, NEW j \in Jobs, CleanedLater(j)
    PROVE  FilesOK'
  BY DEF CleanedLater, FilesOK

(* A download retry writes one record and at most one scheduler entry. *)
LEMMA RetryDownloadType ==
    ASSUME RecordsOK, QueuesOK, NEW j \in Jobs,
           NEW s \in Statuses, NEW r \in Statuses, RetryDownload(j, s, r)
    PROVE  RecordsOK' /\ retryDl' \in SUBSET Jobs
  BY RecordDownloadType DEF RetryDownload, QueuesOK

(* Renewing a source job, or failing it, writes well-typed values. *)
LEMMA RenewOrFailType ==
    ASSUME RecordsOK, QueuesOK, AttemptOK, ProcessingOK,
           NEW j \in Jobs, RenewOrFail(j)
    PROVE  RecordsOK' /\ retryDl' \in SUBSET Jobs /\ AttemptOK' /\ ProcessingOK'
<1>1. CASE j \in Renewable /\ can_schedule_download(j)
  BY <1>1, RecordDownloadType, FirstAttemptType, StatusNames
     DEF RenewOrFail, QueuesOK, ProcessingOK, FirstAttempt
<1>2. CASE j \notin Renewable \/ ~can_schedule_download(j)
  BY <1>2, RecordDownloadType, StatusNames
     DEF RenewOrFail, QueuesOK, ProcessingOK, DropProcessing, AttemptOK
<1> QED
  BY <1>1, <1>2

(* An upload retry keeps the files or loses them with the descriptor. *)
LEMMA RetryUploadType ==
    ASSUME RecordsOK, QueuesOK, FilesOK, NEW j \in Jobs, RetryUpload(j)
    PROVE  RecordsOK' /\ retryUl' \in SUBSET Jobs /\ FilesOK'
  BY RecordUploadType, StatusNames DEF RetryUpload, QueuesOK, FilesOK, Cleaned

(* Renewing a job from the upload lane, or closing that lane. *)
LEMMA RenewOrFailUploadType ==
    ASSUME RecordsOK, QueuesOK, AttemptOK, ProcessingOK, FilesOK,
           NEW j \in Jobs, NEW s \in Statuses, RenewOrFailUpload(j, s)
    PROVE  RecordsOK' /\ QueuesOK' /\ AttemptOK' /\ ProcessingOK' /\ FilesOK'
<1>1. FilesOK' /\ dq' = dq /\ uq' = uq /\ retryUl' = retryUl
  BY DEF RenewOrFailUpload, FilesOK, Cleaned
<1>2. CASE j \in Renewable /\ can_schedule_download(j)
  BY <1>1, <1>2, RecordDownloadType, FirstAttemptType, StatusNames
     DEF RenewOrFailUpload, QueuesOK, ProcessingOK
<1>3. CASE j \in Renewable /\ ~can_schedule_download(j)
  BY <1>1, <1>3, RecordBothType, StatusNames
     DEF RenewOrFailUpload, QueuesOK, ProcessingOK, AttemptOK
<1>4. CASE j \notin Renewable
  BY <1>1, <1>4, RecordUploadType
     DEF RenewOrFailUpload, QueuesOK, ProcessingOK, AttemptOK
<1> QED
  BY <1>2, <1>3, <1>4

(* The two ways an admitted job enters the download lane. *)
LEMMA RetainType ==
    ASSUME RecordsOK, QueuesOK, AttemptOK, NEW j \in Jobs,
           retain_media_job_for_admission_backpressure(j)
    PROVE  RecordsOK' /\ QueuesOK' /\ AttemptOK'
  BY RecordDownloadType, FirstAttemptType, StatusNames
     DEF retain_media_job_for_admission_backpressure, QueuesOK

LEMMA EnqueueDownloadType ==
    ASSUME RecordsOK, QueuesOK, AttemptOK, NEW j \in Jobs, enqueue_download(j)
    PROVE  RecordsOK' /\ QueuesOK' /\ AttemptOK'
<1>1. AttemptOK'
  BY FirstAttemptType DEF enqueue_download
<1>2. RecordsOK'
  BY RecordDownloadType, StatusNames DEF enqueue_download
<1>3. QueuesOK'
  BY DEF enqueue_download, QueuesOK
<1> QED
  BY <1>1, <1>2, <1>3

-----------------------------------------------------------------------------
(* What a step leaves alone stays well typed. *)
LEMMA Frames ==
    /\ RecordsOK /\ UNCHANGED recordVars => RecordsOK'
    /\ QueuesOK /\ UNCHANGED queueVars => QueuesOK'
    /\ MediaOK /\ UNCHANGED mediaVars => MediaOK'
    /\ DownloadersOK /\ UNCHANGED dlVars => DownloadersOK'
    /\ UploaderOK /\ UNCHANGED upVars => UploaderOK'
    /\ ProducersOK /\ UNCHANGED admVars => ProducersOK'
    /\ RecoveryOK /\ UNCHANGED healVars => RecoveryOK'
    /\ BootOK /\ UNCHANGED bootVars => BootOK'
  BY DEF RecordsOK, QueuesOK, MediaOK, DownloadersOK, UploaderOK, ProducersOK,
         RecoveryOK, BootOK, recordVars, queueVars, mediaVars, dlVars, upVars,
         admVars, healVars, bootVars

(* A worker that leaves its job is idle. *)
LEMMA DlDoneType ==
    ASSUME DownloadersOK, NEW w \in DlWorkers, DlDone(w)
    PROVE  DownloadersOK'
  BY DEF DownloadersOK, DlDone, DlStages

(* A busy download worker holds a job. *)
LEMMA DlBusy ==
    ASSUME DownloadersOK, NEW w \in DlWorkers, dlStage[w] # "idle"
    PROVE  dlJob[w] \in Jobs
  BY DEF DownloadersOK

(* Every step of a download worker preserves the types. *)
LEMMA DownloadType ==
    ASSUME TypeOK, NEW w \in DlWorkers, DownloadNext(w)
    PROVE  TypeOK'
<1> DEFINE j == dlJob[w]
<1> USE DEF TypeOK
<1>1. ASSUME NEW k \in Jobs, download_take(w, k) PROVE TypeOK'
  <2>1. RecordsOK'
    BY <1>1, RecordDownloadType, StatusNames DEF download_take
  <2>2. QueuesOK'
    BY <1>1 DEF download_take, QueuesOK
  <2>3. DownloadersOK'
    BY <1>1, JobsAssumption DEF download_take, DownloadersOK, DlStages
  <2> QED
    BY <1>1, <2>1, <2>2, <2>3, Frames DEF download_take
<1>2. ASSUME download_duplicate(w) PROVE TypeOK'
  <2>1. j \in Jobs
    BY <1>2, DlBusy DEF download_duplicate
  <2>2. RecordsOK' /\ QueuesOK'
    BY <1>2, <2>1, RecordDownloadType, StatusNames, Frames
       DEF download_duplicate
  <2>3. MediaOK'
    BY <1>2, <2>1, MediaParts, MediaPartsPrime, CleanedLaterType
       DEF download_duplicate, DropProcessing, AttemptOK, ProcessingOK
  <2>4. DownloadersOK'
    BY <1>2, DlDoneType DEF download_duplicate
  <2> QED
    BY <1>2, <2>2, <2>3, <2>4, Frames DEF download_duplicate
<1>3. ASSUME download_start(w) PROVE TypeOK'
  <2>1. DownloadersOK'
    BY <1>3 DEF download_start, DownloadersOK, DlStages
  <2> QED
    BY <1>3, <2>1, Frames DEF download_start
<1>4. ASSUME download_deferred(w) PROVE TypeOK'
  <2>1. j \in Jobs
    BY <1>4, DlBusy DEF download_deferred
  <2>2. RecordsOK' /\ QueuesOK'
    BY <1>4, <2>1, RetryDownloadType, StatusNames
       DEF download_deferred, QueuesOK
  <2>3. MediaOK'
    BY <1>4, <2>1, MediaParts, MediaPartsPrime, FirstAttemptType
       DEF download_deferred, FirstAttempt, FilesOK, ProcessingOK
  <2>4. DownloadersOK'
    BY <1>4, DlDoneType DEF download_deferred
  <2> QED
    BY <1>4, <2>2, <2>3, <2>4, Frames DEF download_deferred
<1>5. ASSUME download_complete(w) PROVE TypeOK'
  <2>1. j \in Jobs
    BY <1>5, DlBusy DEF download_complete
  <2>2. RecordsOK'
    BY <1>5, <2>1, RecordBothType, StatusNames DEF download_complete
  <2>3. MediaOK'
    BY <1>5, <2>1 DEF download_complete, MediaOK
  <2>4. DownloadersOK'
    BY <1>5 DEF download_complete, DownloadersOK, DlStages
  <2> QED
    BY <1>5, <2>2, <2>3, <2>4, Frames DEF download_complete
<1>6. ASSUME download_handoff(w) PROVE TypeOK'
  <2>1. j \in Jobs
    BY <1>6, DlBusy DEF download_handoff
  <2>2. QueuesOK'
    BY <1>6, <2>1, Frames
       DEF download_handoff, QueuesOK
  <2>3. MediaOK'
    BY <1>6, <2>1, MediaParts, MediaPartsPrime, FirstAttemptType
       DEF download_handoff, FirstAttempt, FilesOK, ProcessingOK
  <2>4. DownloadersOK'
    BY <1>6, DlDoneType DEF download_handoff
  <2> QED
    BY <1>6, <2>2, <2>3, <2>4, Frames DEF download_handoff
<1>7. ASSUME download_stalled(w) PROVE TypeOK'
  <2>1. j \in Jobs
    BY <1>7, DlBusy DEF download_stalled
  <2>2. RecordsOK' /\ QueuesOK'
    BY <1>7, <2>1, RetryDownloadType, StatusNames
       DEF download_stalled, QueuesOK
  <2>3. MediaOK'
    BY <1>7, <2>1, MediaParts, MediaPartsPrime, NextAttemptType,
       CleanedLaterType
       DEF download_stalled, ProcessingOK, FilesOK
  <2>4. DownloadersOK'
    BY <1>7, DlDoneType DEF download_stalled
  <2> QED
    BY <1>7, <2>2, <2>3, <2>4, Frames DEF download_stalled
<1>8. ASSUME download_flood_wait(w) PROVE TypeOK'
  <2>1. j \in Jobs
    BY <1>8, DlBusy DEF download_flood_wait
  <2>2. RecordsOK' /\ QueuesOK' /\ AttemptOK' /\ ProcessingOK'
    BY <1>8, <2>1, RetryDownloadType, RenewOrFailType, NextAttemptType,
       MediaParts, StatusNames
       DEF download_flood_wait, QueuesOK, ProcessingOK, DropProcessing
  <2>3. MediaOK'
    BY <1>8, <2>1, <2>2, MediaParts, MediaPartsPrime, CleanedLaterType
       DEF download_flood_wait
  <2>4. DownloadersOK'
    BY <1>8, DlDoneType DEF download_flood_wait
  <2> QED
    BY <1>8, <2>2, <2>3, <2>4, Frames DEF download_flood_wait
<1>9. ASSUME download_reconnect(w) PROVE TypeOK'
  <2>1. j \in Jobs
    BY <1>9, DlBusy DEF download_reconnect
  <2>2. RecordsOK' /\ QueuesOK'
    BY <1>9, <2>1, RetryDownloadType, StatusNames
       DEF download_reconnect, QueuesOK
  <2>3. MediaOK'
    BY <1>9, <2>1, MediaParts, MediaPartsPrime, CleanedLaterType
       DEF download_reconnect, ProcessingOK, AttemptOK
  <2>4. DownloadersOK'
    BY <1>9, DlDoneType DEF download_reconnect
  <2> QED
    BY <1>9, <2>2, <2>3, <2>4, Frames DEF download_reconnect
<1>10. ASSUME download_dead(w) PROVE TypeOK'
  <2>1. j \in Jobs
    BY <1>10, DlBusy DEF download_dead
  <2>2. RecordsOK' /\ QueuesOK'
    BY <1>10, <2>1, RecordDownloadType, StatusNames, Frames
       DEF download_dead
  <2>3. MediaOK'
    BY <1>10, <2>1, MediaParts, MediaPartsPrime, CleanedLaterType,
       JobsAssumption
       DEF download_dead, DropProcessing, AttemptOK, ProcessingOK
  <2>4. DownloadersOK'
    BY <1>10, DlDoneType DEF download_dead
  <2> QED
    BY <1>10, <2>2, <2>3, <2>4, Frames DEF download_dead
<1>11. ASSUME download_source_error(w) PROVE TypeOK'
  <2>1. j \in Jobs
    BY <1>11, DlBusy DEF download_source_error
  <2>2. RecordsOK' /\ QueuesOK' /\ AttemptOK' /\ ProcessingOK'
    BY <1>11, <2>1, RecordDownloadType, RenewOrFailType, MediaParts, StatusNames
       DEF download_source_error, QueuesOK, ProcessingOK, AttemptOK,
           DropProcessing
  <2>3. MediaOK'
    BY <1>11, <2>1, <2>2, MediaParts, MediaPartsPrime, CleanedLaterType
       DEF download_source_error
  <2>4. DownloadersOK'
    BY <1>11, DlDoneType DEF download_source_error
  <2> QED
    BY <1>11, <2>2, <2>3, <2>4, Frames DEF download_source_error
<1>12. ASSUME download_error(w) PROVE TypeOK'
  <2>1. j \in Jobs
    BY <1>12, DlBusy DEF download_error
  <2>2. RecordsOK' /\ QueuesOK' /\ AttemptOK' /\ ProcessingOK'
    BY <1>12, <2>1, RetryDownloadType, RenewOrFailType, NextAttemptType,
       RecordDownloadType, MediaParts, StatusNames
       DEF download_error, QueuesOK, ProcessingOK, AttemptOK, DropProcessing
  <2>3. MediaOK'
    BY <1>12, <2>1, <2>2, MediaParts, MediaPartsPrime, CleanedLaterType
       DEF download_error
  <2>4. DownloadersOK'
    BY <1>12, DlDoneType DEF download_error
  <2> QED
    BY <1>12, <2>2, <2>3, <2>4, Frames DEF download_error
<1> QED
  BY <1>1, <1>2, <1>3, <1>4, <1>5, <1>6, <1>7, <1>8, <1>9, <1>10, <1>11, <1>12
     DEF DownloadNext

-----------------------------------------------------------------------------
(* A busy upload worker holds a job; a freed one does not. *)
LEMMA UpBusy ==
    ASSUME UploaderOK, upStage # "idle"
    PROVE  upJob \in Jobs
  BY DEF UploaderOK

LEMMA UpFreeType ==
    ASSUME UpFree
    PROVE  UploaderOK'
  BY DEF UploaderOK, UpFree, UpStages

(* Every step of the upload worker preserves the types. *)
LEMMA UploadType ==
    ASSUME TypeOK, UploadNext
    PROVE  TypeOK'
<1> USE DEF TypeOK
<1>1. ASSUME NEW k \in Jobs, upload_take(k) PROVE TypeOK'
  <2>1. QueuesOK' /\ UploaderOK'
    BY <1>1, JobsAssumption DEF upload_take, QueuesOK, UploaderOK, UpStages
  <2> QED
    BY <1>1, <2>1, Frames DEF upload_take
<1>2. ASSUME upload_grace PROVE TypeOK'
  <2>1. upJob \in Jobs
    BY <1>2, UpBusy DEF upload_grace
  <2>2. RecordsOK' /\ QueuesOK' /\ FilesOK'
    BY <1>2, <2>1, RetryUploadType, MediaParts
       DEF upload_grace, QueuesOK
  <2>3. MediaOK'
    BY <1>2, <2>1, <2>2, MediaParts, MediaPartsPrime
       DEF upload_grace, AttemptOK, ProcessingOK
  <2>4. UploaderOK'
    BY <1>2, UpFreeType DEF upload_grace
  <2> QED
    BY <1>2, <2>2, <2>3, <2>4, Frames DEF upload_grace
<1>3. ASSUME upload_duplicate PROVE TypeOK'
  <2>1. upJob \in Jobs
    BY <1>3, UpBusy DEF upload_duplicate
  <2>2. RecordsOK' /\ QueuesOK'
    BY <1>3, <2>1, RecordUploadType, StatusNames, Frames
       DEF upload_duplicate
  <2>3. MediaOK'
    BY <1>3, <2>1, <2>2, MediaParts
       DEF upload_duplicate, Cleaned, MediaOK
  <2>4. UploaderOK'
    BY <1>3, UpFreeType DEF upload_duplicate
  <2> QED
    BY <1>3, <2>2, <2>3, <2>4, Frames DEF upload_duplicate
<1>4. ASSUME upload_start PROVE TypeOK'
  <2>1. upJob \in Jobs
    BY <1>4, UpBusy DEF upload_start
  <2>2. RecordsOK'
    BY <1>4, <2>1, RecordUploadType, StatusNames DEF upload_start
  <2>3. UploaderOK'
    BY <1>4, <2>1, JobsAssumption DEF upload_start, UploaderOK, UpStages
  <2> QED
    BY <1>4, <2>2, <2>3, Frames DEF upload_start
<1>5. ASSUME upload_done PROVE TypeOK'
  <2>1. upJob \in Jobs /\ UidOf[upJob] \in Uids
    BY <1>5, UpBusy, JobsAssumption DEF upload_done
  <2>2. RecordsOK' /\ QueuesOK'
    BY <1>5, <2>1, RecordBothType, StatusNames, Frames DEF upload_done
  <2>3. delivered' \in [Uids -> Nat]
    BY <1>5, <2>1 DEF upload_done, MediaOK
  <2>4. files' \in [Jobs -> BOOLEAN]
    BY <1>5, <2>1 DEF upload_done, MediaOK, Cleaned
  <2>5. MediaOK'
    BY <1>5, <2>1, <2>3, <2>4 DEF upload_done, MediaOK
  <2>6. UploaderOK'
    BY <1>5, UpFreeType DEF upload_done
  <2> QED
    BY <1>5, <2>2, <2>5, <2>6, Frames DEF upload_done
<1>6. ASSUME upload_stalled PROVE TypeOK'
  <2>1. upJob \in Jobs
    BY <1>6, UpBusy DEF upload_stalled
  <2>2. RecordsOK' /\ QueuesOK' /\ FilesOK'
    BY <1>6, <2>1, RetryUploadType, MediaParts
       DEF upload_stalled, QueuesOK
  <2>3. MediaOK'
    BY <1>6, <2>1, <2>2, MediaParts, MediaPartsPrime
       DEF upload_stalled, AttemptOK, ProcessingOK
  <2>4. UploaderOK'
    BY <1>6, UpFreeType DEF upload_stalled
  <2> QED
    BY <1>6, <2>2, <2>3, <2>4, Frames DEF upload_stalled
<1>7. ASSUME upload_reconnect PROVE TypeOK'
  <2>1. upJob \in Jobs
    BY <1>7, UpBusy DEF upload_reconnect
  <2>2. RecordsOK' /\ QueuesOK' /\ FilesOK'
    BY <1>7, <2>1, RetryUploadType, MediaParts
       DEF upload_reconnect, QueuesOK
  <2>3. MediaOK'
    BY <1>7, <2>1, <2>2, MediaParts, MediaPartsPrime
       DEF upload_reconnect, AttemptOK, ProcessingOK
  <2>4. UploaderOK'
    BY <1>7, UpFreeType DEF upload_reconnect
  <2> QED
    BY <1>7, <2>2, <2>3, <2>4, Frames DEF upload_reconnect
<1>8. ASSUME upload_flood_wait PROVE TypeOK'
  <2>1. upJob \in Jobs
    BY <1>8, UpBusy DEF upload_flood_wait
  <2>2. RecordsOK' /\ QueuesOK' /\ FilesOK' /\ AttemptOK' /\ ProcessingOK'
    BY <1>8, <2>1, RetryUploadType, RenewOrFailUploadType, CountAttemptType,
       MediaParts, StatusNames
       DEF upload_flood_wait, QueuesOK, ProcessingOK
  <2>3. MediaOK'
    BY <1>8, <2>1, <2>2, MediaParts, MediaPartsPrime
       DEF upload_flood_wait
  <2>4. UploaderOK'
    BY <1>8, UpFreeType DEF upload_flood_wait
  <2> QED
    BY <1>8, <2>2, <2>3, <2>4, Frames DEF upload_flood_wait
<1>9. ASSUME upload_fresh_download PROVE TypeOK'
  <2>1. upJob \in Jobs
    BY <1>9, UpBusy DEF upload_fresh_download
  <2>2. RecordsOK' /\ QueuesOK' /\ AttemptOK'
    BY <1>9, <2>1, RecordBothType, FirstAttemptType, MediaParts, StatusNames
       DEF upload_fresh_download, QueuesOK
  <2>3. MediaOK'
    BY <1>9, <2>1, <2>2, MediaParts, MediaPartsPrime
       DEF upload_fresh_download, Cleaned, FilesOK, ProcessingOK
  <2>4. UploaderOK'
    BY <1>9, UpFreeType DEF upload_fresh_download
  <2> QED
    BY <1>9, <2>2, <2>3, <2>4, Frames DEF upload_fresh_download
<1>10. ASSUME upload_dead PROVE TypeOK'
  <2>1. upJob \in Jobs
    BY <1>10, UpBusy DEF upload_dead
  <2>2. RecordsOK' /\ QueuesOK'
    BY <1>10, <2>1, RecordUploadType, StatusNames, Frames
       DEF upload_dead
  <2>3. MediaOK'
    BY <1>10, <2>1, <2>2, JobsAssumption
       DEF upload_dead, Cleaned, MediaOK
  <2>4. UploaderOK'
    BY <1>10, UpFreeType DEF upload_dead
  <2> QED
    BY <1>10, <2>2, <2>3, <2>4, Frames DEF upload_dead
<1>11. ASSUME upload_invalid PROVE TypeOK'
  <2>1. upJob \in Jobs
    BY <1>11, UpBusy DEF upload_invalid
  <2>2. RecordsOK' /\ QueuesOK' /\ FilesOK' /\ AttemptOK' /\ ProcessingOK'
    BY <1>11, <2>1, RenewOrFailUploadType, MediaParts, StatusNames
       DEF upload_invalid
  <2>3. MediaOK'
    BY <1>11, <2>1, <2>2, MediaParts, MediaPartsPrime
       DEF upload_invalid
  <2>4. UploaderOK'
    BY <1>11, UpFreeType DEF upload_invalid
  <2> QED
    BY <1>11, <2>2, <2>3, <2>4, Frames DEF upload_invalid
<1>12. ASSUME upload_error PROVE TypeOK'
  <2>1. upJob \in Jobs
    BY <1>12, UpBusy DEF upload_error
  <2>2. RecordsOK' /\ QueuesOK' /\ FilesOK' /\ AttemptOK' /\ ProcessingOK'
    BY <1>12, <2>1, RetryUploadType, RenewOrFailUploadType, CountAttemptType,
       MediaParts, StatusNames
       DEF upload_error, QueuesOK, ProcessingOK
  <2>3. MediaOK'
    BY <1>12, <2>1, <2>2, MediaParts, MediaPartsPrime
       DEF upload_error
  <2>4. UploaderOK'
    BY <1>12, UpFreeType DEF upload_error
  <2> QED
    BY <1>12, <2>2, <2>3, <2>4, Frames DEF upload_error
<1> QED
  BY <1>1, <1>2, <1>3, <1>4, <1>5, <1>6, <1>7, <1>8, <1>9, <1>10, <1>11, <1>12
     DEF UploadNext

-----------------------------------------------------------------------------
(* A producer that is admitting holds a job; a released one does not. *)
LEMMA AdmBusy ==
    ASSUME ProducersOK, NEW p \in Producers, admStage[p] # "idle"
    PROVE  admJob[p] \in Jobs
  BY DEF ProducersOK

LEMMA ReleaseType ==
    ASSUME ProducersOK, NEW p \in Producers, Release(p)
    PROVE  ProducersOK'
  BY DEF ProducersOK, Release

(* Every step of a producer preserves the types. *)
LEMMA ProducerType ==
    ASSUME TypeOK, NEW p \in Producers, ProducerNext(p)
    PROVE  TypeOK'
<1> USE DEF TypeOK
<1>1. ASSUME NEW k \in Jobs, check_and_mark_processing(p, k) PROVE TypeOK'
  <2>1. MediaOK'
    BY <1>1, JobsAssumption DEF check_and_mark_processing, MediaOK
  <2>2. ProducersOK'
    BY <1>1, JobsAssumption DEF check_and_mark_processing, ProducersOK
  <2> QED
    BY <1>1, <2>1, <2>2, Frames DEF check_and_mark_processing
<1>2. ASSUME enqueue_duplicate(p) PROVE TypeOK'
  <2>1. admJob[p] \in Jobs
    BY <1>2, AdmBusy DEF enqueue_duplicate
  <2>3. MediaOK'
    BY <1>2, <2>1, JobsAssumption
       DEF enqueue_duplicate, MediaOK
  <2>4. ProducersOK'
    BY <1>2, ReleaseType DEF enqueue_duplicate
  <2> QED
    BY <1>2, <2>3, <2>4, Frames DEF enqueue_duplicate
<1>3. ASSUME enqueue_filtered(p) PROVE TypeOK'
  <2>1. ProducersOK'
    BY <1>3 DEF enqueue_filtered, ProducersOK
  <2> QED
    BY <1>3, <2>1, Frames DEF enqueue_filtered
<1>4. ASSUME enqueue_retained(p) PROVE TypeOK'
  <2>1. admJob[p] \in Jobs
    BY <1>4, AdmBusy DEF enqueue_retained
  <2>2. RecordsOK' /\ QueuesOK' /\ AttemptOK'
    BY <1>4, <2>1, RetainType, MediaParts
       DEF enqueue_retained
  <2>3. MediaOK'
    BY <1>4, <2>1, <2>2, MediaParts, MediaPartsPrime
       DEF enqueue_retained, FilesOK, ProcessingOK
  <2>4. ProducersOK'
    BY <1>4, ReleaseType DEF enqueue_retained
  <2> QED
    BY <1>4, <2>2, <2>3, <2>4, Frames DEF enqueue_retained
<1>5. ASSUME fast_path_copied(p) PROVE TypeOK'
  <2>1. admJob[p] \in Jobs
    BY <1>5, AdmBusy DEF fast_path_copied
  <2>3. MediaOK'
    BY <1>5, <2>1, JobsAssumption
       DEF fast_path_copied, MediaOK
  <2>4. ProducersOK'
    BY <1>5, ReleaseType DEF fast_path_copied
  <2> QED
    BY <1>5, <2>3, <2>4, Frames DEF fast_path_copied
<1>6. ASSUME fast_path_ambiguous(p) PROVE TypeOK'
  <2>1. admJob[p] \in Jobs
    BY <1>6, AdmBusy DEF fast_path_ambiguous
  <2>2. RecordsOK' /\ QueuesOK' /\ AttemptOK'
    BY <1>6, <2>1, RecordDownloadType, FirstAttemptType, MediaParts, StatusNames
       DEF fast_path_ambiguous, QueuesOK
  <2>3. MediaOK'
    BY <1>6, <2>1, <2>2, MediaParts, MediaPartsPrime
       DEF fast_path_ambiguous, FilesOK, ProcessingOK
  <2>4. ProducersOK'
    BY <1>6, ReleaseType DEF fast_path_ambiguous
  <2> QED
    BY <1>6, <2>2, <2>3, <2>4, Frames DEF fast_path_ambiguous
<1>7. ASSUME enqueue_queued(p) PROVE TypeOK'
  <2>1. admJob[p] \in Jobs
    BY <1>7, AdmBusy DEF enqueue_queued
  <2>2. RecordsOK' /\ QueuesOK' /\ AttemptOK'
    BY <1>7, <2>1, EnqueueDownloadType, MediaParts
       DEF enqueue_queued
  <2>3. MediaOK'
    BY <1>7, <2>1, <2>2, MediaParts, MediaPartsPrime
       DEF enqueue_queued, FilesOK, ProcessingOK
  <2>4. ProducersOK'
    BY <1>7, ReleaseType DEF enqueue_queued
  <2> QED
    BY <1>7, <2>2, <2>3, <2>4, Frames DEF enqueue_queued
<1> QED
  BY <1>1, <1>2, <1>3, <1>4, <1>5, <1>6, <1>7 DEF ProducerNext

-----------------------------------------------------------------------------
(* Queue recovery *)

(* A finished item leaves the healer without a job. *)
LEMMA HealResumeType ==
    ASSUME RecoveryOK, NEW n \in Nat, HealResume(n)
    PROVE  RecoveryOK'
  BY JobsAssumption DEF RecoveryOK, HealResume, HealStages

(* A duplicate is closed in the lanes that have a record. *)
LEMMA SkipDuplicateType ==
    ASSUME RecordsOK, NEW j \in Jobs, NEW lane \in Lanes, SkipDuplicate(j, lane)
    PROVE  RecordsOK'
<1>1. CASE lane = "upload"
  <2>1. (IF dl[j] = "none" THEN "none" ELSE "skipped_duplicate") \in Statuses
    BY StatusNames
  <2> QED
    BY <1>1, <2>1, RecordBothType, StatusNames DEF SkipDuplicate
<1>2. CASE lane # "upload"
  BY <1>2, RecordDownloadType, StatusNames DEF SkipDuplicate
<1> QED
  BY <1>1, <1>2

(* The healer holds a job while it fetches, filters or admits. *)
LEMMA HealBusy ==
    ASSUME RecoveryOK, healStage \in {"fetch", "filter", "admit"}
    PROVE  healJob \in Jobs /\ recovered \in Nat /\ recovered + 1 \in Nat
           /\ healLane \in Lanes
  BY DEF RecoveryOK

(* Every step of queue recovery preserves the types. *)
LEMMA RecoveryType ==
    ASSUME TypeOK, RecoveryNext
    PROVE  TypeOK'
<1> USE DEF TypeOK
<1>1. ASSUME recovery_pass_start PROVE TypeOK'
  <2>1. RecoveryOK'
    BY <1>1 DEF recovery_pass_start, heal_snapshot, RecoveryOK, HealStages
  <2> QED
    BY <1>1, <2>1, Frames DEF recovery_pass_start
<1>2. ASSUME healer_pass_start PROVE TypeOK'
  <2>1. RecoveryOK'
    BY <1>2 DEF healer_pass_start, heal_snapshot, RecoveryOK, HealStages
  <2>2. MediaOK'
    BY <1>2 DEF healer_pass_start, MediaOK
  <2> QED
    BY <1>2, <2>1, <2>2, Frames DEF healer_pass_start
<1>3. ASSUME NEW k \in Jobs, NEW lane \in Lanes, heal_complete(k, lane)
      PROVE  TypeOK'
  <2>1. RecordsOK'
    BY <1>3, SkipDuplicateType DEF heal_complete
  <2>2. RecoveryOK'
    BY <1>3 DEF heal_complete, HealDrop, RecoveryOK
  <2> QED
    BY <1>3, <2>1, <2>2, Frames DEF heal_complete
<1>4. ASSUME NEW k \in Jobs, NEW lane \in Lanes, heal_deferred(k, lane)
      PROVE  TypeOK'
  <2>1. RecoveryOK'
    BY <1>4 DEF heal_deferred, HealDrop, RecoveryOK
  <2> QED
    BY <1>4, <2>1, Frames DEF heal_deferred
<1>5. ASSUME NEW k \in Jobs, NEW lane \in Lanes, heal_fetch(k, lane)
      PROVE  TypeOK'
  <2>1. RecoveryOK'
    BY <1>5, JobsAssumption DEF heal_fetch, HealDrop, RecoveryOK, HealStages
  <2> QED
    BY <1>5, <2>1, Frames DEF heal_fetch
<1>6. ASSUME heal_missing PROVE TypeOK'
  <2>1. healJob \in Jobs /\ recovered \in Nat
    BY <1>6, HealBusy DEF heal_missing
  <2>2. RecordsOK' /\ RecoveryOK'
    BY <1>6, <2>1, RecordUploadType, RecordDownloadType, HealResumeType,
       StatusNames
       DEF heal_missing
  <2> QED
    BY <1>6, <2>2, Frames DEF heal_missing
<1>7. ASSUME heal_upload PROVE TypeOK'
  <2>1. healJob \in Jobs /\ recovered \in Nat /\ recovered + 1 \in Nat
    BY <1>7, HealBusy DEF heal_upload
  <2>2. RecordsOK' /\ AttemptOK'
    BY <1>7, <2>1, RecordUploadType, FirstAttemptType, MediaParts, StatusNames
       DEF heal_upload
  <2>3. QueuesOK' /\ ProcessingOK'
    BY <1>7, <2>1, JobsAssumption
       DEF heal_upload, QueuesOK, ProcessingOK, MediaOK
  <2>4. RecoveryOK'
    BY <1>7, <2>1, HealResumeType DEF heal_upload
  <2>5. MediaOK'
    BY <1>7, <2>2, <2>3, MediaParts, MediaPartsPrime DEF heal_upload, FilesOK
  <2> QED
    BY <1>7, <2>2, <2>3, <2>4, <2>5, Frames DEF heal_upload
<1>8. ASSUME heal_readmit PROVE TypeOK'
  <2>1. healJob \in Jobs
    BY <1>8, HealBusy DEF heal_readmit
  <2>2. MediaOK'
    BY <1>8, <2>1, JobsAssumption DEF heal_readmit, MediaOK
  <2>3. RecoveryOK'
    BY <1>8 DEF heal_readmit, RecoveryOK, HealStages
  <2> QED
    BY <1>8, <2>2, <2>3, Frames DEF heal_readmit
<1>9. ASSUME heal_filter_drops PROVE TypeOK'
  <2>1. healJob \in Jobs /\ recovered \in Nat /\ healLane \in Lanes
    BY <1>9, HealBusy DEF heal_filter_drops
  <2>2. RecordsOK'
    BY <1>9, <2>1, SkipDuplicateType, Frames DEF heal_filter_drops
  <2>3. MediaOK'
    BY <1>9 DEF heal_filter_drops, MediaOK
  <2>4. RecoveryOK'
    BY <1>9, <2>1, HealResumeType DEF heal_filter_drops
  <2> QED
    BY <1>9, <2>2, <2>3, <2>4, Frames DEF heal_filter_drops
<1>10. ASSUME heal_filter_passes PROVE TypeOK'
  <2>1. RecoveryOK'
    BY <1>10 DEF heal_filter_passes, RecoveryOK, HealStages
  <2> QED
    BY <1>10, <2>1, Frames DEF heal_filter_passes
<1>11. ASSUME heal_retained \/ heal_queued PROVE TypeOK'
  <2>1. healJob \in Jobs /\ recovered + 1 \in Nat
    BY <1>11, HealBusy DEF heal_retained, heal_queued
  <2>2. RecordsOK' /\ QueuesOK' /\ AttemptOK'
    BY <1>11, <2>1, RetainType, EnqueueDownloadType, MediaParts
       DEF heal_retained, heal_queued
  <2>3. MediaOK'
    BY <1>11, <2>2, MediaParts, MediaPartsPrime
       DEF heal_retained, heal_queued, FilesOK, ProcessingOK
  <2>4. RecoveryOK'
    BY <1>11, <2>1, HealResumeType DEF heal_retained, heal_queued
  <2> QED
    BY <1>11, <2>2, <2>3, <2>4, Frames DEF heal_retained, heal_queued
<1>12. ASSUME recovery_pass_end PROVE TypeOK'
  <2>1. RecoveryOK' /\ BootOK'
    BY <1>12 DEF recovery_pass_end, RecoveryOK, BootOK, HealStages, Lanes
  <2> QED
    BY <1>12, <2>1, Frames DEF recovery_pass_end
<1> QED
  BY <1>1, <1>2, <1>3, <1>4, <1>5, <1>6, <1>7, <1>8, <1>9, <1>10, <1>11, <1>12
     DEF RecoveryNext

-----------------------------------------------------------------------------
(* The retry scheduler, the state files and a restart *)

LEMMA SystemType ==
    ASSUME TypeOK,
           \/ clear_processing_cache_if_idle
           \/ \E j \in Jobs :
                retry_scheduler_download(j) \/ retry_scheduler_upload(j)
           \/ save_download_queue \/ save_upload_queue
           \/ Restart
    PROVE  TypeOK'
<1> USE DEF TypeOK
<1>1. CASE clear_processing_cache_if_idle
  <2>1. MediaOK'
    BY <1>1 DEF clear_processing_cache_if_idle, MediaOK
  <2> QED
    BY <1>1, <2>1, Frames DEF clear_processing_cache_if_idle
<1>2. ASSUME NEW j \in Jobs,
             retry_scheduler_download(j) \/ retry_scheduler_upload(j)
      PROVE  TypeOK'
  <2>1. QueuesOK'
    BY <1>2 DEF retry_scheduler_download, retry_scheduler_upload, QueuesOK
  <2> QED
    BY <1>2, <2>1, Frames DEF retry_scheduler_download, retry_scheduler_upload
<1>3. CASE save_download_queue \/ save_upload_queue
  <2>1. RecordsOK'
    BY <1>3 DEF save_download_queue, save_upload_queue, RecordsOK
  <2> QED
    BY <1>3, <2>1, Frames DEF save_download_queue, save_upload_queue
<1>4. CASE Restart
  <2>1. RecordsOK'
    BY <1>4 DEF Restart, RecordsOK, ReservationOrders
  <2>2. QueuesOK' /\ MediaOK'
    BY <1>4, LimitsAssumption DEF Restart, QueuesOK, MediaOK
  <2>3. DownloadersOK' /\ UploaderOK' /\ ProducersOK'
    BY <1>4
       DEF Restart, DownloadersOK, UploaderOK, ProducersOK, DlStages, UpStages
  <2>4. RecoveryOK'
    BY <1>4 DEF Restart, RecoveryOK, HealStages, Lanes
  <2>5. BootOK'
    <3>1. ready' = FALSE /\ crashes' = crashes + 1
      BY <1>4 DEF Restart
    <3>2. crashes \in Nat
      BY DEF BootOK
    <3>3. ready' \in BOOLEAN
      BY <3>1, Zenon
    <3>4. crashes' \in Nat
      BY <3>1, <3>2
    <3> QED
      BY <3>3, <3>4 DEF BootOK
  <2> QED
    BY <2>1, <2>2, <2>3, <2>4, <2>5
<1> QED
  BY <1>1, <1>2, <1>3, <1>4

-----------------------------------------------------------------------------

LEMMA InitType == Init => TypeOK
<1> SUFFICES ASSUME Init PROVE TypeOK
  OBVIOUS
<1>1. RecordsOK
  BY StatusNames DEF Init, RecordsOK
<1>2. QueuesOK /\ MediaOK
  BY LimitsAssumption DEF Init, QueuesOK, MediaOK
<1>3. DownloadersOK /\ UploaderOK /\ ProducersOK
  BY DEF Init, DownloadersOK, UploaderOK, ProducersOK, DlStages, UpStages
<1>4. RecoveryOK /\ BootOK
  BY DEF Init, RecoveryOK, BootOK, HealStages, Lanes
<1> QED
  BY <1>1, <1>2, <1>3, <1>4 DEF TypeOK

LEMMA NextType ==
    ASSUME TypeOK, [Next]_vars
    PROVE  TypeOK'
<1>1. Next => TypeOK'
  BY ProducerType, DownloadType, UploadType, RecoveryType, SystemType
     DEF Next
<1>2. UNCHANGED vars => TypeOK'
  BY Frames DEF TypeOK, vars
<1> QED
  BY <1>1, <1>2

(* Every reachable state of the pipeline is well typed. *)
THEOREM TypeCorrect == Spec => []TypeOK
  BY InitType, NextType, PTL DEF Spec
=============================================================================
