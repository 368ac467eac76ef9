--------------------------- MODULE MediaPipeline ---------------------------
(***************************************************************************)
(* A video from the admin's upload to a playable manifest: the admin's     *)
(* upload page, AdminMediaService over the table media_assets, the BullMQ  *)
(* queue of transcode jobs, and the one worker process that runs           *)
(* TranscodeProcessor one job at a time, with the object store between.    *)
(*                                                                         *)
(* An asset is a pair <<owner, kind>>, the table's unique key.             *)
(*                                                                         *)
(*   upload[c]   an upload page at work, and its API calls                 *)
(*   queue       the jobs waiting, first in, first out                     *)
(*   worker      the job in progress, and how far it is                    *)
(*   orphans     jobs whose worker died, until BullMQ notices              *)
(***************************************************************************)
EXTENDS Integers, Sequences, FiniteSets

CONSTANTS
    Owners,         \* titles and episodes
    Sources,        \* object keys of raw uploads: random, never drawn twice
    Uploads,        \* upload pages at work at once
    Renditions,     \* how many renditions a video is transcoded into
    Segments,       \* into how many segments each upload is cut
    MaxFaults,      \* bound: failed uploads, statements, calls and workers
    None            \* SQL's NULL, and a missing object

ASSUME MediaAssumption ==
    /\ Renditions \in Nat \ {0}
    /\ Segments \in [Sources -> Nat \ {0}]
    /\ MaxFaults \in Nat

VARIABLES
    asset,          \* the table media_assets, by unique key
    uploaded,       \* raw uploads that are in the bucket
    hls,            \* the bucket's hls/<asset>/: what each object was made from
    upload, queue, worker, orphans,
    dropped,        \* assets of jobs that BullMQ has given up
    disturbed,      \* history: assets touched while the pipeline was at work
    abandoned,      \* history: assets an upload of which broke off
    faults

admin    == <<upload, disturbed, abandoned>>
pipeline == <<queue, worker, orphans, dropped>>
media    == <<asset, uploaded, hls, admin, pipeline, faults>>

Kinds  == {"TRAILER", "FULL"}
Assets == Owners \X Kinds
Fulls  == Owners \X {"FULL"}

(* The objects of a transcoded video under hls/<asset>/: the playlist and  *)
(* the segments of every rendition, and the master playlist, the manifest  *)
(* that is played.  Their keys are the same for every video of the asset.  *)
Playlist(r) == <<r, 0>>
Manifest    == <<Renditions + 1, 0>>
Objects(s)  == ((1..Renditions) \X (0..Segments[s])) \cup {Manifest}
Keys        == UNION {Objects(s) : s \in Sources}
Master      == "hls"

Statuses == {"ABSENT", "PENDING", "READY", "FAILED"}
MediaAsset == [status : Statuses, source : Sources \cup {None},
               manifest : Sources \cup {None, Master}]
NoAsset == [status |-> "ABSENT", source |-> None, manifest |-> None]

Upload == [pc : {"idle", "put", "read", "pend", "finish"},
           asset : Assets \cup {None}, source : Sources \cup {None}]
NoUpload == [pc |-> "idle", asset |-> None, source |-> None]

(* stalled: how many workers died on the job.                              *)
Job == [asset : Fulls, source : Sources, stalled : 0..1]

(* left: the objects the worker has still to upload.                       *)
Worker == [pc : {"idle", "download", "hung", "upload", "ready", "failed"},
           job : Job \cup {None}, left : SUBSET Keys]
IdleWorker == [pc |-> "idle", job |-> None, left |-> {}]

(* NULL is no key, no row and no job.                                      *)
ASSUME NoneAssumption == None \notin Sources \cup Assets \cup Job

MediaTypeOK ==
    /\ asset \in [Assets -> MediaAsset]
    /\ uploaded \subseteq Sources
    /\ hls \in [Fulls -> [Keys -> Sources \cup {None}]]
    /\ upload \in [Uploads -> Upload]
    /\ queue \in Seq(Job)
    /\ worker \in Worker
    /\ orphans \subseteq Job
    /\ dropped \subseteq Fulls
    /\ disturbed \cup abandoned \subseteq Assets
    /\ faults \in Nat

MediaInit ==
    /\ asset = [a \in Assets |-> NoAsset]
    /\ uploaded = {}
    /\ hls = [a \in Fulls |-> [o \in Keys |-> None]]
    /\ upload = [c \in Uploads |-> NoUpload]
    /\ queue = <<>>
    /\ worker = IdleWorker
    /\ orphans = {}
    /\ dropped = {}
    /\ disturbed = {}
    /\ abandoned = {}
    /\ faults = 0

----------------------------------------------------------------------------
Ready(a) == asset[a].status = "READY"

(* Every job BullMQ knows of, and those of one asset.                      *)
Jobs == {queue[i] : i \in DOMAIN queue} \cup orphans \cup ({worker.job} \ {None})
JobsOf(a) == {j \in Jobs : j.asset = a}

(* Those that a worker has begun.  Only a job a worker died on waits twice.*)
Begun(a) == {j \in JobsOf(a) : j = worker.job \/ j \in orphans \/ j.stalled = 1}

Quiet(a) ==
    /\ JobsOf(a) = {}
    /\ \A c \in Uploads : upload[c].asset # a

(* Mutant of UpdateOnRegister: the status is not reset.                    *)
KeepStatusOnRegister(a, s) ==
    [asset[a] EXCEPT !.source = s,
                     !.status = IF @ = "ABSENT" THEN "PENDING" ELSE @]

(* registerMediaAsset's upsert.                                            *)
UpdateOnRegister(a, s) == [status |-> "PENDING", source |-> s, manifest |-> None]

(* An object key nothing refers to yet.                                    *)
Fresh(s) ==
    /\ s \notin uploaded
    /\ \A a \in Assets : asset[a].source # s
    /\ \A c \in Uploads : upload[c].source # s
    /\ \A j \in Jobs : j.source # s

----------------------------------------------------------------------------
(* The admin's upload page and AdminMediaService.                          *)

(* registerMediaAsset: the owner exists (a conjunct of whoever uses this   *)
(* action), the row is created or reset, and the page gets a signed URL    *)
(* for a fresh object key.                                                 *)
Register(c, a, s) ==
    /\ upload[c].pc = "idle"
    /\ Fresh(s)
    /\ asset' = [asset EXCEPT ![a] = UpdateOnRegister(a, s)]
    /\ upload' = [upload EXCEPT ![c] = [pc |-> "put", asset |-> a, source |-> s]]
    /\ disturbed' = IF Quiet(a) THEN disturbed ELSE disturbed \cup {a}
    /\ UNCHANGED <<uploaded, hls, abandoned, pipeline, faults>>

Put(c) ==
    /\ upload[c].pc = "put"
    /\ uploaded' = uploaded \cup {upload[c].source}
    /\ upload' = [upload EXCEPT ![c].pc = "read"]
    /\ UNCHANGED <<asset, hls, disturbed, abandoned, pipeline, faults>>

(* The object store refuses the upload: the page does not look at the      *)
(* status of the response and goes on.                                     *)
PutRefused(c) ==
    /\ upload[c].pc = "put"
    /\ faults < MaxFaults
    /\ faults' = faults + 1
    /\ upload' = [upload EXCEPT ![c].pc = "read"]
    /\ UNCHANGED <<asset, uploaded, hls, disturbed, abandoned, pipeline>>

(* completeUpload: reads the row,                                          *)
CompleteRead(c) ==
    /\ upload[c].pc = "read"
    /\ upload' = [upload EXCEPT ![c].pc = "pend", ![c].source = asset[upload[c].asset].source]
    /\ UNCHANGED <<asset, uploaded, hls, disturbed, abandoned, pipeline, faults>>

(* sets it PENDING,                                                        *)
CompletePend(c) ==
    /\ upload[c].pc = "pend"
    /\ asset' = [asset EXCEPT ![upload[c].asset].status = "PENDING"]
    /\ upload' = [upload EXCEPT ![c].pc = "finish"]
    /\ UNCHANGED <<uploaded, hls, disturbed, abandoned, pipeline, faults>>

(* and queues a job for the source it has read,                            *)
Enqueue(c) ==
    LET a == upload[c].asset IN
    /\ upload[c].pc = "finish"
    /\ a \in Fulls
    /\ queue' = Append(queue, [asset |-> a, source |-> upload[c].source, stalled |-> 0])
    /\ upload' = [upload EXCEPT ![c] = NoUpload]
    /\ UNCHANGED <<asset, uploaded, hls, worker, orphans, dropped, disturbed, abandoned, faults>>

(* or, for a trailer, points at that source as it is.                      *)
FinishTrailer(c) ==
    LET a == upload[c].asset IN
    /\ upload[c].pc = "finish"
    /\ a \notin Fulls
    /\ asset' = [asset EXCEPT ![a].status = "READY", ![a].manifest = upload[c].source]
    /\ upload' = [upload EXCEPT ![c] = NoUpload]
    /\ UNCHANGED <<uploaded, hls, disturbed, abandoned, pipeline, faults>>

(* The page is left, or a statement or the queue fails: 500, shown to the  *)
(* admin by nothing but a button that is enabled again.                    *)
UploadFails(c) ==
    /\ upload[c].pc # "idle"
    /\ faults < MaxFaults
    /\ faults' = faults + 1
    /\ upload' = [upload EXCEPT ![c] = NoUpload]
    /\ abandoned' = abandoned \cup {upload[c].asset}
    /\ UNCHANGED <<asset, uploaded, hls, disturbed, pipeline>>

----------------------------------------------------------------------------
(* The worker.                                                             *)

TakeJob ==
    /\ worker.pc = "idle"
    /\ queue # <<>>
    /\ worker' = [pc |-> "download", job |-> Head(queue), left |-> {}]
    /\ queue' = Tail(queue)
    /\ UNCHANGED <<asset, uploaded, hls, admin, orphans, dropped, faults>>

(* Mutant of Download: that the object is missing goes unnoticed.          *)
DownloadUnchecked ==
    /\ worker.pc = "download"
    /\ worker' = [worker EXCEPT !.pc = "upload", !.left = Objects(worker.job.source)]
    /\ UNCHANGED <<asset, uploaded, hls, admin, queue, orphans, dropped, faults>>

(* downloadSource; a missing object throws.                                *)
Download ==
    LET s == worker.job.source IN
    /\ worker.pc = "download"
    /\ worker' = IF s \in uploaded
                 THEN [worker EXCEPT !.pc = "upload", !.left = Objects(s)]
                 ELSE [worker EXCEPT !.pc = "failed"]
    /\ UNCHANGED <<asset, uploaded, hls, admin, queue, orphans, dropped, faults>>

(* The body breaks off or stalls.  Only the file it is written to is       *)
(* listened to, so that nothing is resolved or rejected; the job goes on,  *)
(* its lock renewed, until the process ends.                               *)
DownloadHangs ==
    /\ worker.pc = "download"
    /\ worker.job.source \in uploaded
    /\ faults < MaxFaults
    /\ faults' = faults + 1
    /\ worker' = [worker EXCEPT !.pc = "hung"]
    /\ UNCHANGED <<asset, uploaded, hls, admin, queue, orphans, dropped>>

(* Rendition by rendition, each directory in the order of its names: the   *)
(* playlist before the segments it lists.                                  *)
Precedes(o, p) == o[1] < p[1] \/ (o[1] = p[1] /\ o[2] < p[2])

(* Mutant of AllIsUp: the loop's end is taken for the end of the upload.   *)
RenditionsAreUp(left) == left \subseteq {Manifest}

AllIsUp(left) == left = {}

(* One PUT, over what the asset had under this key.  The renditions are    *)
(* transcoded in between.                                                  *)
UploadFile ==
    /\ worker.pc = "upload"
    /\ \E o \in worker.left :
        LET rest == worker.left \ {o} IN
        /\ \A p \in rest : Precedes(o, p)
        /\ hls' = [hls EXCEPT ![worker.job.asset][o] = worker.job.source]
        /\ worker' = [worker EXCEPT !.left = rest, !.pc = IF AllIsUp(rest) THEN "ready" ELSE @]
    /\ UNCHANGED <<asset, uploaded, admin, queue, orphans, dropped, faults>>

(* The object store refuses a GET or a PUT, or ffmpeg the file: the catch  *)
(* block.                                                                  *)
TranscodeFails ==
    /\ worker.pc \in {"download", "upload"}
    /\ worker' = [worker EXCEPT !.pc = "failed"]
    /\ UNCHANGED <<asset, uploaded, hls, admin, queue, orphans, dropped, faults>>

MarkReady ==
    /\ worker.pc = "ready"
    /\ asset' = [asset EXCEPT ![worker.job.asset].status = "READY",
                              ![worker.job.asset].manifest = Master]
    /\ worker' = IdleWorker
    /\ UNCHANGED <<uploaded, hls, admin, queue, orphans, dropped, faults>>

(* Mutants of FailedStatus: the error is only logged; and a status that is *)
(* no longer PENDING is left alone.                                        *)
FailedIsOnlyLogged(a) == asset[a].status
FailedOnlyIfPending(a) == IF asset[a].status = "PENDING" THEN "FAILED" ELSE asset[a].status

FailedStatus(a) == "FAILED"

MarkFailed ==
    LET a == worker.job.asset IN
    /\ worker.pc = "failed"
    /\ asset' = [asset EXCEPT ![a].status = FailedStatus(a)]
    /\ worker' = IdleWorker
    /\ UNCHANGED <<uploaded, hls, admin, queue, orphans, dropped, faults>>

(* The update of the row throws: from the try block into the catch block.  *)
ReadyThrows ==
    /\ worker.pc = "ready"
    /\ faults < MaxFaults
    /\ faults' = faults + 1
    /\ worker' = [worker EXCEPT !.pc = "failed"]
    /\ UNCHANGED <<asset, uploaded, hls, admin, queue, orphans, dropped>>

(* Out of the catch block, or before the try block, where the directory to *)
(* work in is made, the job fails for good (BullMQ's one attempt).         *)
JobThrows ==
    /\ worker.pc \in {"download", "failed"}
    /\ faults < MaxFaults
    /\ faults' = faults + 1
    /\ dropped' = dropped \cup {worker.job.asset}
    /\ worker' = IdleWorker
    /\ UNCHANGED <<asset, uploaded, hls, admin, queue, orphans>>

(* The process dies; Docker starts another, which takes other jobs.        *)
WorkerDies ==
    /\ worker.pc # "idle"
    /\ faults < MaxFaults
    /\ faults' = faults + 1
    /\ orphans' = orphans \cup {worker.job}
    /\ worker' = IdleWorker
    /\ UNCHANGED <<asset, uploaded, hls, admin, queue, dropped>>

(* BullMQ's stalled check: the job is put first in the queue, the first    *)
(* time, and given up the second.                                          *)
RecoverStalled(j) ==
    /\ j \in orphans
    /\ orphans' = orphans \ {j}
    /\ IF j.stalled = 0
       THEN queue' = <<[j EXCEPT !.stalled = 1]>> \o queue /\ UNCHANGED dropped
       ELSE dropped' = dropped \cup {j.asset} /\ UNCHANGED queue
    /\ UNCHANGED <<asset, uploaded, hls, admin, worker, faults>>

----------------------------------------------------------------------------
WorkerStep ==
    TakeJob \/ Download \/ UploadFile \/ TranscodeFails \/ MarkReady \/ MarkFailed

MediaNext ==
    \/ \E c \in Uploads :
        \/ Put(c) \/ PutRefused(c)
        \/ CompleteRead(c) \/ CompletePend(c) \/ Enqueue(c) \/ FinishTrailer(c)
        \/ UploadFails(c)
    \/ WorkerStep
    \/ DownloadHangs \/ ReadyThrows \/ JobThrows \/ WorkerDies
    \/ \E j \in orphans : RecoverStalled(j)

(* The worker runs on, and BullMQ's timer finds the jobs of dead workers.  *)
MediaFairness ==
    /\ WF_media(WorkerStep)
    /\ WF_media(\E j \in orphans : RecoverStalled(j))

----------------------------------------------------------------------------
(* Safety.                                                                 *)

(* The asset has every object of a video made from s.                      *)
IsOf(a, s) == \A o \in Objects(s) : hls[a][o] = s

(* There was a moment when the asset had every object of some video.       *)
WasComplete(a) == \E s \in uploaded : \A o \in Objects(s) : hls[a][o] \in uploaded

(* Every segment that a rendition's playlist lists is in the bucket.       *)
Streams(a, r) ==
    LET s == hls[a][Playlist(r)] IN
    s \in uploaded /\ \A k \in 1..Segments[s] : hls[a][<<r, k>>] \in uploaded

(* A READY full video has a manifest, and every object of some video: the  *)
(* worker's update comes last, and nothing a later upload does takes an    *)
(* object away.  A playlist that lists segments which are not there is     *)
(* that of a job begun since and still to end, unless BullMQ gave it up.   *)
ReadyIsComplete ==
    \A a \in Fulls : Ready(a) =>
        /\ asset[a].manifest = Master
        /\ WasComplete(a)
        /\ a \notin dropped => \A r \in 1..Renditions :
                Streams(a, r) \/ \E j \in Begun(a) : j.source = hls[a][Playlist(r)]

(* Once every job begun on an asset has ended, and none was given up, a    *)
(* READY video is of one piece, whatever was registered, queued, failed or *)
(* ran twice.                                                              *)
SettledIsWhole ==
    \A a \in Fulls \ dropped : Ready(a) /\ Begun(a) = {} => \E s \in uploaded : IsOf(a, s)

(* Replacing a video while nothing is at work on it is exact: the old one  *)
(* is not offered as the new one, neither before nor during the transcode. *)
UndisturbedIsExact ==
    \A a \in Fulls \ disturbed : Ready(a) => IsOf(a, asset[a].source)

(* A video that reads PENDING is being uploaded or has a job, if only one  *)
(* that hangs, unless an upload of it broke off (in completeUpload: after  *)
(* the row was set, and before the job was queued) or BullMQ has given its *)
(* job up.  In no other way does a row stay PENDING with nobody left.      *)
PendingIsAtWork ==
    \A a \in Assets \ (abandoned \cup dropped) :
        asset[a].status = "PENDING" => ~Quiet(a)

----------------------------------------------------------------------------
(* The inductive invariant.                                                *)

(* A page at work has a row, with a key in it: nothing deletes a row.      *)
UploadsHaveRows ==
    \A c \in Uploads :
        \/ upload[c] = NoUpload
        \/ /\ upload[c].pc # "idle"
           /\ upload[c].asset \in Assets
           /\ upload[c].source \in Sources
           /\ asset[upload[c].asset].source \in Sources

(* The worker has downloaded what it transcodes, and the objects it has    *)
(* uploaded are still its own: it is the only one that writes them.        *)
WorkerIsSound ==
    \/ worker = IdleWorker
    \/ /\ worker.pc # "idle"
       /\ worker.job \in Job
       /\ worker.pc = "ready" => worker.left = {}
       /\ worker.pc \in {"upload", "ready"} =>
            /\ worker.job.source \in uploaded
            /\ \A o \in Objects(worker.job.source) \ worker.left :
                    hls[worker.job.asset][o] = worker.job.source

(* Whatever is at work on an undisturbed video is at work on the source    *)
(* its row names.                                                          *)
WorkIsOfTheRow ==
    \A a \in Fulls \ disturbed :
        /\ \A j \in JobsOf(a) : j.source = asset[a].source
        /\ \A c \in Uploads : upload[c].asset = a => upload[c].source = asset[a].source

(* What holds of the pipeline, after any steps of it.                      *)
MediaInv ==
    /\ MediaTypeOK
    /\ UploadsHaveRows
    /\ WorkerIsSound
    /\ WorkIsOfTheRow
    /\ ReadyIsComplete
    /\ SettledIsWhole
    /\ UndisturbedIsExact
    /\ PendingIsAtWork

(* Liveness: a queued job ends, and then the asset is not PENDING, unless  *)
(* BullMQ gave it up, or the worker hangs.                                 *)
TranscodeSettles ==
    \A a \in Fulls : JobsOf(a) # {} ~>
        (asset[a].status # "PENDING" \/ a \in dropped \/ worker.pc = "hung")

============================================================================
