----------------------------- MODULE MediaPipeline -----------------------------
(***************************************************************************)
(* One uploaded media file: the client posts it to the object store under  *)
(* a presigned policy and confirms the upload; the API (MediaService)      *)
(* marks it and queues two jobs; worker processes strip the metadata and   *)
(* scan for malware, and each job writes the status the API reports.       *)
(*                                                                         *)
(* Every await on the object store, on Redis or on the scanner ends a      *)
(* step.  The object store and the BullMQ queue are external: jobs are     *)
(* taken in FIFO order, and the job of a worker that crashed returns to    *)
(* the head of the queue until it has stalled more often than allowed.     *)
(***************************************************************************)
EXTENDS Naturals, Sequences

CONSTANTS
  Confirms,     \* confirm-upload calls
  Workers,      \* media worker processes
  MaxUploads,   \* bound of the model: uploads under the policy of the key
  MaxStalls     \* BullMQ maxStalledCount: crashes after which a job is dropped

ASSUME BoundsAssumption == MaxUploads \in Nat /\ MaxStalls \in Nat

VARIABLES
  kind,         \* what the key's extension says: an image or a video
  policyOpen,   \* the presigned policy has not expired
  object,       \* the stored object: its upload, 0 for none, and whether it is stripped
  row,          \* status of the Media row, "none" when there is no row
  queue,        \* jobs that wait
  confirming,   \* per confirm call: its stage and the upload its HEAD request saw
  working,      \* per worker: the job it runs
  uploads,      \* history: number of uploads
  confirmed,    \* history: newest upload a call has marked as processing
  abandoned,    \* history: an exif job was not queued, or was dropped
  infected      \* history: a scan has found a threat

history == <<confirmed, abandoned, infected>>
vars == <<kind, policyOpen, object, row, queue, confirming, working, uploads, history>>

JobNames == {"exif-strip", "malware-scan"}

\* How often a job has stalled is known to BullMQ only.
Jobs == [name : JobNames, stalls : 0 .. MaxStalls]

Versions == 0 .. MaxUploads

Idle == [stage |-> "idle"]

ActiveJobs == [stage : {"started", "downloaded", "stored"}, job : Jobs, copy : Versions]

CallStages == {"none", "checked", "marked", "exifQueued", "done"}

-----------------------------------------------------------------------------
(* The client and the object store *)

Upload ==
  /\ policyOpen
  /\ uploads < MaxUploads
  /\ uploads' = uploads + 1
  /\ object' = [version |-> uploads', stripped |-> FALSE]
  /\ UNCHANGED <<kind, policyOpen, row, queue, confirming, working, history>>

PolicyExpires ==
  /\ policyOpen
  /\ policyOpen' = FALSE
  /\ UNCHANGED <<kind, object, row, queue, confirming, working, uploads, history>>

-----------------------------------------------------------------------------
(* MediaService.confirmUpload *)

Advance(c, stage) == confirming' = [confirming EXCEPT ![c].stage = stage]

ObjectExists(c) ==
  /\ confirming[c].stage = "none"
  /\ object.version > 0
  /\ confirming' = [confirming EXCEPT ![c] = [stage |-> "checked", seen |-> object.version]]
  /\ UNCHANGED <<kind, policyOpen, object, row, queue, working, uploads, history>>

\* Mutant of MarkProcessing: writes a status that getStatus does not know.
MarkUploaded(c) ==
  /\ confirming[c].stage = "checked"
  /\ row' = "uploaded"
  /\ confirmed' = IF confirming[c].seen > confirmed THEN confirming[c].seen ELSE confirmed
  /\ Advance(c, "marked")
  /\ UNCHANGED <<kind, policyOpen, object, queue, working, uploads, abandoned, infected>>

\* upsert: the row of an earlier confirm goes back to processing.
MarkProcessing(c) ==
  /\ confirming[c].stage = "checked"
  /\ row' = "processing"
  /\ confirmed' = IF confirming[c].seen > confirmed THEN confirming[c].seen ELSE confirmed
  /\ Advance(c, "marked")
  /\ UNCHANGED <<kind, policyOpen, object, queue, working, uploads, abandoned, infected>>

Add(name) == queue' = Append(queue, [name |-> name, stalls |-> 0])

\* Mutant of QueueExifStrip: the scan is queued first.
QueueScanFirst(c) ==
  /\ confirming[c].stage = "marked"
  /\ queue' = queue \o <<[name |-> "malware-scan", stalls |-> 0], [name |-> "exif-strip", stalls |-> 0]>>
  /\ Advance(c, "done")
  /\ UNCHANGED <<kind, policyOpen, object, row, working, uploads, history>>

QueueExifStrip(c) ==
  /\ confirming[c].stage = "marked"
  /\ Add("exif-strip")
  /\ Advance(c, "exifQueued")
  /\ UNCHANGED <<kind, policyOpen, object, row, working, uploads, history>>

QueueMalwareScan(c) ==
  /\ confirming[c].stage = "exifQueued"
  /\ Add("malware-scan")
  /\ Advance(c, "done")
  /\ UNCHANGED <<kind, policyOpen, object, row, working, uploads, history>>

\* The queue rejects the job or the process dies: the row stays as it is.
ConfirmFails(c) ==
  /\ confirming[c].stage \in {"checked", "marked", "exifQueued"}
  /\ abandoned' = (abandoned \/ confirming[c].stage = "marked")
  /\ Advance(c, "done")
  /\ UNCHANGED <<kind, policyOpen, object, row, queue, working, uploads, confirmed, infected>>

-----------------------------------------------------------------------------
(* Workers *)

Runs(w, name, stage) ==
  /\ working[w].stage = stage
  /\ working[w].job.name = name

TakeJob(w) ==
  /\ working[w] = Idle
  /\ queue # <<>>
  /\ working' = [working EXCEPT ![w] = [stage |-> "started", job |-> Head(queue), copy |-> 0]]
  /\ queue' = Tail(queue)
  /\ UNCHANGED <<kind, policyOpen, object, row, confirming, uploads, history>>

EndJob(w) == working' = [working EXCEPT ![w] = Idle]

Download(w) ==
  /\ kind = "image"
  /\ Runs(w, "exif-strip", "started")
  /\ working' = [working EXCEPT ![w].stage = "downloaded", ![w].copy = object.version]
  /\ UNCHANGED <<kind, policyOpen, object, row, queue, confirming, uploads, history>>

\* The cleaned copy replaces whatever is stored by now.
StoreCleaned(w) ==
  /\ Runs(w, "exif-strip", "downloaded")
  /\ object' = [version |-> working[w].copy, stripped |-> TRUE]
  /\ working' = [working EXCEPT ![w].stage = "stored"]
  /\ UNCHANGED <<kind, policyOpen, row, queue, confirming, uploads, history>>

\* Mutant of MarkReady: does not wait for the cleaned copy.
MarkReadyEarly(w) ==
  /\ Runs(w, "exif-strip", IF kind = "image" THEN "downloaded" ELSE "started")
  /\ row' = "ready"
  /\ EndJob(w)
  /\ UNCHANGED <<kind, policyOpen, object, queue, confirming, uploads, history>>

\* A video is ready at once.
MarkReady(w) ==
  /\ Runs(w, "exif-strip", IF kind = "image" THEN "stored" ELSE "started")
  /\ row' = "ready"
  /\ EndJob(w)
  /\ UNCHANGED <<kind, policyOpen, object, queue, confirming, uploads, history>>

\* Mutant of ExifFails: the error is swallowed.
ExifFailsSilently(w) ==
  /\ kind = "image"
  /\ \E stage \in {"started", "downloaded", "stored"} : Runs(w, "exif-strip", stage)
  /\ row' = "ready"
  /\ EndJob(w)
  /\ UNCHANGED <<kind, policyOpen, object, queue, confirming, uploads, history>>

\* Mutant of ExifFails: the job ends and the row still says processing.
ExifFailsUnmarked(w) ==
  /\ kind = "image"
  /\ \E stage \in {"started", "downloaded", "stored"} : Runs(w, "exif-strip", stage)
  /\ EndJob(w)
  /\ UNCHANGED <<kind, policyOpen, object, row, queue, confirming, uploads, history>>

\* A failed job is not retried: jobs are added without attempts.
ExifFails(w) ==
  /\ kind = "image"
  /\ \E stage \in {"started", "downloaded", "stored"} : Runs(w, "exif-strip", stage)
  /\ row' = "failed"
  /\ EndJob(w)
  /\ UNCHANGED <<kind, policyOpen, object, queue, confirming, uploads, history>>

ScanIsClean(w) ==
  /\ Runs(w, "malware-scan", "started")
  /\ EndJob(w)
  /\ UNCHANGED <<kind, policyOpen, object, row, queue, confirming, uploads, history>>

ScanFindsThreat(w) ==
  /\ Runs(w, "malware-scan", "started")
  /\ row' = "failed"
  /\ infected' = TRUE
  /\ EndJob(w)
  /\ UNCHANGED <<kind, policyOpen, object, queue, confirming, uploads, confirmed, abandoned>>

Crash(w) ==
  LET job == working[w].job
  IN /\ working[w] # Idle
     /\ EndJob(w)
     /\ IF job.stalls < MaxStalls
        THEN queue' = <<[job EXCEPT !.stalls = @ + 1]>> \o queue /\ UNCHANGED abandoned
        ELSE abandoned' = (abandoned \/ job.name = "exif-strip") /\ UNCHANGED queue
     /\ UNCHANGED <<kind, policyOpen, object, row, confirming, uploads, confirmed, infected>>

-----------------------------------------------------------------------------
Init ==
  /\ kind \in {"image", "video"}
  /\ policyOpen = TRUE
  /\ object = [version |-> 0, stripped |-> FALSE]
  /\ row = "none"
  /\ queue = <<>>
  /\ confirming = [c \in Confirms |-> [stage |-> "none", seen |-> 0]]
  /\ working = [w \in Workers |-> Idle]
  /\ uploads = 0
  /\ confirmed = 0
  /\ abandoned = FALSE
  /\ infected = FALSE

\* What a confirm call does next once its object has been found.
Confirm(c) == MarkProcessing(c) \/ QueueExifStrip(c) \/ QueueMalwareScan(c) \/ ConfirmFails(c)

\* What a worker that does not crash does next.
Work(w) ==
  \/ TakeJob(w) \/ Download(w) \/ StoreCleaned(w) \/ MarkReady(w)
  \/ ExifFails(w) \/ ScanIsClean(w) \/ ScanFindsThreat(w)

Next ==
  \/ Upload
  \/ PolicyExpires
  \/ \E c \in Confirms : ObjectExists(c) \/ Confirm(c)
  \/ \E w \in Workers : Work(w) \/ Crash(w)

Spec == Init /\ [][Next]_vars

\* A call whose request to Redis is answered or fails goes on; a worker process is
\* restarted after a crash and works through its queue.  Clients owe nothing.
Fairness == (\A c \in Confirms : WF_vars(Confirm(c))) /\ (\A w \in Workers : WF_vars(Work(w)))

FairSpec == Spec /\ Fairness

-----------------------------------------------------------------------------
(* Properties *)

\* Rows, jobs and calls hold values of their types.
TypeOK ==
  /\ kind \in {"image", "video"}
  /\ policyOpen \in BOOLEAN
  /\ object \in [version : Versions, stripped : BOOLEAN]
  /\ row \in {"none", "processing", "ready", "failed"}
  /\ queue \in Seq(Jobs)
  /\ confirming \in [Confirms -> [stage : CallStages, seen : Versions]]
  /\ working \in [Workers -> {Idle} \cup ActiveJobs]
  /\ uploads \in Versions
  /\ confirmed \in Versions
  /\ abandoned \in BOOLEAN
  /\ infected \in BOOLEAN

ExifPending ==
  \/ \E c \in Confirms : confirming[c].stage \in {"checked", "marked"}
  \/ \E i \in DOMAIN queue : queue[i].name = "exif-strip"
  \/ \E w \in Workers : working[w] # Idle /\ working[w].job.name = "exif-strip"

\* A picture that was uploaded once is never reported ready with its metadata, however
\* often it is confirmed and whatever crashes.
ReadyIsStripped == kind = "image" /\ row = "ready" /\ uploads <= 1 => object.stripped

\* When the work is done and the picture is reported ready, no upload that was
\* confirmed has kept its metadata, even if it replaced another while that was being
\* processed.
ConfirmedIsStripped ==
  kind = "image" /\ row = "ready" /\ ~ExifPending /\ ~abandoned
    => object.stripped \/ object.version > confirmed

\* confirmUpload queues the strip job before the scan, so the verdict on a file that
\* is confirmed once is not overwritten by the ready of its own strip job.
VerdictStands ==
  infected /\ (\E c \in Confirms : \A d \in Confirms \ {c} : confirming[d].stage = "none")
    => row # "ready"

\* Processing ends, in ready or in failed.
ProcessingEnds == (row = "processing") ~> (row # "processing" \/ abandoned)
=============================================================================
