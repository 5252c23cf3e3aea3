-------------------------- MODULE MediaPipelineProofs --------------------------
(***************************************************************************)
(* Proofs about MediaPipeline, for every number of confirm calls, uploads  *)
(* and crashes.  Typing and ReadyIsStripped hold with any number of        *)
(* workers; what depends on the order of the jobs is proved for the one    *)
(* worker the repository runs: with two, a strip job may end after the     *)
(* scan behind it, or after a strip job behind it has failed.              *)
(***************************************************************************)
EXTENDS MediaPipeline, TLAPS

-----------------------------------------------------------------------------
(* The inductive invariants *)

\* There is a job or a call only for a file that was uploaded, and whatever was seen or
\* confirmed is one of the uploads.
Uploaded ==
  /\ object.version <= uploads
  /\ confirmed <= uploads
  /\ \A c \in Confirms : confirming[c].seen <= uploads
  /\ \A w \in Workers : working[w] # Idle => working[w].copy <= uploads
  /\ uploads = 0 =>
       /\ \A c \in Confirms : confirming[c].stage = "none"
       /\ row = "none" /\ queue = <<>> /\ \A w \in Workers : working[w] = Idle

\* The strip job of a picture has stored the copy; with a single upload nothing can have
\* replaced it.
OnceStripped ==
  kind = "image" /\ uploads <= 1 =>
    /\ row = "ready" => object.stripped
    /\ \A w \in Workers : Runs(w, "exif-strip", "stored") => object.stripped

TypeInv == TypeOK /\ Uploaded

InQueue(name) == \E i \in DOMAIN queue : queue[i].name = name

Working(w, name) == working[w] # Idle /\ working[w].job.name = name

\* No upload that was confirmed has kept its metadata.
Clean == object.stripped \/ object.version > confirmed

\* A strip job waits, or will.
StripDue == (\E c \in Confirms : confirming[c].stage = "marked") \/ InQueue("exif-strip")

\* A picture that is ready, or about to be marked so, is clean, or a strip job is still to come.
StripInv ==
  kind = "image" /\ ~abandoned =>
    /\ row = "ready" => Clean \/ StripDue \/ \E w \in Workers : Working(w, "exif-strip")
    /\ \A w \in Workers : Runs(w, "exif-strip", "stored") => Clean \/ StripDue

\* No call but c has begun.
Only(c) == \A d \in Confirms \ {c} : confirming[d].stage = "none"

\* No strip job waits behind a scan.
StripFirst == \A i, j \in DOMAIN queue : i < j /\ queue[i].name = "malware-scan" => queue[j].name # "exif-strip"

\* The strip job of the file that c confirms precedes its scan: the scan is queued last,
\* when it runs no strip job waits, and after its verdict none is left.
ScanLast(c, w) ==
  /\ confirming[c].stage # "done" => ~infected /\ ~InQueue("malware-scan") /\ ~Working(w, "malware-scan")
  /\ infected => row # "ready" /\ ~InQueue("exif-strip") /\ ~Working(w, "exif-strip")
  /\ Working(w, "malware-scan") => ~InQueue("exif-strip")

VerdictInv ==
  \A c \in Confirms : Only(c) => StripFirst /\ \A w \in Workers : ScanLast(c, w)

-----------------------------------------------------------------------------
(* Jobs in the queue *)

\* A job is added behind the others.
LEMMA QueueAdd ==
  ASSUME NEW q \in Seq(Jobs), NEW job \in Jobs
  PROVE  /\ Append(q, job) \in Seq(Jobs)
         /\ DOMAIN q = 1 .. Len(q) /\ Len(q) \in Nat
         /\ DOMAIN Append(q, job) = 1 .. (Len(q) + 1)
         /\ \A i \in DOMAIN q : Append(q, job)[i] = q[i]
         /\ Append(q, job)[Len(q) + 1] = job
OBVIOUS

\* A worker takes the job in front; the others move up.
LEMMA QueueTake ==
  ASSUME NEW q \in Seq(Jobs), q # <<>>
  PROVE  /\ Head(q) \in Jobs /\ Head(q) = q[1] /\ 1 \in DOMAIN q
         /\ Tail(q) \in Seq(Jobs)
         /\ DOMAIN q = 1 .. Len(q) /\ Len(q) \in Nat \ {0}
         /\ DOMAIN Tail(q) = 1 .. (Len(q) - 1)
         /\ \A i \in DOMAIN Tail(q) : Tail(q)[i] = q[i + 1] /\ i + 1 \in DOMAIN q
OBVIOUS

\* The job of a crashed worker goes back to the front.
LEMMA QueueReturn ==
  ASSUME NEW q \in Seq(Jobs), NEW job \in Jobs
  PROVE  /\ <<job>> \o q \in Seq(Jobs)
         /\ DOMAIN q = 1 .. Len(q) /\ Len(q) \in Nat
         /\ DOMAIN (<<job>> \o q) = 1 .. (Len(q) + 1)
         /\ (<<job>> \o q)[1] = job
         /\ \A i \in DOMAIN q : (<<job>> \o q)[i + 1] = q[i]
OBVIOUS

-----------------------------------------------------------------------------
(* Typing *)

LEMMA RunsActive ==
  ASSUME TypeOK, NEW w \in Workers, working[w] # Idle
  PROVE  working[w] \in ActiveJobs /\ working[w].job \in Jobs /\ working[w].job.name \in JobNames
BY DEF TypeOK, ActiveJobs, Jobs

\* A stage of a job is a stage of an active job.
LEMMA RunsNotIdle ==
  ASSUME TypeOK, NEW w \in Workers, NEW name, NEW stage, stage # "idle", Runs(w, name, stage)
  PROVE  working[w] \in ActiveJobs /\ working[w].stage = stage /\ Working(w, name)
BY DEF TypeOK, Runs, Idle, Working

LEMMA NextTypeOK == TypeOK /\ [Next]_vars => TypeOK'
<1> SUFFICES ASSUME TypeOK, [Next]_vars PROVE TypeOK'
  OBVIOUS
<1> USE BoundsAssumption DEF history
<1>1. CASE Upload
  BY <1>1 DEF Upload, TypeOK, Versions
<1>2. CASE PolicyExpires
  BY <1>2 DEF PolicyExpires, TypeOK
<1>3. ASSUME NEW c \in Confirms, ObjectExists(c) \/ Confirm(c)
      PROVE  TypeOK'
  <2>1. confirming' \in [Confirms -> [stage : CallStages, seen : Versions]]
    BY <1>3 DEF ObjectExists, Confirm, MarkProcessing, QueueExifStrip, QueueMalwareScan, ConfirmFails, Advance,
       TypeOK, CallStages
  <2>2. confirmed' \in Versions
    BY <1>3 DEF ObjectExists, Confirm, MarkProcessing, QueueExifStrip, QueueMalwareScan, ConfirmFails, TypeOK
  <2>3. queue' \in Seq(Jobs)
    <3>1. \A name \in JobNames : [name |-> name, stalls |-> 0] \in Jobs
      BY DEF Jobs
    <3>2. \A name \in JobNames : Add(name) => queue' \in Seq(Jobs)
      BY <3>1, QueueAdd DEF Add, TypeOK
    <3>3. QED
      BY <1>3, <3>2 DEF ObjectExists, Confirm, MarkProcessing, QueueExifStrip, QueueMalwareScan, ConfirmFails,
         TypeOK, JobNames
  <2>4. row' \in {"none", "processing", "ready", "failed"} /\ abandoned' \in BOOLEAN /\ infected' \in BOOLEAN
    BY <1>3 DEF ObjectExists, Confirm, MarkProcessing, QueueExifStrip, QueueMalwareScan, ConfirmFails, TypeOK
  <2>5. UNCHANGED <<kind, policyOpen, object, working, uploads>>
    BY <1>3 DEF ObjectExists, Confirm, MarkProcessing, QueueExifStrip, QueueMalwareScan, ConfirmFails
  <2>6. QED BY <2>1, <2>2, <2>3, <2>4, <2>5 DEF TypeOK
<1>4. ASSUME NEW w \in Workers, TakeJob(w)
      PROVE  TypeOK'
  <2>1. Head(queue) \in Jobs /\ Tail(queue) \in Seq(Jobs)
    BY <1>4, QueueTake DEF TakeJob, TypeOK
  <2>2. [stage |-> "started", job |-> Head(queue), copy |-> 0] \in ActiveJobs
    BY <2>1 DEF ActiveJobs, Versions
  <2>3. QED BY <1>4, <2>1, <2>2 DEF TakeJob, TypeOK
<1>5. ASSUME NEW w \in Workers, Download(w) \/ StoreCleaned(w)
      PROVE  TypeOK'
  <2>1. working[w] \in ActiveJobs
    BY <1>5, RunsNotIdle DEF Download, StoreCleaned
  <2>2. working' \in [Workers -> {Idle} \cup ActiveJobs]
    <3>1. [working[w] EXCEPT !.stage = "downloaded", !.copy = object.version] \in ActiveJobs
      BY <2>1 DEF ActiveJobs, TypeOK
    <3>2. [working[w] EXCEPT !.stage = "stored"] \in ActiveJobs
      BY <2>1 DEF ActiveJobs
    <3>3. working' \in {[working EXCEPT ![w] = [working[w] EXCEPT !.stage = "downloaded", !.copy = object.version]],
                        [working EXCEPT ![w] = [working[w] EXCEPT !.stage = "stored"]]}
      BY <1>5 DEF Download, StoreCleaned
    <3>4. QED BY <3>1, <3>2, <3>3 DEF TypeOK
  <2>3. object' \in [version : Versions, stripped : BOOLEAN]
    <3>1. working[w].copy \in Versions
      BY <2>1 DEF ActiveJobs
    <3>2. object' = object \/ object' = [version |-> working[w].copy, stripped |-> TRUE]
      BY <1>5 DEF Download, StoreCleaned
    <3>3. [version |-> working[w].copy, stripped |-> TRUE] \in [version : Versions, stripped : BOOLEAN]
      BY <3>1
    <3>4. object \in [version : Versions, stripped : BOOLEAN]
      BY DEF TypeOK
    <3>5. QED BY <3>2, <3>3, <3>4, Zenon
  <2>4. QED BY <1>5, <2>2, <2>3 DEF Download, StoreCleaned, TypeOK
<1>6. ASSUME NEW w \in Workers, MarkReady(w) \/ ExifFails(w) \/ ScanIsClean(w) \/ ScanFindsThreat(w)
      PROVE  TypeOK'
  <2>1. working' \in [Workers -> {Idle} \cup ActiveJobs]
    BY <1>6 DEF MarkReady, ExifFails, ScanIsClean, ScanFindsThreat, EndJob, TypeOK
  <2>2. row' \in {"none", "processing", "ready", "failed"} /\ infected' \in BOOLEAN
    BY <1>6 DEF MarkReady, ExifFails, ScanIsClean, ScanFindsThreat, TypeOK
  <2>3. QED BY <1>6, <2>1, <2>2 DEF MarkReady, ExifFails, ScanIsClean, ScanFindsThreat, TypeOK
<1>7. ASSUME NEW w \in Workers, Crash(w)
      PROVE  TypeOK'
  <2> DEFINE job == working[w].job
  <2>1. job \in Jobs
    BY <1>7, RunsActive DEF Crash
  <2>2. job.stalls < MaxStalls => [job EXCEPT !.stalls = @ + 1] \in Jobs
    BY <2>1 DEF Jobs
  <2>3. queue' \in Seq(Jobs)
    <3>1. queue \in Seq(Jobs)
      BY DEF TypeOK
    <3>2. CASE job.stalls < MaxStalls
      <4>1. queue' = <<[job EXCEPT !.stalls = @ + 1]>> \o queue
        BY <1>7, <3>2 DEF Crash
      <4>2. QED BY <2>2, <3>1, <3>2, <4>1, QueueReturn
    <3>3. CASE ~(job.stalls < MaxStalls)
      BY <1>7, <3>1, <3>3 DEF Crash
    <3>4. QED BY <3>2, <3>3
  <2>4. working' \in [Workers -> {Idle} \cup ActiveJobs]
    BY <1>7 DEF Crash, EndJob, TypeOK
  <2>5. abandoned' \in BOOLEAN
    BY <1>7 DEF Crash, TypeOK
  <2>6. QED BY <1>7, <2>3, <2>4, <2>5 DEF Crash, TypeOK
<1>8. CASE UNCHANGED vars
  BY <1>8 DEF vars, TypeOK
<1>9. QED BY <1>1, <1>2, <1>3, <1>4, <1>5, <1>6, <1>7, <1>8 DEF Next, Work

LEMMA InitTypeOK == Init => TypeOK
<1> SUFFICES ASSUME Init PROVE TypeOK
  OBVIOUS
<1>1. 0 \in Versions
  BY BoundsAssumption DEF Versions
<1>2. object \in [version : Versions, stripped : BOOLEAN] /\ queue \in Seq(Jobs)
  BY <1>1 DEF Init
<1>3. /\ confirming \in [Confirms -> [stage : CallStages, seen : Versions]]
      /\ working \in [Workers -> {Idle} \cup ActiveJobs]
  BY <1>1 DEF Init, CallStages
<1>4. QED BY <1>1, <1>2, <1>3, Zenon DEF Init, TypeOK

\* Rows, jobs and calls hold values of their types, whatever crashes.
THEOREM TypeCorrect == Spec => []TypeOK
BY InitTypeOK, NextTypeOK, PTL DEF Spec

-----------------------------------------------------------------------------
(* What the steps of a worker do to its job and to the queue *)

\* A worker that goes on with its job keeps it.
LEMMA JobGoesOn ==
  ASSUME TypeOK, NEW w \in Workers, Download(w) \/ StoreCleaned(w)
  PROVE  /\ \A v \in Workers : \A name : Working(v, name)' = Working(v, name)
         /\ \A v \in Workers \ {w} : working'[v] = working[v]
         /\ working'[w] \in ActiveJobs
         /\ working'[w].stage = IF Download(w) THEN "downloaded" ELSE "stored"
         /\ UNCHANGED <<kind, row, queue, confirming, uploads, history>>
<1>1. working[w] \in ActiveJobs /\ Working(w, "exif-strip")
  BY RunsNotIdle DEF Download, StoreCleaned
<1>2. CASE Download(w)
  <2>1. working'[w] = [working[w] EXCEPT !.stage = "downloaded", !.copy = object.version]
    BY <1>2 DEF Download, TypeOK
  <2>2. /\ working'[w].job = working[w].job /\ working'[w].stage = "downloaded"
        /\ working'[w] \in ActiveJobs
    BY <1>1, <2>1 DEF ActiveJobs, TypeOK
  <2>3. working'[w] # Idle /\ working[w] # Idle
    BY <1>1, <2>2 DEF ActiveJobs, Idle
  <2>4. \A v \in Workers \ {w} : working'[v] = working[v]
    BY <1>2 DEF Download, TypeOK
  <2>5. QED BY <1>2, <2>2, <2>3, <2>4 DEF Working, Download
<1>3. CASE StoreCleaned(w) /\ ~Download(w)
  <2>1. working'[w] = [working[w] EXCEPT !.stage = "stored"]
    BY <1>3 DEF StoreCleaned, TypeOK
  <2>2. /\ working'[w].job = working[w].job /\ working'[w].stage = "stored"
        /\ working'[w] \in ActiveJobs
    BY <1>1, <2>1 DEF ActiveJobs
  <2>3. working'[w] # Idle /\ working[w] # Idle
    BY <1>1, <2>2 DEF ActiveJobs, Idle
  <2>4. \A v \in Workers \ {w} : working'[v] = working[v]
    BY <1>3 DEF StoreCleaned, TypeOK
  <2>5. QED BY <1>3, <2>2, <2>3, <2>4 DEF Working, StoreCleaned
<1>4. QED BY <1>2, <1>3

\* A job that is taken is the one in front; it leaves the queue.
LEMMA JobIsTaken ==
  ASSUME TypeOK, NEW w \in Workers, TakeJob(w)
  PROVE  /\ \A v \in Workers \ {w} : working'[v] = working[v]
         /\ working'[w].stage = "started" /\ working'[w].job = queue[1] /\ working'[w] # Idle
         /\ \A name : InQueue(name)' => InQueue(name)
         /\ \A name : InQueue(name) => InQueue(name)' \/ Working(w, name)'
         /\ UNCHANGED <<kind, object, row, confirming, uploads, history>>
<1>1. queue \in Seq(Jobs) /\ queue # <<>> /\ queue' = Tail(queue)
  BY DEF TakeJob, TypeOK
<1>2. /\ working'[w] = [stage |-> "started", job |-> Head(queue), copy |-> 0]
      /\ \A v \in Workers \ {w} : working'[v] = working[v]
  BY DEF TakeJob, TypeOK
<1>3. Head(queue) = queue[1]
  BY <1>1, QueueTake
<1>4. working'[w] # Idle /\ working'[w].stage = "started" /\ working'[w].job = queue[1]
  BY <1>2, <1>3 DEF Idle
<1>5. \A name : InQueue(name)' => InQueue(name)
  BY <1>1, QueueTake DEF InQueue
<1>6. ASSUME NEW name, NEW i \in DOMAIN queue, queue[i].name = name
      PROVE  InQueue(name)' \/ Working(w, name)'
  <2>1. CASE i = 1
    BY <1>4, <1>6, <2>1 DEF Working
  <2>2. CASE i # 1
    <3>1. i - 1 \in DOMAIN Tail(queue) /\ Tail(queue)[i - 1] = queue[i]
      BY <1>1, <1>6, <2>2, QueueTake
    <3>2. QED BY <1>1, <1>6, <3>1 DEF InQueue
  <2>3. QED BY <2>1, <2>2
<1>7. QED BY <1>2, <1>4, <1>5, <1>6 DEF TakeJob, InQueue

\* A worker whose job has ended or failed is idle, and the queue is as before.
LEMMA JobEnds ==
  ASSUME TypeOK, NEW w \in Workers, MarkReady(w) \/ ExifFails(w) \/ ScanIsClean(w) \/ ScanFindsThreat(w)
  PROVE  /\ \A v \in Workers \ {w} : working'[v] = working[v]
         /\ working'[w] = Idle
         /\ UNCHANGED <<kind, object, queue, confirming, uploads, confirmed, abandoned>>
BY DEF MarkReady, ExifFails, ScanIsClean, ScanFindsThreat, EndJob, TypeOK, history

\* The job of a worker that crashes waits in front of the others or is dropped.
LEMMA JobStalls ==
  ASSUME TypeOK, NEW w \in Workers, Crash(w)
  PROVE  /\ \A v \in Workers \ {w} : working'[v] = working[v]
         /\ working'[w] = Idle
         /\ \A name : InQueue(name) => InQueue(name)'
         /\ \A name : InQueue(name)' => InQueue(name) \/ Working(w, name)
         /\ Working(w, "exif-strip") => abandoned' \/ InQueue("exif-strip")'
         /\ UNCHANGED <<kind, object, row, confirming, uploads, confirmed, infected>>
         /\ abandoned => abandoned'
<1> DEFINE job == working[w].job
           again == [job EXCEPT !.stalls = @ + 1]
<1>1. job \in Jobs /\ queue \in Seq(Jobs) /\ working[w] # Idle
  BY RunsActive DEF Crash, TypeOK
<1>2. /\ \A v \in Workers \ {w} : working'[v] = working[v]
      /\ working'[w] = Idle
  BY DEF Crash, EndJob, TypeOK
<1>3. UNCHANGED <<kind, object, row, confirming, uploads, confirmed, infected>>
  BY DEF Crash
<1>4. CASE job.stalls < MaxStalls
  <2>1. queue' = <<again>> \o queue /\ UNCHANGED abandoned
    BY <1>4 DEF Crash
  <2>2. again \in Jobs /\ again.name = job.name
    BY <1>1, <1>4, BoundsAssumption DEF Jobs
  <2> HIDE DEF again
  <2>3. /\ DOMAIN queue = 1 .. Len(queue) /\ Len(queue) \in Nat
        /\ DOMAIN queue' = 1 .. (Len(queue) + 1)
        /\ queue'[1] = again
        /\ \A i \in DOMAIN queue : queue'[i + 1] = queue[i]
    BY <1>1, <2>1, <2>2, QueueReturn
  <2>4. ASSUME NEW name, InQueue(name)
        PROVE  InQueue(name)'
    <3> PICK i \in DOMAIN queue : queue[i].name = name
      BY <2>4 DEF InQueue
    <3>1. i + 1 \in DOMAIN queue' /\ queue'[i + 1].name = name
      BY <2>3
    <3>2. QED BY <3>1 DEF InQueue
  <2>5. ASSUME NEW name, InQueue(name)'
        PROVE  InQueue(name) \/ Working(w, name)
    <3> PICK i \in DOMAIN queue' : queue'[i].name = name
      BY <2>5 DEF InQueue
    <3>1. CASE i = 1
      BY <1>1, <2>2, <2>3, <3>1 DEF Working
    <3>2. CASE i # 1
      <4>1. i - 1 \in DOMAIN queue /\ queue'[(i - 1) + 1] = queue[i - 1] /\ (i - 1) + 1 = i
        BY <2>3, <3>2
      <4>2. QED BY <4>1 DEF InQueue
    <3>3. QED BY <3>1, <3>2
  <2>6. Working(w, "exif-strip") => InQueue("exif-strip")'
    <3>1. 1 \in DOMAIN queue' /\ queue'[1].name = job.name
      BY <2>2, <2>3
    <3>2. QED BY <3>1 DEF InQueue, Working
  <2>7. QED BY <1>2, <1>3, <2>1, <2>4, <2>5, <2>6
<1>5. CASE ~(job.stalls < MaxStalls)
  <2>1. UNCHANGED queue /\ abandoned' = (abandoned \/ job.name = "exif-strip")
    BY <1>5 DEF Crash
  <2>2. QED BY <1>2, <1>3, <2>1 DEF InQueue, Working
<1>6. QED BY <1>4, <1>5

\* A call adds one job or none, and no other call moves.
LEMMA CallGoesOn ==
  ASSUME TypeOK, NEW c \in Confirms, ObjectExists(c) \/ Confirm(c)
  PROVE  /\ \A d \in Confirms \ {c} : confirming'[d] = confirming[d]
         /\ \/ ObjectExists(c) /\ confirming'[c].stage = "checked" /\ confirming'[c].seen = object.version
            \/ MarkProcessing(c) /\ confirming'[c].stage = "marked" /\ confirming'[c].seen = confirming[c].seen
            \/ QueueExifStrip(c) /\ confirming'[c].stage = "exifQueued" /\ confirming'[c].seen = confirming[c].seen
            \/ QueueMalwareScan(c) /\ confirming'[c].stage = "done" /\ confirming'[c].seen = confirming[c].seen
            \/ ConfirmFails(c) /\ confirming'[c].stage = "done" /\ confirming'[c].seen = confirming[c].seen
         /\ \A name : InQueue(name) => InQueue(name)'
         /\ \A name : InQueue(name)' => \/ InQueue(name)
                                        \/ name = "exif-strip" /\ QueueExifStrip(c)
                                        \/ name = "malware-scan" /\ QueueMalwareScan(c)
         /\ QueueExifStrip(c) => InQueue("exif-strip")'
         /\ UNCHANGED <<kind, object, working, uploads, infected>>
<1>1. confirming[c] \in [stage : CallStages, seen : Versions]
  BY DEF TypeOK
<1>2. /\ \A d \in Confirms \ {c} : confirming'[d] = confirming[d]
      /\ \/ ObjectExists(c) /\ confirming'[c].stage = "checked" /\ confirming'[c].seen = object.version
         \/ MarkProcessing(c) /\ confirming'[c].stage = "marked" /\ confirming'[c].seen = confirming[c].seen
         \/ QueueExifStrip(c) /\ confirming'[c].stage = "exifQueued" /\ confirming'[c].seen = confirming[c].seen
         \/ QueueMalwareScan(c) /\ confirming'[c].stage = "done" /\ confirming'[c].seen = confirming[c].seen
         \/ ConfirmFails(c) /\ confirming'[c].stage = "done" /\ confirming'[c].seen = confirming[c].seen
  BY <1>1 DEF TypeOK, ObjectExists, Confirm, MarkProcessing, QueueExifStrip, QueueMalwareScan, ConfirmFails, Advance
<1>3. UNCHANGED <<kind, object, working, uploads, infected>>
  BY DEF ObjectExists, Confirm, MarkProcessing, QueueExifStrip, QueueMalwareScan, ConfirmFails, history
<1>4. ASSUME NEW added \in JobNames, Add(added)
      PROVE  /\ \A name : InQueue(name) => InQueue(name)'
             /\ \A name : InQueue(name)' => InQueue(name) \/ name = added
             /\ InQueue(added)'
  <2> DEFINE job == [name |-> added, stalls |-> 0]
  <2>1. queue \in Seq(Jobs) /\ job \in Jobs /\ queue' = Append(queue, job)
    BY <1>4, BoundsAssumption DEF TypeOK, Jobs, Add
  <2>2. job.name = added
    OBVIOUS
  <2> HIDE DEF job
  <2>3. /\ DOMAIN queue = 1 .. Len(queue) /\ Len(queue) \in Nat
        /\ DOMAIN queue' = 1 .. (Len(queue) + 1)
        /\ \A i \in DOMAIN queue : queue'[i] = queue[i]
        /\ queue'[Len(queue) + 1] = job
    BY <2>1, QueueAdd
  <2>4. DOMAIN queue' = DOMAIN queue \cup {Len(queue) + 1}
    BY <2>3
  <2>5. QED BY <2>2, <2>3, <2>4 DEF InQueue
<1>5. CASE QueueExifStrip(c)
  <2>1. Add("exif-strip")
    BY <1>5 DEF QueueExifStrip
  <2>2. QED BY <1>2, <1>3, <1>4, <1>5, <2>1 DEF JobNames
<1>6. CASE QueueMalwareScan(c)
  <2>1. Add("malware-scan") /\ ~QueueExifStrip(c)
    BY <1>6 DEF QueueMalwareScan, QueueExifStrip
  <2>2. QED BY <1>2, <1>3, <1>4, <1>6, <2>1 DEF JobNames
<1>7. CASE ~QueueExifStrip(c) /\ ~QueueMalwareScan(c)
  <2>1. UNCHANGED queue
    BY <1>7 DEF ObjectExists, Confirm, MarkProcessing, ConfirmFails
  <2>2. QED BY <1>2, <1>3, <1>7, <2>1 DEF InQueue
<1>8. QED BY <1>5, <1>6, <1>7

-----------------------------------------------------------------------------
(* Uploaded *)

LEMMA UploadedStep == TypeInv /\ [Next]_vars => Uploaded'
<1> SUFFICES ASSUME TypeOK, Uploaded, [Next]_vars PROVE Uploaded'
  BY DEF TypeInv
<1> USE DEF Uploaded
<1>0. /\ uploads \in Nat /\ confirmed \in Nat /\ object.version \in Nat
      /\ \A c \in Confirms : confirming[c].seen \in Nat
      /\ \A w \in Workers : working[w] # Idle => working[w].copy \in Nat
  BY BoundsAssumption DEF TypeOK, Versions, ActiveJobs
<1>1. CASE Upload
  BY <1>0, <1>1 DEF Upload, history
<1>2. CASE PolicyExpires \/ UNCHANGED vars
  BY <1>2 DEF PolicyExpires, vars, history
<1>3. ASSUME NEW c \in Confirms, ObjectExists(c) \/ Confirm(c)
      PROVE  Uploaded'
  <2>1. uploads > 0
    BY <1>0, <1>3 DEF ObjectExists, Confirm, MarkProcessing, QueueExifStrip, QueueMalwareScan, ConfirmFails
  <2>2. confirmed' \in {confirmed, confirming[c].seen}
    BY <1>3 DEF ObjectExists, Confirm, MarkProcessing, QueueExifStrip, QueueMalwareScan, ConfirmFails, history
  <2>3. \A d \in Confirms : confirming'[d].seen \in {confirming[d].seen, object.version}
    BY <1>3, CallGoesOn
  <2>4. QED BY <1>0, <1>3, <2>1, <2>2, <2>3, CallGoesOn
<1>4. ASSUME NEW w \in Workers, Work(w) \/ Crash(w)
      PROVE  Uploaded'
  <2>1. uploads > 0
    BY <1>0, <1>4 DEF Work, Crash, TakeJob, Download, StoreCleaned, MarkReady, ExifFails, ScanIsClean,
       ScanFindsThreat, Runs, Idle
  <2>2. object'.version <= uploads
    <3>1. CASE StoreCleaned(w)
      <4>1. working[w] # Idle
        BY <3>1 DEF StoreCleaned, Runs, Idle
      <4>2. QED BY <3>1, <4>1 DEF StoreCleaned
    <3>2. CASE ~StoreCleaned(w)
      BY <1>4, <3>2 DEF Work, Crash, TakeJob, Download, MarkReady, ExifFails, ScanIsClean, ScanFindsThreat
    <3>3. QED BY <3>1, <3>2
  <2>3. UNCHANGED <<uploads, confirmed, confirming>>
    BY <1>4 DEF Work, Crash, TakeJob, Download, StoreCleaned, MarkReady, ExifFails, ScanIsClean,
       ScanFindsThreat, history
  <2>4. \A v \in Workers : working'[v] # Idle => working'[v].copy <= uploads
    <3>1. CASE TakeJob(w)
      BY <1>0, <3>1 DEF TakeJob, TypeOK
    <3>2. CASE Download(w)
      <4>1. working'[w] = [working[w] EXCEPT !.stage = "downloaded", !.copy = object.version] /\ working[w] \in ActiveJobs
        BY <3>2, RunsNotIdle DEF Download, TypeOK
      <4>2. working'[w].copy = object.version
        BY <4>1 DEF ActiveJobs
      <4>3. \A v \in Workers \ {w} : working'[v] = working[v]
        BY <3>2, JobGoesOn
      <4>4. QED BY <4>2, <4>3
    <3>3. CASE StoreCleaned(w)
      <4>1. working'[w] = [working[w] EXCEPT !.stage = "stored"] /\ working[w] \in ActiveJobs /\ working[w] # Idle
        BY <3>3, RunsNotIdle DEF StoreCleaned, TypeOK, Working
      <4>2. working'[w].copy = working[w].copy
        BY <4>1 DEF ActiveJobs
      <4>3. \A v \in Workers \ {w} : working'[v] = working[v]
        BY <3>3, JobGoesOn
      <4>4. QED BY <4>1, <4>2, <4>3
    <3>4. CASE MarkReady(w) \/ ExifFails(w) \/ ScanIsClean(w) \/ ScanFindsThreat(w)
      BY <3>4, JobEnds
    <3>5. CASE Crash(w)
      BY <3>5, JobStalls
    <3>6. QED BY <1>4, <3>1, <3>2, <3>3, <3>4, <3>5 DEF Work
  <2>5. QED BY <1>0, <2>1, <2>2, <2>3, <2>4
<1>5. QED BY <1>1, <1>2, <1>3, <1>4 DEF Next

LEMMA TypeInvStep == TypeInv /\ [Next]_vars => TypeInv'
BY NextTypeOK, UploadedStep DEF TypeInv

LEMMA InitTypeInv == Init => TypeInv
BY InitTypeOK DEF Init, TypeInv, Uploaded

-----------------------------------------------------------------------------
(* A picture uploaded once *)

LEMMA OnceStrippedStep == TypeInv /\ OnceStripped /\ [Next]_vars => OnceStripped'
<1> SUFFICES ASSUME TypeOK, Uploaded, OnceStripped, [Next]_vars PROVE OnceStripped'
  BY DEF TypeInv
<1> USE DEF OnceStripped
<1>0. uploads \in Nat
  BY BoundsAssumption DEF TypeOK, Versions
<1>1. CASE Upload
  BY <1>0, <1>1 DEF Upload, Uploaded, Runs, Idle
<1>2. CASE PolicyExpires \/ UNCHANGED vars
  BY <1>2 DEF PolicyExpires, vars, Runs
<1>3. ASSUME NEW c \in Confirms, ObjectExists(c) \/ Confirm(c)
      PROVE  OnceStripped'
  <2>1. row' = "ready" => row = "ready"
    BY <1>3 DEF ObjectExists, Confirm, MarkProcessing, QueueExifStrip, QueueMalwareScan, ConfirmFails
  <2>2. QED BY <1>3, <2>1, CallGoesOn DEF Runs
<1>4. ASSUME NEW w \in Workers, TakeJob(w) \/ Crash(w)
      PROVE  OnceStripped'
  BY <1>4, JobIsTaken, JobStalls DEF Runs, Idle
<1>5. ASSUME NEW w \in Workers, Download(w)
      PROVE  OnceStripped'
  <2>1. UNCHANGED object
    BY <1>5 DEF Download
  <2>2. QED BY <1>5, <2>1, JobGoesOn DEF Runs
<1>6. ASSUME NEW w \in Workers, StoreCleaned(w)
      PROVE  OnceStripped'
  BY <1>6 DEF StoreCleaned
<1>7. ASSUME NEW w \in Workers, MarkReady(w) \/ ExifFails(w) \/ ScanIsClean(w) \/ ScanFindsThreat(w)
      PROVE  OnceStripped'
  <2>1. kind = "image" /\ uploads <= 1 /\ row' = "ready" => object.stripped
    BY <1>7 DEF MarkReady, ExifFails, ScanIsClean, ScanFindsThreat
  <2>2. QED BY <1>7, <2>1, JobEnds DEF Runs, Idle
<1>8. QED BY <1>1, <1>2, <1>3, <1>4, <1>5, <1>6, <1>7 DEF Next, Work

\* A picture that was uploaded once is ready only without its metadata, with any number
\* of workers, confirm calls and crashes.
THEOREM ReadyStripped == Spec => []ReadyIsStripped
<1>1. Init => OnceStripped
  BY DEF Init, OnceStripped, Runs, Idle
<1>2. OnceStripped => ReadyIsStripped
  BY DEF OnceStripped, ReadyIsStripped
<1>3. QED BY <1>1, <1>2, InitTypeInv, TypeInvStep, OnceStrippedStep, PTL DEF Spec

-----------------------------------------------------------------------------
(* One worker: no confirmed upload keeps its metadata *)

\* The kind of a file is fixed, and what was abandoned stays so.
LEMMA KindStays == TypeOK /\ [Next]_vars => UNCHANGED kind /\ (abandoned => abandoned')
<1> SUFFICES ASSUME TypeOK, [Next]_vars PROVE UNCHANGED kind /\ (abandoned => abandoned')
  OBVIOUS
<1>1. CASE Upload \/ PolicyExpires \/ UNCHANGED vars
  BY <1>1 DEF Upload, PolicyExpires, vars, history
<1>2. ASSUME NEW c \in Confirms, ObjectExists(c) \/ Confirm(c)
      PROVE  UNCHANGED kind /\ (abandoned => abandoned')
  <2>1. UNCHANGED kind
    BY <1>2, CallGoesOn
  <2>2. CASE ConfirmFails(c)
    BY <2>1, <2>2, Zenon DEF ConfirmFails
  <2>3. CASE ~ConfirmFails(c)
    BY <1>2, <2>1, <2>3 DEF ObjectExists, Confirm, MarkProcessing, QueueExifStrip, QueueMalwareScan, history
  <2>4. QED BY <2>2, <2>3
<1>3. ASSUME NEW w \in Workers, Work(w)
      PROVE  UNCHANGED kind /\ (abandoned => abandoned')
  BY <1>3 DEF Work, TakeJob, Download, StoreCleaned, MarkReady, ExifFails, ScanIsClean, ScanFindsThreat, history
<1>4. ASSUME NEW w \in Workers, Crash(w)
      PROVE  UNCHANGED kind /\ (abandoned => abandoned')
  BY <1>4, JobStalls
<1>5. QED BY <1>1, <1>2, <1>3, <1>4 DEF Next

LEMMA StripStep ==
  ASSUME NEW w, Workers = {w}
  PROVE  TypeInv /\ StripInv /\ [Next]_vars => StripInv'
<1> SUFFICES ASSUME TypeOK, Uploaded, StripInv, [Next]_vars, kind' = "image", ~abandoned'
             PROVE  /\ (row = "ready" => Clean \/ StripDue \/ Working(w, "exif-strip"))'
                    /\ (Runs(w, "exif-strip", "stored") => Clean \/ StripDue)'
  BY DEF TypeInv, StripInv
<1> DEFINE Goal == /\ (row = "ready" => Clean \/ StripDue \/ Working(w, "exif-strip"))'
                   /\ (Runs(w, "exif-strip", "stored") => Clean \/ StripDue)'
<1>k. kind = "image" /\ ~abandoned
  BY KindStays
<1>0. /\ row = "ready" => Clean \/ StripDue \/ Working(w, "exif-strip")
      /\ Runs(w, "exif-strip", "stored") => Clean \/ StripDue
  BY <1>k DEF StripInv
<1>1. CASE Upload
  <2>1. Clean'
    BY <1>1, BoundsAssumption DEF Upload, Uploaded, Clean, TypeOK, Versions, history
  <2>2. QED BY <2>1
<1>2. CASE PolicyExpires \/ UNCHANGED vars
  BY <1>0, <1>2 DEF PolicyExpires, vars, history, Clean, StripDue, InQueue, Working, Runs
<1>3. ASSUME NEW c \in Confirms, ObjectExists(c) \/ Confirm(c)
      PROVE  Goal
  <2>1. CASE MarkProcessing(c)
    <3>1. confirming'[c].stage = "marked"
      BY <2>1 DEF MarkProcessing, Advance, TypeOK
    <3>2. QED BY <3>1 DEF StripDue
  <2>2. CASE ~MarkProcessing(c)
    <3>1. UNCHANGED <<object, confirmed, row>>
      BY <1>3, <2>2 DEF ObjectExists, Confirm, QueueExifStrip, QueueMalwareScan, ConfirmFails, history
    <3>2. StripDue => StripDue'
      <4>1. CASE InQueue("exif-strip")
        BY <1>3, <4>1, CallGoesOn DEF StripDue
      <4>2. ASSUME NEW d \in Confirms \ {c}, confirming[d].stage = "marked"
            PROVE  StripDue'
        BY <1>3, <4>2, CallGoesOn DEF StripDue
      <4>3. CASE confirming[c].stage = "marked"
        <5>1. QueueExifStrip(c)
          BY <1>3, <2>2, <4>3 DEF ObjectExists, Confirm, QueueMalwareScan, ConfirmFails
        <5>2. QED BY <1>3, <5>1, CallGoesOn DEF StripDue
      <4>4. QED BY <4>1, <4>2, <4>3 DEF StripDue
    <3>3. UNCHANGED working
      BY <1>3, CallGoesOn
    <3>4. QED BY <1>0, <3>1, <3>2, <3>3 DEF Clean, Working, Runs
  <2>3. QED BY <2>1, <2>2
<1>4. CASE TakeJob(w)
  <2>1. /\ Clean' = Clean /\ UNCHANGED <<row, confirming>>
        /\ InQueue("exif-strip") => InQueue("exif-strip")' \/ Working(w, "exif-strip")'
    BY <1>4, JobIsTaken DEF Clean, history
  <2>2. ~Working(w, "exif-strip") /\ ~Runs(w, "exif-strip", "stored")'
    BY <1>4, JobIsTaken DEF TakeJob, Working, Runs
  <2>3. QED BY <1>0, <2>1, <2>2 DEF StripDue
<1>5. CASE Download(w)
  <2>1. working[w].stage = "started" /\ working'[w].stage = "downloaded" /\ UNCHANGED object
    BY <1>5, JobGoesOn DEF Download, Runs
  <2>2. Working(w, "exif-strip")'
    BY <1>5, JobGoesOn, RunsNotIdle DEF Download
  <2>3. QED BY <2>1, <2>2 DEF Runs
<1>6. CASE StoreCleaned(w)
  BY <1>6 DEF StoreCleaned, Clean
<1>7. CASE MarkReady(w)
  <2>1. Clean \/ StripDue
    BY <1>0, <1>7, <1>k DEF MarkReady
  <2>2. (Clean \/ StripDue)' /\ ~Runs(w, "exif-strip", "stored")'
    BY <1>7, <2>1, JobEnds DEF Clean, StripDue, InQueue, Runs, Idle
  <2>3. QED BY <2>2
<1>8. CASE ExifFails(w) \/ ScanFindsThreat(w)
  <2>1. row' = "failed"
    BY <1>8 DEF ExifFails, ScanFindsThreat
  <2>2. ~Runs(w, "exif-strip", "stored")'
    BY <1>8, JobEnds DEF Runs, Idle
  <2>3. QED BY <2>1, <2>2
<1>9. CASE ScanIsClean(w)
  <2>1. ~Working(w, "exif-strip") /\ UNCHANGED row
    BY <1>9 DEF ScanIsClean, Runs, Working
  <2>2. (Clean \/ StripDue)' = (Clean \/ StripDue) /\ ~Runs(w, "exif-strip", "stored")'
    BY <1>9, JobEnds DEF Clean, StripDue, InQueue, Runs, Idle
  <2>3. QED BY <1>0, <2>1, <2>2
<1>10. CASE Crash(w)
  <2>1. /\ UNCHANGED <<object, confirmed, row, confirming>>
        /\ InQueue("exif-strip") \/ Working(w, "exif-strip") => InQueue("exif-strip")'
        /\ working'[w] = Idle
    BY <1>10, JobStalls
  <2>2. QED BY <1>0, <2>1 DEF Clean, StripDue, Runs, Idle
<1>11. QED
  BY <1>1, <1>2, <1>3, <1>4, <1>5, <1>6, <1>7, <1>8, <1>9, <1>10 DEF Next, Work

\* With one worker, a picture that is ready and has no strip job to come shows no upload
\* that was confirmed with its metadata, in whatever order uploads replace each other.
THEOREM ConfirmedStripped ==
  ASSUME NEW w, Workers = {w}
  PROVE  Spec => []ConfirmedIsStripped
<1>1. Init => StripInv
  BY DEF Init, StripInv, Runs, Idle
<1>2. StripInv => ConfirmedIsStripped
  BY DEF StripInv, ConfirmedIsStripped, ExifPending, Clean, StripDue, InQueue, Working
<1>3. TypeInv /\ StripInv /\ [Next]_vars => StripInv'
  BY StripStep
<1>4. QED BY <1>1, <1>2, <1>3, InitTypeInv, TypeInvStep, PTL DEF Spec

-----------------------------------------------------------------------------
(* One worker: the verdict on a file that is confirmed once *)

\* The order of the jobs survives every change of the queue.
LEMMA StripFirstKept ==
  ASSUME TypeOK, StripFirst
  PROVE  /\ ~InQueue("malware-scan") => \A job \in Jobs : queue' = Append(queue, job) => StripFirst'
         /\ queue # <<>> /\ queue' = Tail(queue) => StripFirst'
         /\ \A job \in Jobs :
              queue' = <<job>> \o queue /\ (job.name = "malware-scan" => ~InQueue("exif-strip")) => StripFirst'
<1> USE DEF StripFirst, InQueue
<1>0. queue \in Seq(Jobs)
  BY DEF TypeOK
<1>1. ASSUME NEW job \in Jobs, queue' = Append(queue, job), ~InQueue("malware-scan")
      PROVE  StripFirst'
  <2>1. \A i, j \in DOMAIN queue' : i < j => i \in DOMAIN queue /\ queue'[i] = queue[i]
    BY <1>0, <1>1, QueueAdd
  <2>2. QED BY <1>1, <2>1
<1>2. ASSUME queue # <<>>, queue' = Tail(queue)
      PROVE  StripFirst'
  <2>1. \A i, j \in DOMAIN queue' : i < j => i + 1 < j + 1
    BY <1>0, <1>2, QueueTake
  <2>2. \A i \in DOMAIN queue' : queue'[i] = queue[i + 1] /\ i + 1 \in DOMAIN queue
    BY <1>0, <1>2, QueueTake
  <2>3. QED BY <2>1, <2>2
<1>3. ASSUME NEW job \in Jobs, queue' = <<job>> \o queue,
             job.name = "malware-scan" => ~InQueue("exif-strip")
      PROVE  StripFirst'
  <2>1. \A i \in DOMAIN queue' : i # 1 => i - 1 \in DOMAIN queue /\ queue'[i] = queue[i - 1]
    <3> SUFFICES ASSUME NEW i \in DOMAIN queue', i # 1
                 PROVE  i - 1 \in DOMAIN queue /\ queue'[i] = queue[i - 1]
      OBVIOUS
    <3>1. i - 1 \in DOMAIN queue /\ (i - 1) + 1 = i
      BY <1>0, <1>3, QueueReturn
    <3>2. QED BY <1>0, <1>3, <3>1, QueueReturn
  <2>2. queue'[1] = job /\ \A i, j \in DOMAIN queue' : i < j => j # 1 /\ (i # 1 => i - 1 < j - 1)
    BY <1>0, <1>3, QueueReturn
  <2>3. QED BY <1>3, <2>1, <2>2
<1>4. QED BY <1>1, <1>2, <1>3

LEMMA VerdictInvStep ==
  ASSUME NEW w, Workers = {w}
  PROVE  TypeInv /\ VerdictInv /\ [Next]_vars => VerdictInv'
<1> SUFFICES ASSUME TypeOK, VerdictInv, [Next]_vars, NEW c \in Confirms, Only(c)'
             PROVE  StripFirst' /\ ScanLast(c, w)'
  BY DEF VerdictInv, TypeInv
<1> USE DEF ScanLast
<1>1. \A d \in Confirms : confirming'[d].stage = "none" => confirming[d].stage = "none" /\ ~ObjectExists(d) /\ ~Confirm(d)
  <2>1. ASSUME NEW d \in Confirms, ObjectExists(d) \/ Confirm(d)
        PROVE  confirming'[d].stage # "none" /\ \A e \in Confirms \ {d} : confirming'[e] = confirming[e]
    BY <2>1, CallGoesOn
  <2>2. ASSUME \A d \in Confirms : ~ObjectExists(d) /\ ~Confirm(d)
        PROVE  UNCHANGED confirming
    BY <2>2 DEF Next, Upload, PolicyExpires, Work, Crash, TakeJob, Download, StoreCleaned, MarkReady, ExifFails,
       ScanIsClean, ScanFindsThreat, vars
  <2>3. QED BY <2>1, <2>2
<1>2. Only(c)
  BY <1>1 DEF Only
<1>3. StripFirst /\ ScanLast(c, w)
  BY <1>2 DEF VerdictInv
<1>4. CASE Upload \/ PolicyExpires \/ UNCHANGED vars
  <2>1. UNCHANGED <<confirming, infected, queue, working, row>>
    BY <1>4 DEF Upload, PolicyExpires, vars, history
  <2>2. QED BY <1>3, <2>1 DEF InQueue, Working, StripFirst
<1>5. ASSUME NEW d \in Confirms, ObjectExists(d) \/ Confirm(d)
      PROVE  StripFirst' /\ ScanLast(c, w)'
  <2>1. d = c
    BY <1>1, <1>5 DEF Only
  <2>2. UNCHANGED <<working, infected>> /\ (row' = "ready" => row = "ready")
    BY <1>5, CallGoesOn DEF ObjectExists, Confirm, MarkProcessing, QueueExifStrip, QueueMalwareScan, ConfirmFails
  <2>3. CASE QueueExifStrip(c) \/ QueueMalwareScan(c)
    <3>1. ~infected /\ ~InQueue("malware-scan") /\ ~Working(w, "malware-scan")
      BY <1>3, <2>3 DEF QueueExifStrip, QueueMalwareScan
    <3>2. InQueue("malware-scan")' => confirming'[c].stage = "done"
      <4>1. CASE QueueMalwareScan(c)
        BY <4>1 DEF QueueMalwareScan, Advance, TypeOK
      <4>2. CASE QueueExifStrip(c)
        <5>1. ~QueueMalwareScan(c)
          BY <4>2 DEF QueueExifStrip, QueueMalwareScan
        <5>2. QED BY <1>5, <2>1, <3>1, <5>1, CallGoesOn
      <4>3. QED BY <2>3, <4>1, <4>2
    <3>3. \E job \in Jobs : queue' = Append(queue, job)
      BY <2>3, BoundsAssumption DEF QueueExifStrip, QueueMalwareScan, Add, Jobs, JobNames
    <3>4. StripFirst'
      BY <1>3, <3>1, <3>3, StripFirstKept
    <3>5. QED BY <2>2, <3>1, <3>2, <3>4 DEF Working
  <2>4. CASE ~QueueExifStrip(c) /\ ~QueueMalwareScan(c)
    <3>1. UNCHANGED queue /\ confirming[c].stage # "done"
      BY <1>5, <2>1, <2>4 DEF ObjectExists, Confirm, MarkProcessing, ConfirmFails
    <3>2. QED BY <1>3, <2>2, <3>1 DEF InQueue, Working, StripFirst
  <2>5. QED BY <2>3, <2>4
<1>6. CASE TakeJob(w)
  <2>1. /\ working'[w].job = queue[1] /\ working'[w] # Idle
        /\ \A name : InQueue(name)' => InQueue(name)
        /\ UNCHANGED <<infected, row, confirming>>
    BY <1>6, JobIsTaken DEF history
  <2>2. queue \in Seq(Jobs) /\ queue # <<>> /\ queue' = Tail(queue) /\ 1 \in DOMAIN queue
    BY <1>6, QueueTake DEF TakeJob, TypeOK
  <2>3. \A name : Working(w, name)' => InQueue(name)
    BY <2>1, <2>2 DEF Working, InQueue
  <2>4. Working(w, "malware-scan")' => ~InQueue("exif-strip")'
    <3> SUFFICES ASSUME queue[1].name = "malware-scan", NEW i \in DOMAIN queue', queue'[i].name = "exif-strip"
                 PROVE  FALSE
      BY <2>1 DEF Working, InQueue
    <3>1. queue'[i] = queue[i + 1] /\ i + 1 \in DOMAIN queue /\ 1 < i + 1
      BY <2>2, QueueTake
    <3>2. QED BY <1>3, <2>2, <3>1 DEF StripFirst
  <2>5. StripFirst'
    BY <1>3, <2>2, StripFirstKept
  <2>6. QED BY <1>3, <2>1, <2>3, <2>4, <2>5
<1>7. CASE Download(w) \/ StoreCleaned(w)
  BY <1>3, <1>7, JobGoesOn DEF history, InQueue, StripFirst
<1>8. CASE MarkReady(w) \/ ExifFails(w) \/ ScanIsClean(w)
  <2>1. working'[w] = Idle /\ UNCHANGED <<queue, confirming, infected>>
    BY <1>8, JobEnds DEF MarkReady, ExifFails, ScanIsClean, history
  <2>2. row' = "ready" => row = "ready" \/ ~infected
    <3>1. CASE MarkReady(w)
      <4>1. Working(w, "exif-strip")
        BY <3>1, RunsNotIdle DEF MarkReady
      <4>2. QED BY <1>3, <4>1
    <3>2. QED BY <1>8, <3>1 DEF ExifFails, ScanIsClean
  <2>3. QED BY <1>3, <2>1, <2>2 DEF InQueue, Working, StripFirst
<1>9. CASE ScanFindsThreat(w)
  <2>1. Working(w, "malware-scan")
    BY <1>9, RunsNotIdle DEF ScanFindsThreat
  <2>2. working'[w] = Idle /\ UNCHANGED <<queue, confirming>> /\ row' = "failed"
    BY <1>9, JobEnds DEF ScanFindsThreat
  <2>3. confirming[c].stage = "done" /\ ~InQueue("exif-strip")
    BY <1>3, <2>1
  <2>4. QED BY <1>3, <2>2, <2>3 DEF InQueue, Working, StripFirst
<1>10. CASE Crash(w)
  <2>1. /\ working'[w] = Idle /\ UNCHANGED <<row, confirming, infected>>
        /\ \A name : InQueue(name)' => InQueue(name) \/ Working(w, name)
    BY <1>10, JobStalls
  <2>2. StripFirst'
    <3> DEFINE job == working[w].job
               again == [job EXCEPT !.stalls = @ + 1]
    <3>1. CASE job.stalls < MaxStalls
      <4>1. job \in Jobs /\ working[w] # Idle
        BY <1>10, RunsActive DEF Crash
      <4>2. queue' = <<again>> \o queue
        BY <1>10, <3>1 DEF Crash
      <4>3. again \in Jobs /\ again.name = job.name
        BY <3>1, <4>1, BoundsAssumption DEF Jobs
      <4>4. job.name = "malware-scan" => ~InQueue("exif-strip")
        BY <1>3, <4>1 DEF Working
      <4> HIDE DEF again
      <4>5. QED BY <1>3, <4>2, <4>3, <4>4, StripFirstKept
    <3>2. CASE ~(job.stalls < MaxStalls)
      BY <1>3, <1>10, <3>2 DEF Crash, StripFirst
    <3>3. QED BY <3>1, <3>2
  <2>3. QED BY <1>3, <2>1, <2>2 DEF Working
<1>11. QED
  BY <1>4, <1>5, <1>6, <1>7, <1>8, <1>9, <1>10 DEF Next, Work

\* With one worker, a file that is confirmed once and found infected is never reported
\* ready afterwards: its strip job was queued first and has ended before the scan began.
THEOREM VerdictKept ==
  ASSUME NEW w, Workers = {w}
  PROVE  Spec => []VerdictStands
<1>1. Init => VerdictInv
  BY DEF Init, VerdictInv, ScanLast, StripFirst, InQueue, Working
<1>2. VerdictInv => VerdictStands
  BY DEF VerdictInv, ScanLast, VerdictStands, Only
<1>3. TypeInv /\ VerdictInv /\ [Next]_vars => VerdictInv'
  BY VerdictInvStep
<1>4. QED BY <1>1, <1>2, <1>3, InitTypeInv, TypeInvStep, PTL DEF Spec

=================================================================================
