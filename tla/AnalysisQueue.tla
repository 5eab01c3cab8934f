--------------------------- MODULE AnalysisQueue ---------------------------
(***************************************************************************)
(* The analysis queue of the backend: the demo_analyses table, the HTTP    *)
(* side that enqueues into it, the single worker goroutine that serves it, *)
(* and the process that runs both and may die and be upgraded at any point.*)
(*                                                                         *)
(* Every store call is one SQL statement or one transaction, so it is one  *)
(* action; between two calls of the worker anything else may happen.  A    *)
(* store call may fail: it then either took effect and only its reply was  *)
(* lost, or it had no effect.  MaxFaults bounds the number of such faults, *)
(* MaxCrashes the process deaths and MaxRetries the user's retries.        *)
(***************************************************************************)
EXTENDS Naturals, FiniteSets

CONSTANTS Codes,        \* sharecodes of stored matches
          Urls,         \* demo URLs the resolver or the user can supply
          None,         \* SQL's '' / "no such value yet"
          MaxParser,    \* newest ParserVersion a deploy can bring
          MaxDetector,  \* newest DetectorVersion a deploy can bring
          MaxFaults, MaxCrashes, MaxRetries

ASSUME BoundsAssumption ==
    /\ MaxParser \in Nat \ {0} /\ MaxDetector \in Nat \ {0}
    /\ MaxFaults \in Nat /\ MaxCrashes \in Nat /\ MaxRetries \in Nat

ParserVersions   == 1..MaxParser
DetectorVersions == 1..MaxDetector

\* UNIQUE (share_code, parser_version): the table is a function of the pair.
Keys == Codes \X ParserVersions

\* What parsing one demo yields: the events, known by the demo they came from
\* and the version of the parser that read it.
Parses == [parser : ParserVersions, url : Urls]

\* What Detect yields: highlights, known by the events and the detector.
Highlights == [from : Parses, det : DetectorVersions]

Statuses == {"none", "pending", "running", "done", "failed"}

Row == [status  : Statuses,              \* "none": the row does not exist
        url     : Urls \cup {None},
        created : Nat,                   \* created_at, and the BIGSERIAL id
        det     : 0..MaxDetector,        \* detector_version
        events  : Parses \cup {None},    \* match_kills, _rounds, _clutches, ...
        hl      : Highlights \cup {None},
        blob    : BOOLEAN]               \* demo_blob_path <> ''

AbsentRow == [status |-> "none", url |-> None, created |-> 0, det |-> 0,
              events |-> None, hl |-> None, blob |-> FALSE]

VARIABLES rows,      \* the demo_analyses table and its child tables
          serial,    \* rows inserted so far
          blobs,     \* sharecodes with a blob in the demo container
          tmp,       \* demo files in DEMO_TMP_DIR
          parser, detector,   \* versions compiled into the running binary
          pc,        \* where the process and its worker goroutine are
          job,       \* the worker's local variables
          faults, crashes, retries

dbVars  == <<rows, serial>>
fsVars  == <<blobs, tmp>>
binVars == <<parser, detector>>
cntVars == <<faults, crashes, retries>>
vars    == <<rows, serial, blobs, tmp, parser, detector, pc, job,
             faults, crashes, retries>>

NoJob == [key |-> None, url |-> None, events |-> None, blob |-> FALSE]

AnalysePCs  == {"download", "copy", "parse", "avatars", "retain", "complete", "fail"}
ReadingPCs  == {"copy", "parse", "avatars", "retain"}   \* a demo is on disk
RederivePCs == {"load", "save"}
PCs == {"down", "boot", "claim", "rederive", "sleep"} \cup AnalysePCs \cup RederivePCs

Serving == pc \notin {"down", "boot"}

Init ==
    /\ rows = [k \in Keys |-> AbsentRow]
    /\ serial = 0
    /\ blobs = {} /\ tmp = 0
    /\ parser = 1 /\ detector = 1
    /\ pc = "boot" /\ job = NoJob
    /\ faults = 0 /\ crashes = 0 /\ retries = 0

-----------------------------------------------------------------------------
(* The HTTP side: Store.Enqueue, for the version of the running binary.    *)

\* INSERT of a row nobody asked for before.
EnqueueNew(c, u) ==
    LET k == <<c, parser>> IN
    /\ Serving
    /\ rows[k].status = "none"
    /\ rows' = [rows EXCEPT ![k] = [@ EXCEPT !.status = "pending", !.url = u,
                                             !.created = serial + 1]]
    /\ serial' = serial + 1
    /\ UNCHANGED <<fsVars, binVars, pc, job, cntVars>>

\* Mutants: a conflict clause that lets a running, or a finished, row through.
RetryableEvenRunning(k)  == rows[k].status \in {"failed", "running"}
RetryableEvenDone(k) == rows[k].status \in {"failed", "done"}

\* ON CONFLICT ... DO UPDATE ... WHERE status = 'failed'.
Retryable(k) == rows[k].status = "failed"

\* The retry keeps the row's created_at.  Any other conflict changes nothing.
EnqueueRetry(c, u) ==
    LET k == <<c, parser>> IN
    /\ Serving
    /\ Retryable(k)
    /\ retries < MaxRetries
    /\ retries' = retries + 1
    /\ rows' = [rows EXCEPT ![k] = [@ EXCEPT !.status = "pending", !.url = u]]
    /\ UNCHANGED <<serial, fsVars, binVars, pc, job, faults, crashes>>

Enqueue == \E c \in Codes, u \in Urls : EnqueueNew(c, u) \/ EnqueueRetry(c, u)

-----------------------------------------------------------------------------
(* Worker.Run: claim a job; with none pending, re-derive; else sleep.      *)

Goto(label) == pc' = label

Idle(label) == Goto(label) /\ job' = NoJob

\* A store call that returns an error to the worker.
Fault == faults < MaxFaults /\ faults' = faults + 1

Pending == {k \in Keys : rows[k].status = "pending"}

\* ORDER BY created_at LIMIT 1, over the rows of S.
Oldest(S, k) == k \in S /\ \A j \in S : rows[k].created <= rows[j].created

MarkRunning(k) == rows' = [rows EXCEPT ![k].status = "running"]

ClaimNext(k) ==
    /\ pc = "claim"
    /\ Oldest(Pending, k)
    /\ MarkRunning(k)
    /\ job' = [NoJob EXCEPT !.key = k, !.url = rows[k].url]
    /\ Goto("download")
    /\ UNCHANGED <<serial, fsVars, binVars, cntVars>>

ClaimNextNothing ==
    /\ pc = "claim"
    /\ Pending = {}
    /\ Goto("rederive")
    /\ UNCHANGED <<dbVars, fsVars, binVars, job, cntVars>>

\* The claim fails.  It may have committed before the reply was lost: the row
\* is then running and no worker knows.
ClaimNextError ==
    /\ pc = "claim"
    /\ Fault
    /\ \/ \E k \in Keys : Oldest(Pending, k) /\ MarkRunning(k)
       \/ UNCHANGED rows
    /\ Idle("sleep")
    /\ UNCHANGED <<serial, fsVars, binVars, crashes, retries>>

Wake ==
    /\ pc = "sleep"
    /\ Goto("claim")
    /\ UNCHANGED <<dbVars, fsVars, binVars, job, cntVars>>

-----------------------------------------------------------------------------
(* Worker.process and Worker.analyse: download, parse, retain, record.     *)

\* The request fails, or is answered by another status than 200.
DownloadRefused ==
    /\ pc = "download"
    /\ Goto("fail")
    /\ UNCHANGED <<dbVars, fsVars, binVars, job, cntVars>>

DownloadStarts ==
    /\ pc = "download"
    /\ tmp' = tmp + 1
    /\ Goto("copy")
    /\ UNCHANGED <<dbVars, blobs, binVars, job, cntVars>>

\* A broken copy, a failed close, or a demo over maxDemoBytes.
DownloadAborts ==
    /\ pc = "copy"
    /\ tmp' = tmp - 1
    /\ Goto("fail")
    /\ UNCHANGED <<dbVars, blobs, binVars, job, cntVars>>

DownloadDone ==
    /\ pc = "copy"
    /\ Goto("parse")
    /\ UNCHANGED <<dbVars, fsVars, binVars, job, cntVars>>

\* Mutant: the deferred Remove placed after the error return of ParseFile.
ParseFailsKeepingFile ==
    /\ pc = "parse"
    /\ Goto("fail")
    /\ UNCHANGED <<dbVars, fsVars, binVars, job, cntVars>>

\* ParseFile fails: analyse drops what Parse had collected and the file.
ParseFails ==
    /\ pc = "parse"
    /\ tmp' = tmp - 1
    /\ Goto("fail")
    /\ UNCHANGED <<dbVars, blobs, binVars, job, cntVars>>

\* Mutant: a Result built before the events are in it.
ParseDoneLosingEvents ==
    /\ pc = "parse"
    /\ Goto("avatars")
    /\ UNCHANGED <<dbVars, fsVars, binVars, job, cntVars>>

ParseDone ==
    /\ pc = "parse"
    /\ job' = [job EXCEPT !.events = [parser |-> parser, url |-> job.url]]
    /\ Goto("avatars")
    /\ UNCHANGED <<dbVars, fsVars, binVars, cntVars>>

\* One call to Steam, best effort; but it has neither a deadline nor a context,
\* so it may also never return (see FairSpec).
AddAvatars ==
    /\ pc = "avatars"
    /\ Goto("retain")
    /\ UNCHANGED <<dbVars, fsVars, binVars, job, cntVars>>

\* retainDemo uploads under a name made of the sharecode alone, replacing an
\* earlier upload; then analyse returns, and its deferred Remove runs.
RetainDemo(named) ==
    /\ pc = "retain"
    /\ blobs' = blobs \cup {job.key[1]}
    /\ job' = [job EXCEPT !.blob = named]   \* not named: the reply was lost
    /\ tmp' = tmp - 1
    /\ Goto("complete")
    /\ UNCHANGED <<dbVars, binVars, cntVars>>

\* Mutant: the blob's name returned although the upload failed.
RetainNothingButName ==
    /\ pc = "retain"
    /\ job' = [job EXCEPT !.blob = TRUE]
    /\ tmp' = tmp - 1
    /\ Goto("complete")
    /\ UNCHANGED <<dbVars, blobs, binVars, cntVars>>

\* No store is configured, or the upload did not happen: best effort.
RetainNothing ==
    /\ pc = "retain"
    /\ tmp' = tmp - 1
    /\ Goto("complete")
    /\ UNCHANGED <<dbVars, blobs, binVars, job, cntVars>>

Detect(events) == [from |-> events, det |-> detector]

\* Mutant: the highlights are not in the transaction.
CompletedWithoutHighlights(row) ==
    [row EXCEPT !.status = "done",
                !.det    = detector,
                !.blob   = job.blob \/ @,
                !.events = job.events]

\* The transaction of Store.Complete: no guard on the status, the path only
\* replaced by a new one, highlights and events replaced.
Completed(row) ==
    [row EXCEPT !.status = "done",
                !.det    = detector,
                !.blob   = job.blob \/ @,
                !.events = job.events,
                !.hl     = Detect(job.events)]

Complete ==
    /\ pc = "complete"
    /\ rows' = [rows EXCEPT ![job.key] = Completed(@)]
    /\ Idle("claim")
    /\ UNCHANGED <<serial, fsVars, binVars, cntVars>>

\* Its error is logged and the job dropped; rolled back, the row stays running.
CompleteError ==
    /\ pc = "complete"
    /\ Fault
    /\ Idle("claim")
    /\ UNCHANGED <<dbVars, fsVars, binVars, crashes, retries>>

Fail ==
    /\ pc = "fail"
    /\ rows' = [rows EXCEPT ![job.key].status = "failed"]
    /\ Idle("claim")
    /\ UNCHANGED <<serial, fsVars, binVars, cntVars>>

\* Also only logged.  (Committed with its reply lost, it is Fail, as above.)
FailError ==
    /\ pc = "fail"
    /\ Fault
    /\ Idle("claim")
    /\ UNCHANGED <<dbVars, fsVars, binVars, crashes, retries>>

-----------------------------------------------------------------------------
(* Worker.rederive: highlights of an older detector, from stored events.   *)

\* Mutant: detector_version <= $1, which never stops being true.
StaleEvenCurrent == {k \in Keys : /\ rows[k].status = "done"
                                  /\ rows[k].det <= detector
                                  /\ k[2] = parser}

Stale == {k \in Keys : /\ rows[k].status = "done"
                       /\ rows[k].det < detector
                       /\ k[2] = parser}

\* detector_version is made current before anything is recomputed.
MarkCurrent(k) == rows' = [rows EXCEPT ![k].det = detector]

ClaimNextRederive(k) ==
    /\ pc = "rederive"
    /\ Oldest(Stale, k)
    /\ MarkCurrent(k)
    /\ job' = [NoJob EXCEPT !.key = k]
    /\ Goto("load")
    /\ UNCHANGED <<serial, fsVars, binVars, cntVars>>

ClaimNextRederiveNothing ==
    /\ pc = "rederive"
    /\ Stale = {}
    /\ Goto("sleep")
    /\ UNCHANGED <<dbVars, fsVars, binVars, job, cntVars>>

ClaimNextRederiveError ==
    /\ pc = "rederive"
    /\ Fault
    /\ \/ \E k \in Keys : Oldest(Stale, k) /\ MarkCurrent(k)
       \/ UNCHANGED rows
    /\ Idle("sleep")
    /\ UNCHANGED <<serial, fsVars, binVars, crashes, retries>>

\* Mutant: the job returned before the loaded events are put into it.
LoadEventsDropped ==
    /\ pc = "load"
    /\ Goto("save")
    /\ UNCHANGED <<dbVars, fsVars, binVars, job, cntVars>>

\* After the claim has committed, in four queries outside any transaction.
LoadEvents ==
    /\ pc = "load"
    /\ job' = [job EXCEPT !.events = rows[job.key].events]
    /\ Goto("save")
    /\ UNCHANGED <<dbVars, fsVars, binVars, cntVars>>

LoadEventsError ==
    /\ pc = "load"
    /\ Fault
    /\ Idle("sleep")
    /\ UNCHANGED <<dbVars, fsVars, binVars, crashes, retries>>

\* Mutant: the recomputed highlights are not written.
SaveHighlightsNot ==
    /\ pc = "save"
    /\ Idle("claim")
    /\ UNCHANGED <<dbVars, fsVars, binVars, cntVars>>

SaveHighlights ==
    /\ pc = "save"
    /\ rows' = [rows EXCEPT ![job.key].hl = Detect(job.events)]
    /\ Idle("claim")
    /\ UNCHANGED <<serial, fsVars, binVars, cntVars>>

\* Committed with its reply lost, it is SaveHighlights and a nap.
SaveHighlightsError ==
    /\ pc = "save"
    /\ Fault
    /\ Idle("sleep")
    /\ UNCHANGED <<dbVars, fsVars, binVars, crashes, retries>>

-----------------------------------------------------------------------------
(* The process: main's boot order, death at any point, deploys.            *)

Crash ==
    /\ pc # "down"
    /\ crashes < MaxCrashes
    /\ crashes' = crashes + 1
    /\ Idle("down")
    /\ UNCHANGED <<dbVars, fsVars, binVars, faults, retries>>

\* restart: unless-stopped starts the same container again, files and all.
Restart ==
    /\ pc = "down"
    /\ Goto("boot")
    /\ UNCHANGED <<dbVars, fsVars, binVars, job, cntVars>>

\* WUD recreates the container from a newer image: its /tmp is a new one.
Deploy ==
    /\ pc = "down"
    /\ parser' \in parser..MaxParser
    /\ detector' \in detector..MaxDetector
    /\ tmp' = 0
    /\ Goto("boot")
    /\ UNCHANGED <<dbVars, blobs, job, cntVars>>

\* Mutant: only the rows of the running binary's parser version.
OrphanedOfVersion(k) == rows[k].status = "running" /\ k[2] = parser

Orphaned(k) == rows[k].status = "running"

\* main: RequeueOrphaned, over every parser version, then go worker.Run.
RequeueOrphaned ==
    /\ pc = "boot"
    /\ rows' = [k \in Keys |-> IF Orphaned(k)
                               THEN [rows[k] EXCEPT !.status = "pending"]
                               ELSE rows[k]]
    /\ Goto("claim")
    /\ UNCHANGED <<serial, fsVars, binVars, job, cntVars>>

\* Its error is a warning; main starts the worker all the same.
RequeueOrphanedError ==
    /\ pc = "boot"
    /\ Fault
    /\ Goto("claim")
    /\ UNCHANGED <<dbVars, fsVars, binVars, job, crashes, retries>>

-----------------------------------------------------------------------------
ClaimStep    == \/ \E k \in Keys : ClaimNext(k)
                \/ ClaimNextNothing \/ ClaimNextError \/ Wake
AnalyseStep  == \/ DownloadRefused \/ DownloadStarts \/ DownloadAborts \/ DownloadDone
                \/ ParseFails \/ ParseDone \/ AddAvatars
                \/ \E named \in BOOLEAN : RetainDemo(named)
                \/ RetainNothing
                \/ Complete \/ CompleteError \/ Fail \/ FailError
RederiveStep == \/ \E k \in Keys : ClaimNextRederive(k)
                \/ ClaimNextRederiveNothing \/ ClaimNextRederiveError
                \/ LoadEvents \/ LoadEventsError
                \/ SaveHighlights \/ SaveHighlightsError
BootStep     == Restart \/ Deploy \/ RequeueOrphaned \/ RequeueOrphanedError

WorkerStep == ClaimStep \/ AnalyseStep \/ RederiveStep

Next == Enqueue \/ WorkerStep \/ BootStep \/ Crash

Spec == Init /\ [][Next]_vars

\* The Go scheduler keeps running the worker goroutine and `restart:
\* unless-stopped` brings the process back.  A download has a deadline; the call
\* for avatars has none, so nothing says that it ever returns.  No fairness for
\* users, faults or crashes.
FairSpec == /\ Spec
            /\ WF_vars(WorkerStep /\ pc # "avatars")
            /\ WF_vars(BootStep)
-----------------------------------------------------------------------------
(* Safety.                                                                 *)

Jobs == [key : Keys \cup {None}, url : Urls \cup {None},
         events : Parses \cup {None}, blob : BOOLEAN]

\* Types; and no file is removed twice (tmp never goes below zero).
TypeOK ==
    /\ rows \in [Keys -> Row]
    /\ serial \in Nat
    /\ blobs \subseteq Codes
    /\ tmp \in Nat
    /\ parser \in ParserVersions /\ detector \in DetectorVersions
    /\ pc \in PCs /\ job \in Jobs
    /\ faults \in 0..MaxFaults /\ crashes \in 0..MaxCrashes
    /\ retries \in 0..MaxRetries

\* Complete and Fail update by id with no guard on the status; what makes that
\* right is that, whatever users and deploys do meanwhile, the row of the job
\* in hand is still running and still asks for the URL that was claimed.
JobIsRunning ==
    pc \in AnalysePCs => /\ job.key \in Keys
                         /\ rows[job.key].status = "running"
                         /\ rows[job.key].url = job.url

\* A row shows results exactly when it is done, and they hang together: events
\* of the demo the row points at, read by a parser no older than the version the
\* row is filed under (ClaimNext takes rows of any version), highlights derived
\* from these very events by a detector no newer than the row says.  (Complete
\* and SaveHighlights)
DoneIsWhole ==
    \A k \in Keys :
        LET r == rows[k] IN
        IF r.status = "done"
        THEN /\ r.events \in Parses /\ r.events.url = r.url
             /\ k[2] <= r.events.parser
             /\ r.hl \in Highlights /\ r.hl.from = r.events
             /\ r.hl.det <= r.det /\ r.det <= detector
        ELSE r.events = None /\ r.hl = None /\ ~r.blob

\* The events rederive works on are the ones still stored, and the row is
\* already marked current, so an interrupted recompute is not repeated.
\* (ClaimNextRederive marks up front; LoadEvents reads after.)
RederivesStoredEvents ==
    pc \in RederivePCs =>
        /\ job.key \in Keys
        /\ rows[job.key].status = "done"
        /\ rows[job.key].det = detector
        /\ rows[job.key].hl.det < detector
        /\ pc = "save" => job.events = rows[job.key].events

\* What the worker carries from step to step is what the next store call needs:
\* the URL of an asked row; once parsed, events of that URL; a blob name only of
\* a blob that is there; and a file on disk for as long as one is read.
JobCarriesItsResults ==
    /\ \A k \in Keys : rows[k].status # "none" => rows[k].url \in Urls
    /\ pc \in {"avatars", "retain", "complete"} =>
          job.events \in Parses /\ job.events.url = job.url
    /\ pc \in {"download", "copy", "parse", "avatars", "retain"} => ~job.blob
    /\ pc = "complete" /\ job.blob => job.key[1] \in blobs
    /\ pc \in ReadingPCs => tmp > 0

\* Running rows that no worker holds: nothing claims them and no retry is
\* accepted for them.  A store fault strands at most one row, a crash one until
\* RequeueOrphaned, which must leave none behind, of any parser version.
Stranded == {k \in Keys : /\ rows[k].status = "running"
                          /\ ~(pc \in AnalysePCs /\ job.key = k)}

StrandedByFaults ==
    Cardinality(Stranded) <= faults + (IF Serving THEN 0 ELSE 1)

\* A row only names a blob that is in the container: the path is recorded
\* after the upload, and uploads of other versions go to the same name.
BlobBehindPath ==
    \A k \in Keys : rows[k].blob => k[1] \in blobs

\* The disk holds the demo in hand and at most one more per crash of this
\* container: every way out of analyse removes the file.
TempFilesBounded ==
    tmp <= crashes + (IF pc \in ReadingPCs THEN 1 ELSE 0)

(* What a step may never do.                                               *)

\* Done is final within a parser version: no request, restart or re-derivation
\* changes the status, the demo, the events or the retained path again
\* (the conflict clause of Enqueue; RequeueOrphaned; MarkCurrent).
DoneStays ==
    \A k \in Keys : rows[k].status = "done" =>
        /\ rows'[k].status = "done"
        /\ rows'[k].url = rows[k].url
        /\ rows'[k].events = rows[k].events
        /\ rows'[k].blob = rows[k].blob

DoneIsFinal == [][DoneStays]_vars

\* Published highlights only ever give way to those of a newer detector over
\* the same events, so a row is rewritten at most once per detector version.
HighlightsImprove ==
    \A k \in Keys : rows[k].status = "done" =>
        \/ rows'[k].hl = rows[k].hl
        \/ /\ rows'[k].hl.from = rows[k].hl.from
           /\ rows'[k].hl.det > rows[k].hl.det

HighlightsOnlyImprove == [][HighlightsImprove]_vars

(* Refinement.                                                             *)

Promise == INSTANCE AnalysisPromise WITH
    Requests  <- Keys,
    Demos     <- Urls,
    Parsers   <- ParserVersions,
    Detectors <- DetectorVersions,
    status    <- [k \in Keys |-> rows[k].status],
    asked     <- [k \in Keys |-> rows[k].url],
    result    <- [k \in Keys |-> rows[k].events],
    shown     <- [k \in Keys |-> rows[k].hl]

\* Whatever fails, crashes or is upgraded underneath, what users see of the
\* table is a behaviour of AnalysisPromise.
KeepsPromise == Promise!PSpec

(* Liveness, under FairSpec.                                               *)

\* Unless a store fault strikes, every accepted request ends in done or failed,
\* however the process crashes and is upgraded in between (RequeueOrphaned,
\* ClaimNext): or the worker hangs for ever, and that only in the one call that
\* has no deadline.
AskedIsAnswered ==
    \A k \in Keys :
        rows[k].status = "pending" ~> \/ rows[k].status \in {"done", "failed"}
                                      \/ faults > 0
                                      \/ [](pc = "avatars")

\* Unless a store fault or a crash strikes, or the worker hangs as above, an
\* analysis left stale by a deploy gets the highlights of the new detector (Run
\* falls through to rederive).
StaleIsRefreshed ==
    \A k \in Keys :
        (Serving /\ k \in Stale) ~> \/ rows[k].hl \in Highlights /\ rows[k].hl.det = detector
                                    \/ faults > 0 \/ ~Serving
                                    \/ [](pc = "avatars")

(* Claims of the repository's comments, for the runs that refute them.     *)

\* "A failure is recorded, not retried" (worker.go:164) so that "a single bad
\* minute" does not "leave a match unanalysable forever" (analyses.go:70): a
\* job the worker took ends in done, in failed or queued again (unless the worker
\* hangs in the call for avatars, see above).
AttemptIsRecorded ==
    \A k \in Keys :
        (pc \in AnalysePCs /\ job.key = k) ~> \/ rows[k].status # "running"
                                              \/ [](pc = "avatars")
=============================================================================
