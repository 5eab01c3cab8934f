------------------------ MODULE AnalysisQueue_proofs ------------------------
(* Machine-checked proofs about AnalysisQueue, for every value of its        *)
(* constants that satisfies the assumptions named there.                     *)
EXTENDS AnalysisQueue, FiniteSetTheorems, TLAPS

(* The inductive invariant: Complete and Fail update rows without looking at *)
(* them, so that they do no harm follows only from what the whole worker,    *)
(* the conflict clause of Enqueue and the boot order keep true together.     *)
IInv == /\ TypeOK
        /\ JobIsRunning
        /\ DoneIsWhole
        /\ RederivesStoredEvents
        /\ JobCarriesItsResults
        /\ BlobBehindPath

(* Binaries are only replaced by newer ones, so no row is filed under a      *)
(* version the running parser does not have, and what the worker has parsed  *)
(* is at least of the version the row asks for.                              *)
VersionsGrow ==
    /\ \A k \in Keys : rows[k].status # "none" => k[2] <= parser
    /\ pc \in {"avatars", "retain", "complete"} => job.key[2] <= job.events.parser

(* A status update of a row is a row. (ClaimNext, Fail, RequeueOrphaned)   *)
LEMMA StatusRow ==
  ASSUME NEW r \in Row, NEW s \in Statuses
  PROVE  [r EXCEPT !.status = s] \in Row
  BY DEF Row

(* The INSERT of Enqueue makes a row of an absent one.                     *)
LEMMA AskedRow ==
  ASSUME NEW r \in Row, NEW u \in Urls, NEW n \in Nat
  PROVE  [r EXCEPT !.status = "pending", !.url = u, !.created = n] \in Row
  BY DEF Row, Statuses

(* The conflict clause of Enqueue makes a row of a failed one.             *)
LEMMA RetriedRow ==
  ASSUME NEW r \in Row, NEW u \in Urls
  PROVE  [r EXCEPT !.status = "pending", !.url = u] \in Row
  BY DEF Row, Statuses

(* Marking a row with the version of the running detector keeps it a row.  *)
LEMMA CurrentRow ==
  ASSUME NEW r \in Row, NEW d \in 0..MaxDetector
  PROVE  [r EXCEPT !.det = d] \in Row
  BY DEF Row

(* New highlights keep a row a row. (SaveHighlights)                       *)
LEMMA RefreshedRow ==
  ASSUME NEW r \in Row, NEW h \in Highlights
  PROVE  [r EXCEPT !.hl = h] \in Row
  BY DEF Row

(* What Complete writes to a row is a row.                                 *)
LEMMA CompletedRow ==
  ASSUME NEW r \in Row, NEW d \in 0..MaxDetector, NEW b \in BOOLEAN,
         NEW e \in Parses, NEW h \in Highlights
  PROVE  [r EXCEPT !.status = "done", !.det = d, !.blob = b,
                   !.events = e, !.hl = h] \in Row
  BY DEF Row, Statuses

(* An empty table and a process about to boot satisfy IInv.                *)
LEMMA InitIInv == Init => IInv
<1> SUFFICES ASSUME Init PROVE IInv
  OBVIOUS
<1> USE BoundsAssumption
<1>1. TypeOK
  BY DEF Init, TypeOK, AbsentRow, Row, Statuses, NoJob, Jobs, PCs,
         ParserVersions, DetectorVersions
<1>2. JobIsRunning /\ RederivesStoredEvents
  BY DEF Init, JobIsRunning, RederivesStoredEvents, AnalysePCs, RederivePCs
<1>3. DoneIsWhole /\ BlobBehindPath
  BY DEF Init, DoneIsWhole, BlobBehindPath, AbsentRow
<1>4. JobCarriesItsResults
  BY DEF Init, JobCarriesItsResults, ReadingPCs, AbsentRow
<1> QED
  BY <1>1, <1>2, <1>3, <1>4 DEF IInv

(* A first request keeps IInv: the new row shows no results.               *)
LEMMA EnqueueNewIInv ==
  ASSUME IInv, NEW c \in Codes, NEW u \in Urls, EnqueueNew(c, u)
  PROVE  IInv'
<1> DEFINE k == <<c, parser>>
<1>0. k \in Keys
  BY DEF IInv, TypeOK, Keys
<1>1. TypeOK'
  <2>1. [rows[k] EXCEPT !.status = "pending", !.url = u, !.created = serial + 1] \in Row
    <3>1. rows[k] \in Row /\ serial + 1 \in Nat
      BY <1>0 DEF IInv, TypeOK
    <3> QED
      BY <3>1, AskedRow
  <2>2. rows' \in [Keys -> Row] /\ serial' \in Nat
    BY <1>0, <2>1 DEF IInv, TypeOK, EnqueueNew
  <2> QED
    BY <2>2 DEF IInv, TypeOK, EnqueueNew, fsVars, binVars, cntVars
<1>2. JobIsRunning'
  BY <1>0 DEF IInv, TypeOK, JobIsRunning, EnqueueNew, Row, fsVars, binVars, cntVars
<1>3. DoneIsWhole'
  BY <1>0 DEF IInv, TypeOK, DoneIsWhole, EnqueueNew, Row, fsVars, binVars, cntVars
<1>4. RederivesStoredEvents'
  BY <1>0 DEF IInv, TypeOK, RederivesStoredEvents, EnqueueNew, Row, fsVars, binVars, cntVars
<1>5. JobCarriesItsResults'
  BY <1>0 DEF IInv, TypeOK, JobCarriesItsResults, ReadingPCs, EnqueueNew, Row, fsVars, binVars, cntVars
<1>6. BlobBehindPath'
  BY <1>0 DEF IInv, TypeOK, BlobBehindPath, EnqueueNew, Row, fsVars, binVars, cntVars
<1> QED
  BY <1>1, <1>2, <1>3, <1>4, <1>5, <1>6 DEF IInv

(* What a step that leaves the table and the binary alone cannot disturb,   *)
(* as long as no blob goes away.                                            *)
LEMMA RowsUntouched ==
  ASSUME IInv, rows' = rows, detector' = detector, blobs \subseteq blobs'
  PROVE  DoneIsWhole' /\ BlobBehindPath'
<1>1. DoneIsWhole'
  BY DEF IInv, DoneIsWhole
<1>2. BlobBehindPath'
  BY DEF IInv, BlobBehindPath
<1> QED
  BY <1>1, <1>2

(* What ClaimNextRederive finds.                                            *)
LEMMA StaleRow ==
  ASSUME IInv, NEW k \in Stale
  PROVE  /\ rows[k] \in Row /\ rows[k].status = "done"
         /\ rows[k].det \in Nat /\ rows[k].det < detector
         /\ rows[k].hl \in Highlights /\ rows[k].hl.det \in Nat
         /\ rows[k].hl.det < detector
         /\ detector \in Nat
         /\ [rows[k] EXCEPT !.det = detector] \in Row
<1>1. /\ k \in Keys /\ rows[k] \in Row /\ rows[k].status = "done"
      /\ rows[k].det < detector /\ rows[k].hl \in Highlights
      /\ rows[k].hl.det <= rows[k].det
  BY DEF IInv, TypeOK, DoneIsWhole, Stale
<1>2. /\ rows[k].det \in Nat /\ detector \in 0..MaxDetector
      /\ rows[k].hl.det \in Nat
  BY <1>1, BoundsAssumption
    DEF IInv, TypeOK, Row, Highlights, DetectorVersions
<1>3. [rows[k] EXCEPT !.det = detector] \in Row
  BY <1>1, <1>2, CurrentRow
<1> QED
  BY <1>1, <1>2, <1>3

(* Claiming, finding nothing and sleeping keep IInv.                       *)
LEMMA ClaimStepIInv == ASSUME IInv, ClaimStep PROVE IInv'
<1>1. ASSUME NEW k \in Keys, ClaimNext(k) PROVE IInv'
  <2>0. /\ rows[k] \in Row /\ rows[k].status = "pending"
        /\ [rows[k] EXCEPT !.status = "running"] \in Row
        /\ rows[k].url \in Urls
    BY <1>1, StatusRow
      DEF IInv, TypeOK, ClaimNext, Oldest, Pending, Statuses,
          JobCarriesItsResults
  <2>1. TypeOK'
    BY <1>1, <2>0
      DEF IInv, TypeOK, ClaimNext, MarkRunning, Goto, NoJob, fsVars,
          binVars, cntVars, Jobs, PCs, AnalysePCs, RederivePCs
  <2>2. JobIsRunning'
    BY <1>1, <2>0
      DEF IInv, TypeOK, JobIsRunning, ClaimNext, MarkRunning, Goto,
          NoJob, fsVars, binVars, cntVars, AnalysePCs, RederivePCs, Row
  <2>3. DoneIsWhole'
    BY <1>1, <2>0
      DEF IInv, TypeOK, DoneIsWhole, ClaimNext, MarkRunning, Goto,
          NoJob, fsVars, binVars, cntVars, AnalysePCs, RederivePCs, Row
  <2>4. RederivesStoredEvents'
    BY <1>1, <2>0
      DEF IInv, TypeOK, RederivesStoredEvents, ClaimNext, MarkRunning,
          Goto, NoJob, fsVars, binVars, cntVars, AnalysePCs,
          RederivePCs, Row
  <2>5. JobCarriesItsResults'
    BY <1>1, <2>0
      DEF IInv, TypeOK, JobCarriesItsResults, ReadingPCs, ClaimNext, MarkRunning,
          Goto, NoJob, fsVars, binVars, cntVars, AnalysePCs,
          RederivePCs, Row
  <2>6. BlobBehindPath'
    BY <1>1, <2>0
      DEF IInv, TypeOK, BlobBehindPath, ClaimNext, MarkRunning, Goto,
          NoJob, fsVars, binVars, cntVars, AnalysePCs, RederivePCs, Row
  <2> QED
    BY <2>1, <2>2, <2>3, <2>4, <2>5, <2>6 DEF IInv
<1>2. ASSUME ClaimNextNothing PROVE IInv'
  <2>1. TypeOK'
    BY <1>2, BoundsAssumption
      DEF IInv, TypeOK, ClaimNextNothing, Goto, dbVars, fsVars, binVars,
          cntVars, PCs, AnalysePCs, RederivePCs, Jobs
  <2>2. JobIsRunning' /\ RederivesStoredEvents'
    BY <1>2
      DEF IInv, TypeOK, JobIsRunning, RederivesStoredEvents,
          ClaimNextNothing, Goto, dbVars, fsVars, binVars, cntVars,
          AnalysePCs, RederivePCs
  <2>3. JobCarriesItsResults'
    BY <1>2
      DEF IInv, TypeOK, JobCarriesItsResults, ReadingPCs, ClaimNextNothing, Goto,
          dbVars, fsVars, binVars, cntVars
  <2>4. DoneIsWhole' /\ BlobBehindPath'
    BY <1>2, RowsUntouched
      DEF ClaimNextNothing, Goto, dbVars, fsVars, binVars, cntVars
  <2> QED
    BY <2>1, <2>2, <2>3, <2>4 DEF IInv
<1>3. ASSUME ClaimNextError PROVE IInv'
  <2>1. ASSUME UNCHANGED rows PROVE IInv'
    <3>1. TypeOK'
      BY <1>3, <2>1, BoundsAssumption
        DEF IInv, TypeOK, ClaimNextError, Idle, Goto, NoJob, Fault,
            fsVars, binVars, PCs, AnalysePCs, RederivePCs, Jobs
    <3>2. JobIsRunning' /\ RederivesStoredEvents'
      BY <1>3, <2>1
        DEF IInv, TypeOK, JobIsRunning, RederivesStoredEvents,
            ClaimNextError, Idle, Goto, NoJob, Fault, fsVars, binVars,
            AnalysePCs, RederivePCs
    <3>3. JobCarriesItsResults'
      BY <1>3, <2>1
        DEF IInv, TypeOK, JobCarriesItsResults, ReadingPCs, ClaimNextError, Idle,
            Goto, NoJob, Fault, fsVars, binVars
    <3>4. DoneIsWhole' /\ BlobBehindPath'
      BY <1>3, <2>1, RowsUntouched
        DEF ClaimNextError, Idle, Goto, NoJob, Fault, fsVars, binVars
    <3> QED
      BY <3>1, <3>2, <3>3, <3>4 DEF IInv
  <2>2. ASSUME NEW k \in Keys, Oldest(Pending, k), MarkRunning(k) PROVE IInv'
    <3>0. /\ rows[k] \in Row /\ rows[k].status = "pending"
          /\ [rows[k] EXCEPT !.status = "running"] \in Row
      BY <1>3, <2>2, StatusRow DEF IInv, TypeOK, Oldest, Pending, Statuses
    <3>1. TypeOK'
      BY <1>3, <2>2, <3>0, BoundsAssumption
        DEF IInv, TypeOK, ClaimNextError, Idle, Goto, NoJob, Fault,
            fsVars, binVars, MarkRunning, Jobs, PCs, AnalysePCs,
            RederivePCs
    <3>2. JobIsRunning'
      BY <1>3, <2>2, <3>0
        DEF IInv, TypeOK, JobIsRunning, ClaimNextError, Idle, Goto, NoJob,
            Fault, fsVars, binVars, MarkRunning, AnalysePCs, RederivePCs,
            Row
    <3>3. DoneIsWhole'
      BY <1>3, <2>2, <3>0
        DEF IInv, TypeOK, DoneIsWhole, ClaimNextError, Idle, Goto, NoJob,
            Fault, fsVars, binVars, MarkRunning, AnalysePCs, RederivePCs,
            Row
    <3>4. RederivesStoredEvents'
      BY <1>3, <2>2, <3>0
        DEF IInv, TypeOK, RederivesStoredEvents, ClaimNextError, Idle,
            Goto, NoJob, Fault, fsVars, binVars, MarkRunning, AnalysePCs,
            RederivePCs, Row
    <3>5. JobCarriesItsResults'
      BY <1>3, <2>2, <3>0
        DEF IInv, TypeOK, JobCarriesItsResults, ReadingPCs, ClaimNextError, Idle,
            Goto, NoJob, Fault, fsVars, binVars, MarkRunning, AnalysePCs,
            RederivePCs, Row
    <3>6. BlobBehindPath'
      BY <1>3, <2>2, <3>0
        DEF IInv, TypeOK, BlobBehindPath, ClaimNextError, Idle, Goto,
            NoJob, Fault, fsVars, binVars, MarkRunning, AnalysePCs,
            RederivePCs, Row
    <3> QED
      BY <3>1, <3>2, <3>3, <3>4, <3>5, <3>6 DEF IInv
  <2> QED
    BY <1>3, <2>1, <2>2 DEF ClaimNextError
<1>4. ASSUME Wake PROVE IInv'
  <2>1. TypeOK'
    BY <1>4, BoundsAssumption
      DEF IInv, TypeOK, Wake, Goto, dbVars, fsVars, binVars, cntVars,
          PCs, AnalysePCs, RederivePCs, Jobs
  <2>2. JobIsRunning' /\ RederivesStoredEvents'
    BY <1>4
      DEF IInv, TypeOK, JobIsRunning, RederivesStoredEvents, Wake, Goto,
          dbVars, fsVars, binVars, cntVars, AnalysePCs, RederivePCs
  <2>3. JobCarriesItsResults'
    BY <1>4
      DEF IInv, TypeOK, JobCarriesItsResults, ReadingPCs, Wake, Goto, dbVars,
          fsVars, binVars, cntVars
  <2>4. DoneIsWhole' /\ BlobBehindPath'
    BY <1>4, RowsUntouched
      DEF Wake, Goto, dbVars, fsVars, binVars, cntVars
  <2> QED
    BY <2>1, <2>2, <2>3, <2>4 DEF IInv
<1> QED
  BY <1>1, <1>2, <1>3, <1>4 DEF ClaimStep

(* Every step of an analysis, up to Complete or Fail, keeps IInv.          *)
LEMMA AnalyseStepIInv == ASSUME IInv, VersionsGrow, AnalyseStep PROVE IInv'
<1>1. ASSUME DownloadRefused PROVE IInv'
  <2>1. TypeOK'
    BY <1>1, BoundsAssumption
      DEF IInv, TypeOK, DownloadRefused, Goto, dbVars, fsVars, binVars,
          cntVars, PCs, AnalysePCs, RederivePCs, Jobs
  <2>2. JobIsRunning' /\ RederivesStoredEvents'
    BY <1>1
      DEF IInv, TypeOK, JobIsRunning, RederivesStoredEvents,
          DownloadRefused, Goto, dbVars, fsVars, binVars, cntVars,
          AnalysePCs, RederivePCs
  <2>3. JobCarriesItsResults'
    BY <1>1
      DEF IInv, TypeOK, JobCarriesItsResults, ReadingPCs, DownloadRefused, Goto,
          dbVars, fsVars, binVars, cntVars
  <2>4. DoneIsWhole' /\ BlobBehindPath'
    BY <1>1, RowsUntouched
      DEF DownloadRefused, Goto, dbVars, fsVars, binVars, cntVars
  <2> QED
    BY <2>1, <2>2, <2>3, <2>4 DEF IInv
<1>2. ASSUME DownloadStarts PROVE IInv'
  <2>1. TypeOK'
    BY <1>2, BoundsAssumption
      DEF IInv, TypeOK, DownloadStarts, Goto, dbVars, binVars, cntVars,
          PCs, AnalysePCs, RederivePCs, Jobs
  <2>2. JobIsRunning' /\ RederivesStoredEvents'
    BY <1>2
      DEF IInv, TypeOK, JobIsRunning, RederivesStoredEvents,
          DownloadStarts, Goto, dbVars, binVars, cntVars, AnalysePCs,
          RederivePCs
  <2>3. JobCarriesItsResults'
    BY <1>2
      DEF IInv, TypeOK, JobCarriesItsResults, ReadingPCs, DownloadStarts, Goto,
          dbVars, binVars, cntVars
  <2>4. DoneIsWhole' /\ BlobBehindPath'
    BY <1>2, RowsUntouched
      DEF DownloadStarts, Goto, dbVars, binVars, cntVars
  <2> QED
    BY <2>1, <2>2, <2>3, <2>4 DEF IInv
<1>3. ASSUME DownloadAborts PROVE IInv'
  <2>1. TypeOK'
    BY <1>3, BoundsAssumption
      DEF IInv, TypeOK, JobCarriesItsResults, ReadingPCs, DownloadAborts, Goto,
          dbVars, binVars, cntVars, PCs, AnalysePCs, RederivePCs, Jobs
  <2>2. JobIsRunning' /\ RederivesStoredEvents'
    BY <1>3
      DEF IInv, TypeOK, JobIsRunning, RederivesStoredEvents,
          DownloadAborts, Goto, dbVars, binVars, cntVars, AnalysePCs,
          RederivePCs
  <2>3. JobCarriesItsResults'
    BY <1>3
      DEF IInv, TypeOK, JobCarriesItsResults, ReadingPCs, DownloadAborts, Goto,
          dbVars, binVars, cntVars
  <2>4. DoneIsWhole' /\ BlobBehindPath'
    BY <1>3, RowsUntouched
      DEF DownloadAborts, Goto, dbVars, binVars, cntVars
  <2> QED
    BY <2>1, <2>2, <2>3, <2>4 DEF IInv
<1>4. ASSUME DownloadDone PROVE IInv'
  <2>1. TypeOK'
    BY <1>4, BoundsAssumption
      DEF IInv, TypeOK, DownloadDone, Goto, dbVars, fsVars, binVars,
          cntVars, PCs, AnalysePCs, RederivePCs, Jobs
  <2>2. JobIsRunning' /\ RederivesStoredEvents'
    BY <1>4
      DEF IInv, TypeOK, JobIsRunning, RederivesStoredEvents,
          DownloadDone, Goto, dbVars, fsVars, binVars, cntVars,
          AnalysePCs, RederivePCs
  <2>3. JobCarriesItsResults'
    BY <1>4
      DEF IInv, TypeOK, JobCarriesItsResults, ReadingPCs, DownloadDone, Goto,
          dbVars, fsVars, binVars, cntVars
  <2>4. DoneIsWhole' /\ BlobBehindPath'
    BY <1>4, RowsUntouched
      DEF DownloadDone, Goto, dbVars, fsVars, binVars, cntVars
  <2> QED
    BY <2>1, <2>2, <2>3, <2>4 DEF IInv
<1>5. ASSUME ParseFails PROVE IInv'
  <2>1. TypeOK'
    BY <1>5, BoundsAssumption
      DEF IInv, TypeOK, JobCarriesItsResults, ReadingPCs, ParseFails, Goto, dbVars,
          binVars, cntVars, PCs, AnalysePCs, RederivePCs, Jobs
  <2>2. JobIsRunning' /\ RederivesStoredEvents'
    BY <1>5
      DEF IInv, TypeOK, JobIsRunning, RederivesStoredEvents, ParseFails,
          Goto, dbVars, binVars, cntVars, AnalysePCs, RederivePCs
  <2>3. JobCarriesItsResults'
    BY <1>5
      DEF IInv, TypeOK, JobCarriesItsResults, ReadingPCs, ParseFails, Goto, dbVars,
          binVars, cntVars
  <2>4. DoneIsWhole' /\ BlobBehindPath'
    BY <1>5, RowsUntouched
      DEF ParseFails, Goto, dbVars, binVars, cntVars
  <2> QED
    BY <2>1, <2>2, <2>3, <2>4 DEF IInv
<1>6. ASSUME ParseDone PROVE IInv'
  <2>0. job.url \in Urls /\ [parser |-> parser, url |-> job.url] \in Parses
    BY <1>6 DEF IInv, TypeOK, JobIsRunning, JobCarriesItsResults, ReadingPCs, ParseDone,
      AnalysePCs, Parses
  <2>1. TypeOK'
    BY <1>6, <2>0
      DEF IInv, TypeOK, ParseDone, Goto, dbVars, fsVars, binVars,
          cntVars, PCs, AnalysePCs, RederivePCs, Jobs
  <2>2. JobIsRunning' /\ RederivesStoredEvents'
    BY <1>6
      DEF IInv, TypeOK, JobIsRunning, RederivesStoredEvents, ParseDone,
          Goto, dbVars, fsVars, binVars, cntVars, AnalysePCs,
          RederivePCs
  <2>3. JobCarriesItsResults'
    BY <1>6, <2>0
      DEF IInv, TypeOK, JobCarriesItsResults, ReadingPCs, ParseDone, Goto, dbVars,
          fsVars, binVars, cntVars
  <2>4. DoneIsWhole' /\ BlobBehindPath'
    BY <1>6, RowsUntouched
      DEF ParseDone, Goto, dbVars, fsVars, binVars, cntVars
  <2> QED
    BY <2>1, <2>2, <2>3, <2>4 DEF IInv
<1>7. ASSUME AddAvatars PROVE IInv'
  <2>1. TypeOK'
    BY <1>7, BoundsAssumption
      DEF IInv, TypeOK, AddAvatars, Goto, dbVars, fsVars, binVars,
          cntVars, PCs, AnalysePCs, RederivePCs, Jobs
  <2>2. JobIsRunning' /\ RederivesStoredEvents'
    BY <1>7
      DEF IInv, TypeOK, JobIsRunning, RederivesStoredEvents, AddAvatars,
          Goto, dbVars, fsVars, binVars, cntVars, AnalysePCs, RederivePCs
  <2>3. JobCarriesItsResults'
    BY <1>7
      DEF IInv, TypeOK, JobCarriesItsResults, ReadingPCs, AddAvatars,
          Goto, dbVars, fsVars, binVars, cntVars
  <2>4. DoneIsWhole' /\ BlobBehindPath'
    BY <1>7, RowsUntouched
      DEF AddAvatars, Goto, dbVars, fsVars, binVars, cntVars
  <2> QED
    BY <2>1, <2>2, <2>3, <2>4 DEF IInv
<1>8. ASSUME NEW named \in BOOLEAN, RetainDemo(named) PROVE IInv'
  <2>1. TypeOK'
    BY <1>8, BoundsAssumption
      DEF IInv, TypeOK, JobCarriesItsResults, ReadingPCs, JobIsRunning, AnalysePCs,
          Keys, RetainDemo, Goto, dbVars, binVars, cntVars, PCs,
          RederivePCs, Jobs
  <2>2. JobIsRunning' /\ RederivesStoredEvents'
    BY <1>8
      DEF IInv, TypeOK, JobIsRunning, RederivesStoredEvents, RetainDemo,
          Goto, dbVars, binVars, cntVars, AnalysePCs, RederivePCs
  <2>3. JobCarriesItsResults'
    BY <1>8
      DEF IInv, TypeOK, JobCarriesItsResults, ReadingPCs, RetainDemo, Goto, dbVars,
          binVars, cntVars
  <2>4. DoneIsWhole' /\ BlobBehindPath'
    BY <1>8, RowsUntouched
      DEF RetainDemo, Goto, dbVars, binVars, cntVars
  <2> QED
    BY <2>1, <2>2, <2>3, <2>4 DEF IInv
<1>9. ASSUME RetainNothing PROVE IInv'
  <2>1. TypeOK'
    BY <1>9, BoundsAssumption
      DEF IInv, TypeOK, JobCarriesItsResults, ReadingPCs, RetainNothing, Goto,
          dbVars, binVars, cntVars, PCs, AnalysePCs, RederivePCs, Jobs
  <2>2. JobIsRunning' /\ RederivesStoredEvents'
    BY <1>9
      DEF IInv, TypeOK, JobIsRunning, RederivesStoredEvents,
          RetainNothing, Goto, dbVars, binVars, cntVars, AnalysePCs,
          RederivePCs
  <2>3. JobCarriesItsResults'
    BY <1>9
      DEF IInv, TypeOK, JobCarriesItsResults, ReadingPCs, RetainNothing, Goto,
          dbVars, binVars, cntVars
  <2>4. DoneIsWhole' /\ BlobBehindPath'
    BY <1>9, RowsUntouched
      DEF RetainNothing, Goto, dbVars, binVars, cntVars
  <2> QED
    BY <2>1, <2>2, <2>3, <2>4 DEF IInv
<1>10. ASSUME Complete PROVE IInv'
  <2>0. /\ job.key \in Keys /\ rows[job.key] \in Row
        /\ job.events \in Parses /\ job.events.url = rows[job.key].url
        /\ job.key[2] <= job.events.parser
        /\ rows[job.key].url \in Urls
        /\ detector \in DetectorVersions /\ detector \in 0..MaxDetector
        /\ Detect(job.events) \in Highlights
        /\ ~rows[job.key].blob
        /\ job.blob \in BOOLEAN /\ (job.blob => job.key[1] \in blobs)
        /\ Completed(rows[job.key]) \in Row
    <3>1. /\ job.key \in Keys /\ rows[job.key] \in Row
          /\ job.events \in Parses /\ job.events.url = rows[job.key].url
          /\ job.key[2] <= job.events.parser
          /\ ~rows[job.key].blob /\ rows[job.key].url \in Urls
          /\ job.blob \in BOOLEAN /\ (job.blob => job.key[1] \in blobs)
      BY <1>10 DEF IInv, TypeOK, Jobs, JobIsRunning, DoneIsWhole,
        JobCarriesItsResults, ReadingPCs, VersionsGrow, Complete, AnalysePCs
    <3>2. detector \in DetectorVersions /\ detector \in 0..MaxDetector
      BY BoundsAssumption DEF IInv, TypeOK, DetectorVersions
    <3>3. Detect(job.events) \in Highlights
      BY <3>1, <3>2 DEF Detect, Highlights
    <3>4. (job.blob \/ rows[job.key].blob) \in BOOLEAN
      OBVIOUS
    <3> QED
      BY <3>1, <3>2, <3>3, <3>4, CompletedRow DEF Completed
  <2>1. TypeOK'
    BY <1>10, <2>0
      DEF IInv, TypeOK, Complete, Idle, Goto, NoJob, fsVars, binVars,
          cntVars, Completed, Detect, Jobs, PCs, AnalysePCs, RederivePCs
  <2>2. JobIsRunning'
    BY <1>10, <2>0
      DEF IInv, TypeOK, JobIsRunning, Complete, Idle, Goto, NoJob,
          fsVars, binVars, cntVars, Completed, Detect, AnalysePCs,
          RederivePCs, Row
  <2>3. DoneIsWhole'
    BY <1>10, <2>0
      DEF IInv, TypeOK, DoneIsWhole, Complete, Idle, Goto, NoJob,
          fsVars, binVars, cntVars, Completed, Detect, AnalysePCs,
          RederivePCs, Row
  <2>4. RederivesStoredEvents'
    BY <1>10, <2>0
      DEF IInv, TypeOK, RederivesStoredEvents, Complete, Idle, Goto,
          NoJob, fsVars, binVars, cntVars, Completed, Detect,
          AnalysePCs, RederivePCs, Row
  <2>5. JobCarriesItsResults'
    BY <1>10, <2>0
      DEF IInv, TypeOK, JobCarriesItsResults, ReadingPCs, Complete, Idle, Goto,
          NoJob, fsVars, binVars, cntVars, Completed, Detect,
          AnalysePCs, RederivePCs, Row
  <2>6. BlobBehindPath'
    BY <1>10, <2>0
      DEF IInv, TypeOK, BlobBehindPath, Complete, Idle, Goto, NoJob,
          fsVars, binVars, cntVars, Completed, Detect, AnalysePCs,
          RederivePCs, Row
  <2> QED
    BY <2>1, <2>2, <2>3, <2>4, <2>5, <2>6 DEF IInv
<1>11. ASSUME CompleteError PROVE IInv'
  <2>1. TypeOK'
    BY <1>11, BoundsAssumption
      DEF IInv, TypeOK, CompleteError, Idle, Goto, NoJob, Fault, dbVars,
          fsVars, binVars, PCs, AnalysePCs, RederivePCs, Jobs
  <2>2. JobIsRunning' /\ RederivesStoredEvents'
    BY <1>11
      DEF IInv, TypeOK, JobIsRunning, RederivesStoredEvents,
          CompleteError, Idle, Goto, NoJob, Fault, dbVars, fsVars,
          binVars, AnalysePCs, RederivePCs
  <2>3. JobCarriesItsResults'
    BY <1>11
      DEF IInv, TypeOK, JobCarriesItsResults, ReadingPCs, CompleteError, Idle, Goto,
          NoJob, Fault, dbVars, fsVars, binVars
  <2>4. DoneIsWhole' /\ BlobBehindPath'
    BY <1>11, RowsUntouched
      DEF CompleteError, Idle, Goto, NoJob, Fault, dbVars, fsVars,
          binVars
  <2> QED
    BY <2>1, <2>2, <2>3, <2>4 DEF IInv
<1>12. ASSUME Fail PROVE IInv'
  <2>0. /\ job.key \in Keys /\ rows[job.key].status = "running"
        /\ rows[job.key] \in Row
        /\ [rows[job.key] EXCEPT !.status = "failed"] \in Row
    <3>1. /\ job.key \in Keys /\ rows[job.key].status = "running"
          /\ rows[job.key] \in Row
      BY <1>12 DEF IInv, TypeOK, JobIsRunning, Fail, AnalysePCs
    <3> QED
      BY <3>1, StatusRow DEF Statuses
  <2>1. TypeOK'
    BY <1>12, <2>0
      DEF IInv, TypeOK, Fail, Idle, Goto, NoJob, fsVars, binVars,
          cntVars, Jobs, PCs, AnalysePCs, RederivePCs
  <2>2. JobIsRunning'
    BY <1>12, <2>0
      DEF IInv, TypeOK, JobIsRunning, Fail, Idle, Goto, NoJob, fsVars,
          binVars, cntVars, AnalysePCs, RederivePCs, Row
  <2>3. DoneIsWhole'
    BY <1>12, <2>0
      DEF IInv, TypeOK, DoneIsWhole, Fail, Idle, Goto, NoJob, fsVars,
          binVars, cntVars, AnalysePCs, RederivePCs, Row
  <2>4. RederivesStoredEvents'
    BY <1>12, <2>0
      DEF IInv, TypeOK, RederivesStoredEvents, Fail, Idle, Goto, NoJob,
          fsVars, binVars, cntVars, AnalysePCs, RederivePCs, Row
  <2>5. JobCarriesItsResults'
    BY <1>12, <2>0
      DEF IInv, TypeOK, JobCarriesItsResults, ReadingPCs, Fail, Idle, Goto, NoJob,
          fsVars, binVars, cntVars, AnalysePCs, RederivePCs, Row
  <2>6. BlobBehindPath'
    BY <1>12, <2>0
      DEF IInv, TypeOK, BlobBehindPath, Fail, Idle, Goto, NoJob, fsVars,
          binVars, cntVars, AnalysePCs, RederivePCs, Row
  <2> QED
    BY <2>1, <2>2, <2>3, <2>4, <2>5, <2>6 DEF IInv
<1>13. ASSUME FailError PROVE IInv'
  <2>1. TypeOK'
    BY <1>13, BoundsAssumption
      DEF IInv, TypeOK, FailError, Idle, Goto, NoJob, Fault, dbVars,
          fsVars, binVars, PCs, AnalysePCs, RederivePCs, Jobs
  <2>2. JobIsRunning' /\ RederivesStoredEvents'
    BY <1>13
      DEF IInv, TypeOK, JobIsRunning, RederivesStoredEvents, FailError,
          Idle, Goto, NoJob, Fault, dbVars, fsVars, binVars, AnalysePCs,
          RederivePCs
  <2>3. JobCarriesItsResults'
    BY <1>13
      DEF IInv, TypeOK, JobCarriesItsResults, ReadingPCs, FailError, Idle, Goto,
          NoJob, Fault, dbVars, fsVars, binVars
  <2>4. DoneIsWhole' /\ BlobBehindPath'
    BY <1>13, RowsUntouched
      DEF FailError, Idle, Goto, NoJob, Fault, dbVars, fsVars, binVars
  <2> QED
    BY <2>1, <2>2, <2>3, <2>4 DEF IInv
<1> QED
  BY <1>1, <1>2, <1>3, <1>4, <1>5, <1>6, <1>7, <1>8, <1>9, <1>10, <1>11,
     <1>12, <1>13 DEF AnalyseStep

(* Every step of a re-derivation keeps IInv.                               *)
LEMMA RederiveStepIInv == ASSUME IInv, RederiveStep PROVE IInv'
<1>1. ASSUME NEW k \in Keys, ClaimNextRederive(k) PROVE IInv'
  <2>0. /\ rows[k] \in Row /\ rows[k].status = "done"
        /\ rows[k].det \in Nat /\ rows[k].det < detector
        /\ rows[k].hl \in Highlights /\ rows[k].hl.det \in Nat
        /\ rows[k].hl.det < detector
        /\ detector \in Nat
        /\ [rows[k] EXCEPT !.det = detector] \in Row
    BY <1>1, StaleRow DEF ClaimNextRederive, Oldest
  <2>1. TypeOK'
    BY <1>1, <2>0
      DEF IInv, TypeOK, ClaimNextRederive, MarkCurrent, Goto, NoJob,
          fsVars, binVars, cntVars, Jobs, PCs, AnalysePCs, RederivePCs
  <2>2. JobIsRunning'
    BY <1>1, <2>0
      DEF IInv, TypeOK, JobIsRunning, ClaimNextRederive, MarkCurrent,
          Goto, NoJob, fsVars, binVars, cntVars, AnalysePCs,
          RederivePCs, Row
  <2>3. DoneIsWhole'
    BY <1>1, <2>0
      DEF IInv, TypeOK, DoneIsWhole, ClaimNextRederive, MarkCurrent,
          Goto, NoJob, fsVars, binVars, cntVars, AnalysePCs,
          RederivePCs, Row
  <2>4. RederivesStoredEvents'
    BY <1>1, <2>0
      DEF IInv, TypeOK, RederivesStoredEvents, ClaimNextRederive,
          MarkCurrent, Goto, NoJob, fsVars, binVars, cntVars,
          AnalysePCs, RederivePCs, Row
  <2>5. JobCarriesItsResults'
    BY <1>1, <2>0
      DEF IInv, TypeOK, JobCarriesItsResults, ReadingPCs, ClaimNextRederive,
          MarkCurrent, Goto, NoJob, fsVars, binVars, cntVars,
          AnalysePCs, RederivePCs, Row
  <2>6. BlobBehindPath'
    BY <1>1, <2>0
      DEF IInv, TypeOK, BlobBehindPath, ClaimNextRederive, MarkCurrent,
          Goto, NoJob, fsVars, binVars, cntVars, AnalysePCs,
          RederivePCs, Row
  <2> QED
    BY <2>1, <2>2, <2>3, <2>4, <2>5, <2>6 DEF IInv
<1>2. ASSUME ClaimNextRederiveNothing PROVE IInv'
  <2>1. TypeOK'
    BY <1>2, BoundsAssumption
      DEF IInv, TypeOK, ClaimNextRederiveNothing, Goto, dbVars, fsVars,
          binVars, cntVars, PCs, AnalysePCs, RederivePCs, Jobs
  <2>2. JobIsRunning' /\ RederivesStoredEvents'
    BY <1>2
      DEF IInv, TypeOK, JobIsRunning, RederivesStoredEvents,
          ClaimNextRederiveNothing, Goto, dbVars, fsVars, binVars,
          cntVars, AnalysePCs, RederivePCs
  <2>3. JobCarriesItsResults'
    BY <1>2
      DEF IInv, TypeOK, JobCarriesItsResults, ReadingPCs, ClaimNextRederiveNothing,
          Goto, dbVars, fsVars, binVars, cntVars
  <2>4. DoneIsWhole' /\ BlobBehindPath'
    BY <1>2, RowsUntouched
      DEF ClaimNextRederiveNothing, Goto, dbVars, fsVars, binVars,
          cntVars
  <2> QED
    BY <2>1, <2>2, <2>3, <2>4 DEF IInv
<1>3. ASSUME ClaimNextRederiveError PROVE IInv'
  <2>1. ASSUME UNCHANGED rows PROVE IInv'
    <3>1. TypeOK'
      BY <1>3, <2>1, BoundsAssumption
        DEF IInv, TypeOK, ClaimNextRederiveError, Idle, Goto, NoJob,
            Fault, fsVars, binVars, PCs, AnalysePCs, RederivePCs, Jobs
    <3>2. JobIsRunning' /\ RederivesStoredEvents'
      BY <1>3, <2>1
        DEF IInv, TypeOK, JobIsRunning, RederivesStoredEvents,
            ClaimNextRederiveError, Idle, Goto, NoJob, Fault, fsVars,
            binVars, AnalysePCs, RederivePCs
    <3>3. JobCarriesItsResults'
      BY <1>3, <2>1
        DEF IInv, TypeOK, JobCarriesItsResults, ReadingPCs, ClaimNextRederiveError,
            Idle, Goto, NoJob, Fault, fsVars, binVars
    <3>4. DoneIsWhole' /\ BlobBehindPath'
      BY <1>3, <2>1, RowsUntouched
        DEF ClaimNextRederiveError, Idle, Goto, NoJob, Fault, fsVars,
            binVars
    <3> QED
      BY <3>1, <3>2, <3>3, <3>4 DEF IInv
  <2>2. ASSUME NEW k \in Keys, Oldest(Stale, k), MarkCurrent(k) PROVE IInv'
    <3>0. /\ rows[k] \in Row /\ rows[k].status = "done"
          /\ rows[k].det \in Nat /\ rows[k].det < detector
          /\ rows[k].hl \in Highlights /\ rows[k].hl.det \in Nat
          /\ rows[k].hl.det < detector
          /\ detector \in Nat
          /\ [rows[k] EXCEPT !.det = detector] \in Row
      BY <2>2, StaleRow DEF Oldest
    <3>1. TypeOK'
      BY <1>3, <2>2, <3>0, BoundsAssumption
        DEF IInv, TypeOK, ClaimNextRederiveError, Idle, Goto, NoJob,
            Fault, fsVars, binVars, MarkCurrent, Jobs, PCs, AnalysePCs,
            RederivePCs
    <3>2. JobIsRunning'
      BY <1>3, <2>2, <3>0
        DEF IInv, TypeOK, JobIsRunning, ClaimNextRederiveError, Idle,
            Goto, NoJob, Fault, fsVars, binVars, MarkCurrent, AnalysePCs,
            RederivePCs, Row
    <3>3. DoneIsWhole'
      BY <1>3, <2>2, <3>0
        DEF IInv, TypeOK, DoneIsWhole, ClaimNextRederiveError, Idle, Goto,
            NoJob, Fault, fsVars, binVars, MarkCurrent, AnalysePCs,
            RederivePCs, Row
    <3>4. RederivesStoredEvents'
      BY <1>3, <2>2, <3>0
        DEF IInv, TypeOK, RederivesStoredEvents, ClaimNextRederiveError,
            Idle, Goto, NoJob, Fault, fsVars, binVars, MarkCurrent,
            AnalysePCs, RederivePCs, Row
    <3>5. JobCarriesItsResults'
      BY <1>3, <2>2, <3>0
        DEF IInv, TypeOK, JobCarriesItsResults, ReadingPCs, ClaimNextRederiveError,
            Idle, Goto, NoJob, Fault, fsVars, binVars, MarkCurrent,
            AnalysePCs, RederivePCs, Row
    <3>6. BlobBehindPath'
      BY <1>3, <2>2, <3>0
        DEF IInv, TypeOK, BlobBehindPath, ClaimNextRederiveError, Idle,
            Goto, NoJob, Fault, fsVars, binVars, MarkCurrent, AnalysePCs,
            RederivePCs, Row
    <3> QED
      BY <3>1, <3>2, <3>3, <3>4, <3>5, <3>6 DEF IInv
  <2> QED
    BY <1>3, <2>1, <2>2 DEF ClaimNextRederiveError
<1>4. ASSUME LoadEvents PROVE IInv'
  <2>0. rows[job.key].events \in Parses \cup {None}
    BY <1>4 DEF IInv, TypeOK, Row, RederivesStoredEvents, LoadEvents,
      RederivePCs
  <2>1. TypeOK'
    BY <1>4, <2>0
      DEF IInv, TypeOK, LoadEvents, Goto, dbVars, fsVars, binVars,
          cntVars, PCs, AnalysePCs, RederivePCs, Jobs
  <2>2. JobIsRunning' /\ RederivesStoredEvents'
    BY <1>4
      DEF IInv, TypeOK, JobIsRunning, RederivesStoredEvents, LoadEvents,
          Goto, dbVars, fsVars, binVars, cntVars, AnalysePCs,
          RederivePCs
  <2>3. JobCarriesItsResults'
    BY <1>4
      DEF IInv, TypeOK, JobCarriesItsResults, ReadingPCs, LoadEvents, Goto, dbVars,
          fsVars, binVars, cntVars
  <2>4. DoneIsWhole' /\ BlobBehindPath'
    BY <1>4, RowsUntouched
      DEF LoadEvents, Goto, dbVars, fsVars, binVars, cntVars
  <2> QED
    BY <2>1, <2>2, <2>3, <2>4 DEF IInv
<1>5. ASSUME LoadEventsError PROVE IInv'
  <2>1. TypeOK'
    BY <1>5, BoundsAssumption
      DEF IInv, TypeOK, LoadEventsError, Idle, Goto, NoJob, Fault,
          dbVars, fsVars, binVars, PCs, AnalysePCs, RederivePCs, Jobs
  <2>2. JobIsRunning' /\ RederivesStoredEvents'
    BY <1>5
      DEF IInv, TypeOK, JobIsRunning, RederivesStoredEvents,
          LoadEventsError, Idle, Goto, NoJob, Fault, dbVars, fsVars,
          binVars, AnalysePCs, RederivePCs
  <2>3. JobCarriesItsResults'
    BY <1>5
      DEF IInv, TypeOK, JobCarriesItsResults, ReadingPCs, LoadEventsError, Idle,
          Goto, NoJob, Fault, dbVars, fsVars, binVars
  <2>4. DoneIsWhole' /\ BlobBehindPath'
    BY <1>5, RowsUntouched
      DEF LoadEventsError, Idle, Goto, NoJob, Fault, dbVars, fsVars,
          binVars
  <2> QED
    BY <2>1, <2>2, <2>3, <2>4 DEF IInv
<1>6. ASSUME SaveHighlights PROVE IInv'
  <2>0. /\ job.key \in Keys /\ rows[job.key] \in Row
        /\ rows[job.key].status = "done" /\ rows[job.key].det = detector
        /\ job.events = rows[job.key].events /\ job.events \in Parses
        /\ detector \in Nat /\ Detect(job.events) \in Highlights
        /\ [rows[job.key] EXCEPT !.hl = Detect(job.events)] \in Row
    <3>1. /\ job.key \in Keys /\ rows[job.key] \in Row
          /\ rows[job.key].status = "done" /\ rows[job.key].det = detector
          /\ job.events = rows[job.key].events /\ job.events \in Parses
      BY <1>6 DEF IInv, TypeOK, DoneIsWhole, RederivesStoredEvents,
        SaveHighlights, RederivePCs
    <3>2. detector \in Nat /\ Detect(job.events) \in Highlights
      BY <3>1, BoundsAssumption
        DEF IInv, TypeOK, Detect, Highlights, DetectorVersions
    <3> QED
      BY <3>1, <3>2, RefreshedRow
  <2>1. TypeOK'
    BY <1>6, <2>0
      DEF IInv, TypeOK, SaveHighlights, Idle, Goto, NoJob, fsVars,
          binVars, cntVars, Detect, Jobs, PCs, AnalysePCs, RederivePCs
  <2>2. JobIsRunning'
    BY <1>6, <2>0
      DEF IInv, TypeOK, JobIsRunning, SaveHighlights, Idle, Goto, NoJob,
          fsVars, binVars, cntVars, Detect, AnalysePCs, RederivePCs, Row
  <2>3. DoneIsWhole'
    BY <1>6, <2>0
      DEF IInv, TypeOK, DoneIsWhole, SaveHighlights, Idle, Goto, NoJob,
          fsVars, binVars, cntVars, Detect, AnalysePCs, RederivePCs, Row
  <2>4. RederivesStoredEvents'
    BY <1>6, <2>0
      DEF IInv, TypeOK, RederivesStoredEvents, SaveHighlights, Idle,
          Goto, NoJob, fsVars, binVars, cntVars, Detect, AnalysePCs,
          RederivePCs, Row
  <2>5. JobCarriesItsResults'
    BY <1>6, <2>0
      DEF IInv, TypeOK, JobCarriesItsResults, ReadingPCs, SaveHighlights, Idle,
          Goto, NoJob, fsVars, binVars, cntVars, Detect, AnalysePCs,
          RederivePCs, Row
  <2>6. BlobBehindPath'
    BY <1>6, <2>0
      DEF IInv, TypeOK, BlobBehindPath, SaveHighlights, Idle, Goto,
          NoJob, fsVars, binVars, cntVars, Detect, AnalysePCs,
          RederivePCs, Row
  <2> QED
    BY <2>1, <2>2, <2>3, <2>4, <2>5, <2>6 DEF IInv
<1>7. ASSUME SaveHighlightsError PROVE IInv'
  <2>1. TypeOK'
    BY <1>7, BoundsAssumption
      DEF IInv, TypeOK, SaveHighlightsError, Idle, Goto, NoJob, Fault,
          dbVars, fsVars, binVars, PCs, AnalysePCs, RederivePCs, Jobs
  <2>2. JobIsRunning' /\ RederivesStoredEvents'
    BY <1>7
      DEF IInv, TypeOK, JobIsRunning, RederivesStoredEvents,
          SaveHighlightsError, Idle, Goto, NoJob, Fault, dbVars, fsVars,
          binVars, AnalysePCs, RederivePCs
  <2>3. JobCarriesItsResults'
    BY <1>7
      DEF IInv, TypeOK, JobCarriesItsResults, ReadingPCs, SaveHighlightsError, Idle,
          Goto, NoJob, Fault, dbVars, fsVars, binVars
  <2>4. DoneIsWhole' /\ BlobBehindPath'
    BY <1>7, RowsUntouched
      DEF SaveHighlightsError, Idle, Goto, NoJob, Fault, dbVars, fsVars,
          binVars
  <2> QED
    BY <2>1, <2>2, <2>3, <2>4 DEF IInv
<1> QED
  BY <1>1, <1>2, <1>3, <1>4, <1>5, <1>6, <1>7 DEF RederiveStep

(* Starting, upgrading and requeueing keep IInv.                           *)
LEMMA BootStepIInv == ASSUME IInv, BootStep PROVE IInv'
<1>1. ASSUME Restart PROVE IInv'
  <2>1. TypeOK'
    BY <1>1, BoundsAssumption
      DEF IInv, TypeOK, Restart, Goto, dbVars, fsVars, binVars, cntVars,
          PCs, AnalysePCs, RederivePCs, Jobs
  <2>2. JobIsRunning' /\ RederivesStoredEvents'
    BY <1>1
      DEF IInv, TypeOK, JobIsRunning, RederivesStoredEvents, Restart,
          Goto, dbVars, fsVars, binVars, cntVars, AnalysePCs,
          RederivePCs
  <2>3. JobCarriesItsResults'
    BY <1>1
      DEF IInv, TypeOK, JobCarriesItsResults, ReadingPCs, Restart, Goto, dbVars,
          fsVars, binVars, cntVars
  <2>4. DoneIsWhole' /\ BlobBehindPath'
    BY <1>1, RowsUntouched
      DEF Restart, Goto, dbVars, fsVars, binVars, cntVars
  <2> QED
    BY <2>1, <2>2, <2>3, <2>4 DEF IInv
<1>2. ASSUME Deploy PROVE IInv'
  <2>0. /\ parser' \in ParserVersions /\ detector' \in DetectorVersions
        /\ detector \in Nat /\ detector <= detector'
    BY <1>2, BoundsAssumption
      DEF IInv, TypeOK, Deploy, ParserVersions, DetectorVersions
  <2>1. TypeOK'
    BY <1>2, <2>0
      DEF IInv, TypeOK, Deploy, Goto, dbVars, cntVars, PCs, AnalysePCs,
          RederivePCs, Jobs
  <2>2. JobIsRunning' /\ RederivesStoredEvents'
    BY <1>2
      DEF IInv, TypeOK, JobIsRunning, RederivesStoredEvents, Deploy,
          Goto, dbVars, cntVars, AnalysePCs, RederivePCs
  <2>3. JobCarriesItsResults'
    BY <1>2
      DEF IInv, TypeOK, JobCarriesItsResults, ReadingPCs, Deploy, Goto, dbVars,
          cntVars
  <2>4. \A k \in Keys : rows[k].det \in Nat
    BY BoundsAssumption DEF IInv, TypeOK, Row
  <2>5. DoneIsWhole' /\ BlobBehindPath'
    BY <1>2, <2>0, <2>4
      DEF IInv, DoneIsWhole, BlobBehindPath, Deploy, dbVars
  <2> QED
    BY <2>1, <2>2, <2>3, <2>5 DEF IInv
<1>3. ASSUME RequeueOrphaned PROVE IInv'
  <2>0. /\ rows' \in [Keys -> Row]
        /\ \A k \in Keys : \/ rows'[k] = rows[k]
                            \/ /\ rows[k].status = "running"
                               /\ rows'[k] = [rows[k] EXCEPT !.status = "pending"]
    BY <1>3, StatusRow DEF IInv, TypeOK, RequeueOrphaned, Orphaned, Statuses
  <2>1. TypeOK'
    BY <1>3, <2>0
      DEF IInv, TypeOK, RequeueOrphaned, Goto, fsVars, binVars, cntVars,
          Orphaned, Jobs, PCs, AnalysePCs, RederivePCs
  <2>2. JobIsRunning'
    BY <1>3, <2>0
      DEF IInv, TypeOK, JobIsRunning, RequeueOrphaned, Goto, fsVars,
          binVars, cntVars, Orphaned, AnalysePCs, RederivePCs, Row
  <2>3. DoneIsWhole'
    BY <1>3, <2>0
      DEF IInv, TypeOK, DoneIsWhole, RequeueOrphaned, Goto, fsVars,
          binVars, cntVars, Orphaned, AnalysePCs, RederivePCs, Row
  <2>4. RederivesStoredEvents'
    BY <1>3, <2>0
      DEF IInv, TypeOK, RederivesStoredEvents, RequeueOrphaned, Goto,
          fsVars, binVars, cntVars, Orphaned, AnalysePCs, RederivePCs,
          Row
  <2>5. JobCarriesItsResults'
    BY <1>3, <2>0
      DEF IInv, TypeOK, JobCarriesItsResults, ReadingPCs, RequeueOrphaned, Goto,
          fsVars, binVars, cntVars, Orphaned, AnalysePCs, RederivePCs,
          Row
  <2>6. BlobBehindPath'
    BY <1>3, <2>0
      DEF IInv, TypeOK, BlobBehindPath, RequeueOrphaned, Goto, fsVars,
          binVars, cntVars, Orphaned, AnalysePCs, RederivePCs, Row
  <2> QED
    BY <2>1, <2>2, <2>3, <2>4, <2>5, <2>6 DEF IInv
<1>4. ASSUME RequeueOrphanedError PROVE IInv'
  <2>1. TypeOK'
    BY <1>4, BoundsAssumption
      DEF IInv, TypeOK, RequeueOrphanedError, Goto, Fault, dbVars,
          fsVars, binVars, PCs, AnalysePCs, RederivePCs, Jobs
  <2>2. JobIsRunning' /\ RederivesStoredEvents'
    BY <1>4
      DEF IInv, TypeOK, JobIsRunning, RederivesStoredEvents,
          RequeueOrphanedError, Goto, Fault, dbVars, fsVars, binVars,
          AnalysePCs, RederivePCs
  <2>3. JobCarriesItsResults'
    BY <1>4
      DEF IInv, TypeOK, JobCarriesItsResults, ReadingPCs, RequeueOrphanedError,
          Goto, Fault, dbVars, fsVars, binVars
  <2>4. DoneIsWhole' /\ BlobBehindPath'
    BY <1>4, RowsUntouched
      DEF RequeueOrphanedError, Goto, Fault, dbVars, fsVars, binVars
  <2> QED
    BY <2>1, <2>2, <2>3, <2>4 DEF IInv
<1> QED
  BY <1>1, <1>2, <1>3, <1>4 DEF BootStep

(* Dying keeps IInv: only the local variables of the worker are lost.      *)
LEMMA CrashIInv == ASSUME IInv, Crash PROVE IInv'
<1>1. TypeOK'
  BY BoundsAssumption
    DEF IInv, TypeOK, Crash, Idle, Goto, NoJob, dbVars, fsVars,
        binVars, PCs, AnalysePCs, RederivePCs, Jobs
<1>2. JobIsRunning' /\ RederivesStoredEvents'
  BY DEF IInv, TypeOK, JobIsRunning, RederivesStoredEvents, Crash,
        Idle, Goto, NoJob, dbVars, fsVars, binVars, AnalysePCs,
        RederivePCs
<1>3. JobCarriesItsResults'
  BY DEF IInv, TypeOK, JobCarriesItsResults, ReadingPCs, Crash, Idle, Goto, NoJob,
        dbVars, fsVars, binVars
<1>4. DoneIsWhole' /\ BlobBehindPath'
  BY RowsUntouched
    DEF Crash, Idle, Goto, NoJob, dbVars, fsVars, binVars
<1> QED
  BY <1>1, <1>2, <1>3, <1>4 DEF IInv

(* A retry keeps IInv: it only meets failed rows, never the one in hand.   *)
LEMMA EnqueueRetryIInv ==
  ASSUME IInv, NEW c \in Codes, NEW u \in Urls, EnqueueRetry(c, u)
  PROVE  IInv'
<1> DEFINE k == <<c, parser>>
<1>0. /\ k \in Keys /\ rows[k] \in Row /\ rows[k].status = "failed"
      /\ [rows[k] EXCEPT !.status = "pending", !.url = u] \in Row
  <2>1. k \in Keys /\ rows[k] \in Row /\ rows[k].status = "failed"
    BY DEF IInv, TypeOK, Keys, EnqueueRetry, Retryable
  <2> QED
    BY <2>1, RetriedRow
<1>1. TypeOK'
  BY <1>0, BoundsAssumption
      DEF IInv, TypeOK, EnqueueRetry, Serving, fsVars, binVars
<1>2. JobIsRunning'
  BY <1>0
      DEF IInv, TypeOK, JobIsRunning, EnqueueRetry, Serving, fsVars,
          binVars, AnalysePCs, RederivePCs, Row
<1>3. DoneIsWhole'
  BY <1>0
      DEF IInv, TypeOK, DoneIsWhole, EnqueueRetry, Serving, fsVars,
          binVars, AnalysePCs, RederivePCs, Row
<1>4. RederivesStoredEvents'
  BY <1>0
      DEF IInv, TypeOK, RederivesStoredEvents, EnqueueRetry, Serving,
          fsVars, binVars, AnalysePCs, RederivePCs, Row
<1>5. JobCarriesItsResults'
  BY <1>0
      DEF IInv, TypeOK, JobCarriesItsResults, ReadingPCs, EnqueueRetry, Serving,
          fsVars, binVars, AnalysePCs, RederivePCs, Row
<1>6. BlobBehindPath'
  BY <1>0
      DEF IInv, TypeOK, BlobBehindPath, EnqueueRetry, Serving, fsVars,
          binVars, AnalysePCs, RederivePCs, Row
<1> QED
  BY <1>1, <1>2, <1>3, <1>4, <1>5, <1>6 DEF IInv

(* Every step keeps versions apart from the rows that are older than them.   *)
LEMMA NextVersionsGrow ==
  ASSUME IInv, VersionsGrow, [Next]_vars PROVE VersionsGrow'
<1>1. CASE Enqueue
  <2>1. PICK c \in Codes, u \in Urls : EnqueueNew(c, u) \/ EnqueueRetry(c, u)
    BY <1>1 DEF Enqueue
  <2>2. <<c, parser>> \in Keys /\ parser \in Nat
    BY BoundsAssumption DEF IInv, TypeOK, Keys, ParserVersions
  <2>3. /\ parser' = parser /\ pc' = pc /\ job' = job
        /\ \A k \in Keys : rows'[k].status # "none" =>
                            rows[k].status # "none" \/ k = <<c, parser>>
    BY <2>1, <2>2 DEF IInv, TypeOK, EnqueueNew, EnqueueRetry, binVars
  <2> QED
    BY <2>2, <2>3 DEF VersionsGrow
<1>2. CASE ClaimStep
  <2>1. /\ parser' = parser /\ pc' \notin {"avatars", "retain", "complete"}
        /\ \A k \in Keys : rows'[k].status # "none" => rows[k].status # "none"
    BY <1>2 DEF IInv, TypeOK, Row, ClaimStep, ClaimNext, ClaimNextNothing,
      ClaimNextError, Wake, Oldest, Pending, MarkRunning, Idle, Goto,
      binVars, dbVars
  <2> QED
    BY <2>1 DEF VersionsGrow
<1>3. CASE AnalyseStep
  <2>1. /\ parser' = parser
        /\ \A k \in Keys : rows'[k].status # "none" => rows[k].status # "none"
    <3>1. CASE Complete \/ Fail
      BY <3>1 DEF IInv, TypeOK, Row, JobIsRunning, AnalysePCs, Complete,
        Completed, Fail, binVars
    <3>2. CASE ~(Complete \/ Fail)
      BY <1>3, <3>2 DEF AnalyseStep, DownloadRefused, DownloadStarts,
        DownloadAborts, DownloadDone, ParseFails, ParseDone, AddAvatars,
        RetainDemo, RetainNothing, CompleteError, FailError, dbVars, binVars
    <3> QED
      BY <3>1, <3>2
  <2>2. pc' \in {"avatars", "retain", "complete"} => job'.key[2] <= job'.events.parser
    <3>1. CASE ParseDone
      <4>1. /\ job.key \in Keys /\ rows[job.key].status # "none"
            /\ job'.key = job.key /\ job'.events.parser = parser
        BY <3>1 DEF IInv, TypeOK, Jobs, JobIsRunning, AnalysePCs, ParseDone
      <4> QED
        BY <4>1 DEF VersionsGrow
    <3>2. CASE AddAvatars \/ RetainNothing \/ \E named \in BOOLEAN : RetainDemo(named)
      BY <3>2 DEF IInv, TypeOK, Jobs, VersionsGrow, AddAvatars, RetainNothing,
        RetainDemo, Goto
    <3>3. CASE pc' \notin {"avatars", "retain", "complete"}
      BY <3>3
    <3> QED
      BY <1>3, <3>1, <3>2, <3>3 DEF AnalyseStep, DownloadRefused,
        DownloadStarts, DownloadAborts, DownloadDone, ParseFails, Complete,
        CompleteError, Fail, FailError, Idle, Goto
  <2> QED
    BY <2>1, <2>2 DEF VersionsGrow
<1>4. CASE RederiveStep
  <2>1. /\ parser' = parser /\ pc' \notin {"avatars", "retain", "complete"}
        /\ \A k \in Keys : rows'[k].status # "none" => rows[k].status # "none"
    BY <1>4 DEF IInv, TypeOK, Row, RederiveStep, ClaimNextRederive,
      ClaimNextRederiveNothing, ClaimNextRederiveError, MarkCurrent,
      LoadEvents, LoadEventsError, SaveHighlights, SaveHighlightsError, Idle,
      Goto, binVars, dbVars
  <2> QED
    BY <2>1 DEF VersionsGrow
<1>5. CASE BootStep \/ Crash
  <2>1. /\ parser \in Nat /\ parser' \in Nat /\ parser <= parser'
        /\ pc' \notin {"avatars", "retain", "complete"}
        /\ \A k \in Keys : rows'[k].status # "none" => rows[k].status # "none"
    BY <1>5, BoundsAssumption DEF IInv, TypeOK, Row, ParserVersions, BootStep,
      Restart, Deploy, RequeueOrphaned, Orphaned, RequeueOrphanedError, Crash,
      Idle, Goto, binVars, dbVars
  <2>2. \A k \in Keys : k[2] \in Nat
    BY BoundsAssumption DEF Keys, ParserVersions
  <2> QED
    BY <2>1, <2>2 DEF VersionsGrow
<1>6. CASE UNCHANGED vars
  BY <1>6 DEF VersionsGrow, vars
<1> QED
  BY <1>1, <1>2, <1>3, <1>4, <1>5, <1>6 DEF Next, WorkerStep

(* Every step of the specification, stuttering included, keeps IInv.        *)
LEMMA NextIInv == ASSUME IInv, VersionsGrow, [Next]_vars PROVE IInv'
<1>1. CASE Enqueue
  BY <1>1, EnqueueNewIInv, EnqueueRetryIInv DEF Enqueue
<1>2. CASE WorkerStep
  BY <1>2, ClaimStepIInv, AnalyseStepIInv, RederiveStepIInv DEF WorkerStep
<1>3. CASE BootStep
  BY <1>3, BootStepIInv
<1>4. CASE Crash
  BY <1>4, CrashIInv
<1>5. CASE UNCHANGED vars
  BY <1>5
    DEF IInv, TypeOK, JobIsRunning, DoneIsWhole, RederivesStoredEvents,
        JobCarriesItsResults, BlobBehindPath, vars
<1> QED
  BY <1>1, <1>2, <1>3, <1>4, <1>5 DEF Next

(* The invariant holds in every reachable state, whatever the number of     *)
(* matches, versions, faults, crashes and retries.                          *)
THEOREM Invariance == Spec => []IInv
<1>1. Init => VersionsGrow
  BY DEF Init, VersionsGrow, AbsentRow
<1> QED
  BY <1>1, InitIInv, NextIInv, NextVersionsGrow, PTL DEF Spec

(* The state of the process and of the table is always well formed.         *)
THEOREM TypeCorrect == Spec => []TypeOK
<1>1. IInv => TypeOK
  BY DEF IInv
<1> QED
  BY <1>1, Invariance, PTL

(* Complete and Fail only ever hit a row that is running for their job.     *)
THEOREM JobRowIsRunning == Spec => []JobIsRunning
<1>1. IInv => JobIsRunning
  BY DEF IInv
<1> QED
  BY <1>1, Invariance, PTL

(* Results are shown exactly by done rows, and belong together.             *)
THEOREM ResultsAreWhole == Spec => []DoneIsWhole
<1>1. IInv => DoneIsWhole
  BY DEF IInv
<1> QED
  BY <1>1, Invariance, PTL

(* No row names a blob that is not in the container.                        *)
THEOREM PathsHaveBlobs == Spec => []BlobBehindPath
<1>1. IInv => BlobBehindPath
  BY DEF IInv
<1> QED
  BY <1>1, Invariance, PTL

(* A rederive works on the events that are stored, of a row already marked. *)
THEOREM RederivesStored == Spec => []RederivesStoredEvents
<1>1. IInv => RederivesStoredEvents
  BY DEF IInv
<1> QED
  BY <1>1, Invariance, PTL

(* What the worker carries is what its next store call needs.               *)
THEOREM JobIsEquipped == Spec => []JobCarriesItsResults
<1>1. IInv => JobCarriesItsResults
  BY DEF IInv
<1> QED
  BY <1>1, Invariance, PTL

(* The temporary files are at most one per crash and the one being read.    *)
LEMMA NextTempFiles ==
  ASSUME IInv, TempFilesBounded, [Next]_vars PROVE TempFilesBounded'
<1>0. tmp \in Nat /\ crashes \in Nat
  BY BoundsAssumption DEF IInv, TypeOK
<1>1. CASE Enqueue
  BY <1>0, <1>1 DEF TempFilesBounded, Enqueue, EnqueueNew, EnqueueRetry, fsVars, cntVars
<1>2. CASE ClaimStep \/ RederiveStep
  BY <1>0, <1>2 DEF TempFilesBounded, ReadingPCs, ClaimStep, ClaimNext,
    ClaimNextNothing, ClaimNextError, Wake, RederiveStep, ClaimNextRederive,
    ClaimNextRederiveNothing, ClaimNextRederiveError, LoadEvents,
    LoadEventsError, SaveHighlights, SaveHighlightsError, Idle, Goto, fsVars,
    cntVars
<1>3. CASE AnalyseStep
  BY <1>0, <1>3 DEF TempFilesBounded, ReadingPCs, AnalyseStep,
    DownloadRefused, DownloadStarts, DownloadAborts, DownloadDone, ParseFails,
    ParseDone, AddAvatars, RetainDemo, RetainNothing, Complete, CompleteError,
    Fail, FailError, Idle, Goto, fsVars, cntVars
<1>4. CASE BootStep \/ Crash \/ UNCHANGED vars
  BY <1>0, <1>4 DEF TempFilesBounded, ReadingPCs, BootStep, Restart, Deploy,
    RequeueOrphaned, RequeueOrphanedError, Crash, Idle, Goto, fsVars, cntVars,
    vars
<1> QED
  BY <1>1, <1>2, <1>3, <1>4 DEF Next, WorkerStep

(* However often the process dies in the middle of a demo, it leaves at most *)
(* one file behind each time.                                               *)
THEOREM FilesAreBounded == Spec => []TempFilesBounded
<1>1. Init => TempFilesBounded
  BY DEF Init, TempFilesBounded, ReadingPCs
<1> QED
  BY <1>1, NextTempFiles, Invariance, PTL DEF Spec

(* The rows nobody holds, counted.                                          *)
StrandedCount == /\ IsFiniteSet(Stranded)
                 /\ StrandedByFaults

(* A step that strands no further row, or one with a fault to blame, or one  *)
(* while the process goes down, keeps the count.                            *)
LEMMA StrandedFewer ==
  ASSUME NEW S, NEW T, IsFiniteSet(S), T \subseteq S
  PROVE  /\ IsFiniteSet(T) /\ Cardinality(T) <= Cardinality(S)
         /\ Cardinality(T) \in Nat /\ Cardinality(S) \in Nat
  BY FS_Subset, FS_CardinalityType

LEMMA StrandedOneMore ==
  ASSUME NEW S, NEW T, NEW x, IsFiniteSet(S), T \subseteq S \cup {x}
  PROVE  /\ IsFiniteSet(T) /\ Cardinality(T) <= Cardinality(S) + 1
         /\ Cardinality(T) \in Nat /\ Cardinality(S) \in Nat
<1>1. IsFiniteSet(S \cup {x}) /\ Cardinality(S) \in Nat
  BY FS_AddElement, FS_CardinalityType
<1>2. Cardinality(S \cup {x}) <= Cardinality(S) + 1
  <2>1. Cardinality(S \cup {x}) \in {Cardinality(S), Cardinality(S) + 1}
    BY FS_AddElement
  <2> QED
    BY <1>1, <2>1
<1>3. /\ IsFiniteSet(T) /\ Cardinality(T) <= Cardinality(S \cup {x})
      /\ Cardinality(T) \in Nat /\ Cardinality(S \cup {x}) \in Nat
  BY <1>1, StrandedFewer
<1> QED
  BY <1>1, <1>2, <1>3

(* Only a failing store call and a crash strand a row.                      *)
LEMMA NextStranded ==
  ASSUME IInv, StrandedCount, [Next]_vars PROVE StrandedCount'
<1>0. faults \in Nat
  BY BoundsAssumption DEF IInv, TypeOK
<1>1. ASSUME Stranded' \subseteq Stranded, faults' \in {faults, faults + 1},
             Serving' = Serving
      PROVE  StrandedCount'
  BY <1>0, <1>1, StrandedFewer DEF StrandedCount, StrandedByFaults
<1>2. ASSUME NEW k, Stranded' \subseteq Stranded \cup {k},
             faults' = faults + 1, Serving' = Serving
      PROVE  StrandedCount'
  <2>1. PICK S, T : S = Stranded /\ T = Stranded'
    OBVIOUS
  <2>2. /\ IsFiniteSet(T) /\ Cardinality(T) <= Cardinality(S) + 1
        /\ Cardinality(T) \in Nat /\ Cardinality(S) \in Nat
    BY <1>2, <2>1, StrandedOneMore DEF StrandedCount
  <2> QED
    BY <1>0, <1>2, <2>1, <2>2 DEF StrandedCount, StrandedByFaults
<1>3. CASE Enqueue
  <2>1. \A k \in Keys : rows'[k].status = "running" => rows[k].status = "running"
    BY <1>3 DEF IInv, TypeOK, Row, Enqueue, EnqueueNew, EnqueueRetry
  <2>2. pc' = pc /\ job' = job
    BY <1>3 DEF Enqueue, EnqueueNew, EnqueueRetry
  <2>3. Stranded' \subseteq Stranded
    BY <2>1, <2>2 DEF Stranded
  <2> QED
    BY <1>1, <1>3, <2>3 DEF Enqueue, EnqueueNew, EnqueueRetry, Serving, cntVars
<1>4. CASE ClaimStep
  <2>1. ASSUME NEW k \in Keys, ClaimNext(k) PROVE StrandedCount'
    <3>1. Stranded' \subseteq Stranded
      BY <2>1 DEF IInv, TypeOK, Row, Stranded, ClaimNext, MarkRunning, NoJob,
        Goto, AnalysePCs
    <3> QED
      BY <1>1, <2>1, <3>1 DEF ClaimNext, Goto, Serving, cntVars
  <2>2. CASE ClaimNextNothing \/ Wake
    BY <1>1, <2>2 DEF Stranded, ClaimNextNothing, Wake, Goto, Serving, AnalysePCs,
      dbVars, cntVars
  <2>3. CASE ClaimNextError
    <3>1. CASE UNCHANGED rows
      BY <1>1, <2>3, <3>1 DEF Stranded, ClaimNextError, Fault, Idle, Goto, Serving,
        AnalysePCs
    <3>2. CASE \E k \in Keys : Oldest(Pending, k) /\ MarkRunning(k)
      <4>1. PICK k \in Keys : MarkRunning(k)
        BY <3>2
      <4>2. Stranded' \subseteq Stranded \cup {k}
        BY <2>3, <4>1 DEF IInv, TypeOK, Row, Stranded, ClaimNextError,
          MarkRunning, AnalysePCs
      <4> QED
        BY <1>2, <2>3, <4>2 DEF ClaimNextError, Fault, Idle, Goto, Serving
    <3> QED
      BY <2>3, <3>1, <3>2 DEF ClaimNextError
  <2> QED
    BY <1>4, <2>1, <2>2, <2>3 DEF ClaimStep
<1>5. CASE AnalyseStep
  <2>1. CASE Complete \/ Fail
    <3>1. \A k \in Keys : rows'[k].status = "running" =>
                            rows[k].status = "running" /\ k # job.key
      <4>1. /\ job.key \in Keys /\ rows \in [Keys -> Row]
            /\ rows[job.key] \in Row
        BY <2>1 DEF IInv, TypeOK, JobIsRunning, Complete, Fail, AnalysePCs
      <4>2. CASE Complete
        BY <4>1, <4>2 DEF Row, Complete, Completed
      <4>3. CASE Fail
        BY <4>1, <4>3 DEF Row, Fail
      <4> QED
        BY <2>1, <4>2, <4>3
    <3>2. Stranded' \subseteq Stranded
      BY <3>1 DEF Stranded
    <3> QED
      BY <1>1, <2>1, <3>2 DEF Complete, Fail, Idle, Goto, Serving, cntVars
  <2>2. CASE CompleteError \/ FailError
    <3>1. Stranded' \subseteq Stranded \cup {job.key}
      BY <2>2 DEF Stranded, CompleteError, FailError, dbVars
    <3> QED
      BY <1>2, <2>2, <3>1 DEF CompleteError, FailError, Fault, Idle, Goto, Serving
  <2>3. CASE ~(Complete \/ Fail \/ CompleteError \/ FailError)
    <3>1. /\ rows' = rows /\ job'.key = job.key /\ faults' = faults
          /\ pc \in AnalysePCs /\ pc' \in AnalysePCs
      BY <1>5, <2>3 DEF IInv, TypeOK, Jobs, AnalyseStep, DownloadRefused,
        DownloadStarts, DownloadAborts, DownloadDone, ParseFails, ParseDone,
        AddAvatars, RetainDemo, RetainNothing, Goto, AnalysePCs, dbVars, cntVars
    <3>2. Serving /\ Serving'
      BY <3>1 DEF Serving, AnalysePCs
    <3>3. Stranded' \subseteq Stranded
      BY <3>1 DEF Stranded
    <3> QED
      BY <1>1, <3>1, <3>2, <3>3
  <2> QED
    BY <2>1, <2>2, <2>3
<1>6. CASE RederiveStep
  <2>1. /\ \A k \in Keys : rows'[k].status = rows[k].status
        /\ faults' \in {faults, faults + 1}
        /\ pc \notin AnalysePCs /\ pc' \notin AnalysePCs
        /\ Serving' = Serving
    BY <1>6 DEF IInv, TypeOK, Row, RederiveStep, ClaimNextRederive,
      ClaimNextRederiveNothing, ClaimNextRederiveError, MarkCurrent,
      LoadEvents, LoadEventsError, SaveHighlights, SaveHighlightsError, Idle,
      Goto, Fault, Serving, AnalysePCs, dbVars, cntVars
  <2>2. Stranded' \subseteq Stranded
    BY <2>1 DEF Stranded
  <2> QED
    BY <1>1, <2>1, <2>2
<1>7. CASE BootStep
  <2>1. CASE Restart \/ Deploy
    BY <1>1, <2>1 DEF Stranded, Restart, Deploy, Goto, Serving, AnalysePCs, dbVars,
      cntVars
  <2>2. CASE RequeueOrphaned
    <3>1. Stranded' = {} /\ faults' = faults
      BY <2>2 DEF IInv, TypeOK, Row, Stranded, RequeueOrphaned, Orphaned, cntVars
    <3> QED
      BY <1>0, <3>1, FS_EmptySet DEF StrandedCount, StrandedByFaults
  <2>3. CASE RequeueOrphanedError
    <3>1. Stranded' \subseteq Stranded /\ faults' = faults + 1 /\ ~Serving /\ Serving'
      BY <2>3 DEF Stranded, RequeueOrphanedError, Fault, Goto, Serving, AnalysePCs,
        dbVars
    <3> QED
      BY <1>0, <3>1, StrandedFewer DEF StrandedCount, StrandedByFaults
  <2> QED
    BY <1>7, <2>1, <2>2, <2>3 DEF BootStep
<1>8. CASE Crash
  <2>1. faults' = faults /\ ~Serving'
    BY <1>8 DEF Crash, Idle, Goto, Serving, binVars
  <2>2. CASE Serving
    <3>1. Stranded' \subseteq Stranded \cup {job.key}
      BY <1>8 DEF Stranded, Crash, dbVars
    <3>2. PICK S, T, x : S = Stranded /\ T = Stranded' /\ x = job.key
      OBVIOUS
    <3>3. /\ IsFiniteSet(T) /\ Cardinality(T) <= Cardinality(S) + 1
          /\ Cardinality(T) \in Nat /\ Cardinality(S) \in Nat
      BY <3>1, <3>2, StrandedOneMore DEF StrandedCount
    <3> QED
      BY <1>0, <2>1, <2>2, <3>2, <3>3 DEF StrandedCount, StrandedByFaults
  <2>3. CASE ~Serving
    <3>1. Stranded' \subseteq Stranded
      BY <1>8, <2>3 DEF Stranded, Crash, Serving, AnalysePCs, dbVars
    <3> QED
      BY <1>1, <2>1, <2>3, <3>1 DEF Serving
  <2> QED
    BY <2>2, <2>3
<1>9. CASE UNCHANGED vars
  BY <1>1, <1>9 DEF Stranded, Serving, vars
<1> QED
  BY <1>3, <1>4, <1>5, <1>6, <1>7, <1>8, <1>9 DEF Next, WorkerStep

(* A row that runs with nobody working on it has a failed store call to      *)
(* blame, or a crash that the next boot makes good.                         *)
THEOREM StrandedHasReason == Spec => []StrandedByFaults
<1>1. ASSUME Init PROVE StrandedCount
  <2>1. Stranded = {} /\ faults = 0
    BY <1>1 DEF Init, Stranded, AbsentRow
  <2> QED
    BY <2>1, FS_EmptySet DEF StrandedCount, StrandedByFaults
<1>2. StrandedCount => StrandedByFaults
  BY DEF StrandedCount
<1> QED
  BY <1>1, <1>2, NextStranded, Invariance, PTL DEF Spec

(* Status-only updates, and steps that leave the table alone, keep done     *)
(* rows as they are.                                                        *)
LEMMA DoneStaysStep == ASSUME IInv, [Next]_vars PROVE DoneStays
<1>1. CASE Enqueue
  BY <1>1 DEF IInv, TypeOK, Row, Enqueue, EnqueueNew, EnqueueRetry, Retryable, DoneStays
<1>2. CASE ClaimStep
  BY <1>2 DEF IInv, TypeOK, Row, ClaimStep, ClaimNext, ClaimNextNothing,
    ClaimNextError, Wake, Oldest, Pending, MarkRunning, dbVars, DoneStays
<1>3. CASE AnalyseStep
  <2>1. CASE Complete
    BY <1>3, <2>1 DEF IInv, TypeOK, Row, JobIsRunning, AnalysePCs, Complete,
      Completed, DoneStays
  <2>2. CASE Fail
    BY <1>3, <2>2 DEF IInv, TypeOK, Row, JobIsRunning, AnalysePCs, Fail, DoneStays
  <2>3. CASE rows' = rows
    BY <2>3 DEF DoneStays
  <2> QED
    BY <1>3, <2>1, <2>2, <2>3 DEF AnalyseStep, DownloadRefused, DownloadStarts,
      DownloadAborts, DownloadDone, ParseFails, ParseDone, AddAvatars,
      RetainDemo, RetainNothing, CompleteError, FailError, dbVars
<1>4. CASE RederiveStep
  BY <1>4 DEF IInv, TypeOK, Row, RederiveStep, ClaimNextRederive,
    ClaimNextRederiveNothing, ClaimNextRederiveError, MarkCurrent, LoadEvents,
    LoadEventsError, SaveHighlights, SaveHighlightsError, dbVars, DoneStays
<1>5. CASE BootStep \/ Crash \/ UNCHANGED vars
  BY <1>5 DEF IInv, TypeOK, Row, BootStep, Restart, Deploy, RequeueOrphaned,
    Orphaned, RequeueOrphanedError, Crash, vars, dbVars, DoneStays
<1> QED
  BY <1>1, <1>2, <1>3, <1>4, <1>5 DEF Next, WorkerStep

(* A finished analysis is never reopened, moved to another demo or stripped *)
(* of its events or its retained demo.                                      *)
THEOREM DoneForGood == Spec => DoneIsFinal
<1>1. IInv /\ [Next]_vars => [DoneStays]_vars
  BY DoneStaysStep
<1> QED
  BY <1>1, Invariance, PTL DEF Spec, DoneIsFinal

(* No step replaces highlights except by those of a newer detector.        *)
LEMMA HighlightsImproveStep == ASSUME IInv, [Next]_vars PROVE HighlightsImprove
<1>1. CASE Enqueue
  BY <1>1 DEF IInv, TypeOK, Row, Enqueue, EnqueueNew, EnqueueRetry, Retryable,
    HighlightsImprove
<1>2. CASE ClaimStep
  BY <1>2 DEF IInv, TypeOK, Row, ClaimStep, ClaimNext, ClaimNextNothing,
    ClaimNextError, Wake, Oldest, Pending, MarkRunning, dbVars, HighlightsImprove
<1>3. CASE AnalyseStep
  <2>1. CASE Complete
    BY <1>3, <2>1 DEF IInv, TypeOK, Row, JobIsRunning, AnalysePCs, Complete,
      Completed, HighlightsImprove
  <2>2. CASE Fail
    BY <1>3, <2>2 DEF IInv, TypeOK, Row, JobIsRunning, AnalysePCs, Fail,
      HighlightsImprove
  <2>3. CASE rows' = rows
    BY <2>3 DEF HighlightsImprove
  <2> QED
    BY <1>3, <2>1, <2>2, <2>3 DEF AnalyseStep, DownloadRefused, DownloadStarts,
      DownloadAborts, DownloadDone, ParseFails, ParseDone, AddAvatars,
      RetainDemo, RetainNothing, CompleteError, FailError, dbVars
<1>4. CASE RederiveStep
  <2>1. CASE SaveHighlights
    <3>1. /\ job.key \in Keys /\ rows \in [Keys -> Row]
          /\ job.events = rows[job.key].events
          /\ rows[job.key].hl.from = rows[job.key].events
          /\ rows[job.key].hl.det < detector
      BY <2>1 DEF IInv, TypeOK, DoneIsWhole, RederivesStoredEvents,
        RederivePCs, SaveHighlights
    <3>2. rows[job.key].hl.det \in Nat /\ detector \in Nat
      BY <3>1, <2>1, BoundsAssumption DEF IInv, TypeOK, DoneIsWhole, Highlights,
        RederivesStoredEvents, RederivePCs, SaveHighlights, DetectorVersions
    <3> QED
      BY <2>1, <3>1, <3>2 DEF SaveHighlights, Detect, Row, HighlightsImprove
  <2>2. CASE ~SaveHighlights
    BY <1>4, <2>2 DEF IInv, TypeOK, Row, RederiveStep, ClaimNextRederive,
      ClaimNextRederiveNothing, ClaimNextRederiveError, MarkCurrent,
      LoadEvents, LoadEventsError, SaveHighlightsError, dbVars,
      HighlightsImprove
  <2> QED
    BY <2>1, <2>2
<1>5. CASE BootStep \/ Crash \/ UNCHANGED vars
  BY <1>5 DEF IInv, TypeOK, Row, BootStep, Restart, Deploy, RequeueOrphaned,
    Orphaned, RequeueOrphanedError, Crash, vars, dbVars, HighlightsImprove
<1> QED
  BY <1>1, <1>2, <1>3, <1>4, <1>5 DEF Next, WorkerStep

(* Highlights are only ever replaced by those of a newer detector over the  *)
(* same events: no version of the detector rewrites a row twice.            *)
THEOREM HighlightsForBetter == Spec => HighlightsOnlyImprove
<1>1. IInv /\ [Next]_vars => [HighlightsImprove]_vars
  BY HighlightsImproveStep
<1> QED
  BY <1>1, Invariance, PTL DEF Spec, HighlightsOnlyImprove
=============================================================================
