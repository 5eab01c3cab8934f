----------------------- MODULE AnalysisQueue_refines -----------------------
(* AnalysisQueue implements AnalysisPromise: the initial states map to its   *)
(* initial state and every step to a step or to a stutter.                   *)
EXTENDS AnalysisQueue_proofs

(* The abstract variables, as INSTANCE substitutes them.                    *)
AStatus == [k \in Keys |-> rows[k].status]
AAsked  == [k \in Keys |-> rows[k].url]
AResult == [k \in Keys |-> rows[k].events]
AShown  == [k \in Keys |-> rows[k].hl]

(* A step that replaces one row by one that agrees with it here, or there.  *)
LEMMA OneRowSameResults ==
  ASSUME rows \in [Keys -> Row], NEW k \in Keys, NEW r,
         rows' = [rows EXCEPT ![k] = r],
         r.events = rows[k].events, r.hl = rows[k].hl
  PROVE  AResult' = AResult /\ AShown' = AShown
  BY DEF AResult, AShown

(* Likewise for the demos asked for.                                       *)
LEMMA OneRowSameDemo ==
  ASSUME rows \in [Keys -> Row], NEW k \in Keys, NEW r,
         rows' = [rows EXCEPT ![k] = r], r.url = rows[k].url
  PROVE  AAsked' = AAsked
  BY DEF AAsked

(* The empty table is the initial state of the promise.                    *)
LEMMA RefinesInit == ASSUME Init PROVE Promise!PInit
  BY DEF Init, AbsentRow, Promise!PInit

(* Enqueue, of a new row or of a failed one, is Ask.                        *)
LEMMA RefinesEnqueue ==
  ASSUME IInv, NEW c \in Codes, NEW u \in Urls,
         EnqueueNew(c, u) \/ EnqueueRetry(c, u)
  PROVE  Promise!PNext
<1>0. PICK k \in Keys : k = <<c, parser>>
  BY DEF IInv, TypeOK, Keys
<1>1. /\ k \in Keys /\ rows \in [Keys -> Row] /\ rows[k] \in Row
      /\ rows[k].status \in {"none", "failed"}
  BY <1>0 DEF IInv, TypeOK, EnqueueNew, EnqueueRetry, Retryable
<1>2. PICK r : /\ rows' = [rows EXCEPT ![k] = r]
               /\ r.status = "pending" /\ r.url = u
               /\ r.events = rows[k].events /\ r.hl = rows[k].hl
  <2>1. CASE EnqueueNew(c, u)
    <3> DEFINE r == [rows[k] EXCEPT !.status = "pending", !.url = u,
                                    !.created = serial + 1]
    <3>1. rows' = [rows EXCEPT ![k] = r]
      BY <1>0, <2>1 DEF EnqueueNew
    <3>2. /\ r.status = "pending" /\ r.url = u
          /\ r.events = rows[k].events /\ r.hl = rows[k].hl
      BY <1>1 DEF Row
    <3> QED
      BY <3>1, <3>2
  <2>2. CASE EnqueueRetry(c, u)
    <3> DEFINE r == [rows[k] EXCEPT !.status = "pending", !.url = u]
    <3>1. rows' = [rows EXCEPT ![k] = r]
      BY <1>0, <2>2 DEF EnqueueRetry
    <3>2. /\ r.status = "pending" /\ r.url = u
          /\ r.events = rows[k].events /\ r.hl = rows[k].hl
      BY <1>1 DEF Row
    <3> QED
      BY <3>1, <3>2
  <2> QED
    BY <2>1, <2>2
<1>3. /\ AStatus' = [AStatus EXCEPT ![k] = "pending"]
      /\ AAsked' = [AAsked EXCEPT ![k] = u]
  <2>1. AStatus' = [AStatus EXCEPT ![k] = "pending"]
    BY <1>1, <1>2 DEF AStatus
  <2>2. AAsked' = [AAsked EXCEPT ![k] = u]
    BY <1>1, <1>2 DEF AAsked
  <2> QED
    BY <2>1, <2>2
<1>4. AResult' = AResult /\ AShown' = AShown
  BY <1>1, <1>2, OneRowSameResults
<1>5. Promise!Ask(k, u)
  BY <1>1, <1>3, <1>4
    DEF Promise!Ask, Promise!Set, AStatus, AAsked, AResult, AShown
<1>6. \E j \in Keys : \E v \in Urls : Promise!Ask(j, v)
  BY <1>1, <1>5
<1> QED
  BY <1>6 DEF Promise!PNext

(* Setting a status alone.                                                  *)
LEMMA StatusOnly ==
  ASSUME rows \in [Keys -> Row], NEW k \in Keys, NEW s \in Statuses,
         rows' = [rows EXCEPT ![k].status = s]
  PROVE  /\ AStatus' = [AStatus EXCEPT ![k] = s]
         /\ AAsked' = AAsked /\ AResult' = AResult /\ AShown' = AShown
<1> DEFINE r == [rows[k] EXCEPT !.status = s]
<1>1. rows' = [rows EXCEPT ![k] = r]
  OBVIOUS
<1>2. /\ r.status = s /\ r.url = rows[k].url
      /\ r.events = rows[k].events /\ r.hl = rows[k].hl
  BY DEF Row
<1> HIDE DEF r
<1>3. AStatus' = [AStatus EXCEPT ![k] = s]
  BY <1>1, <1>2 DEF AStatus
<1> QED
  BY <1>1, <1>2, <1>3, OneRowSameResults, OneRowSameDemo

(* MarkRunning is Start, whether or not the worker hears of it.             *)
LEMMA RefinesClaim ==
  ASSUME IInv, NEW k \in Pending, MarkRunning(k)
  PROVE  Promise!PNext
<1>1. /\ k \in Keys /\ rows[k].status = "pending" /\ "running" \in Statuses
      /\ rows \in [Keys -> Row]
  BY DEF IInv, TypeOK, Pending, Statuses
<1>2. /\ AStatus' = [AStatus EXCEPT ![k] = "running"]
      /\ AAsked' = AAsked /\ AResult' = AResult /\ AShown' = AShown
  BY <1>1, StatusOnly DEF MarkRunning
<1>3. Promise!Start(k)
  BY <1>1, <1>2
    DEF Promise!Start, Promise!Set, AStatus, AAsked, AResult, AShown
<1> QED
  BY <1>1, <1>3 DEF Promise!PNext

(* Fail is GiveUp.                                                          *)
LEMMA RefinesFail == ASSUME IInv, Fail PROVE Promise!PNext
<1>1. PICK k \in Keys : k = job.key
  BY DEF IInv, JobIsRunning, Fail, AnalysePCs
<1>2. /\ rows[k].status = "running" /\ rows \in [Keys -> Row]
      /\ "failed" \in Statuses /\ rows' = [rows EXCEPT ![k].status = "failed"]
  BY <1>1 DEF IInv, TypeOK, JobIsRunning, Fail, AnalysePCs, Statuses
<1>3. /\ AStatus' = [AStatus EXCEPT ![k] = "failed"]
      /\ AAsked' = AAsked /\ AResult' = AResult /\ AShown' = AShown
  BY <1>2, StatusOnly
<1>4. Promise!GiveUp(k)
  BY <1>2, <1>3
    DEF Promise!GiveUp, Promise!Set, AStatus, AAsked, AResult, AShown
<1> QED
  BY <1>4 DEF Promise!PNext

(* Complete is Publish, of events of the demo asked for.                    *)
LEMMA RefinesComplete == ASSUME IInv, Complete PROVE Promise!PNext
<1>1. PICK k \in Keys : k = job.key
  BY DEF IInv, JobIsRunning, Complete, AnalysePCs
<1>2. PICK e \in Parses : e = job.events
  BY DEF IInv, JobCarriesItsResults, Complete
<1>3. PICK d \in DetectorVersions : d = detector
  BY DEF IInv, TypeOK
<1>4. /\ rows \in [Keys -> Row] /\ rows[k] \in Row
      /\ rows[k].status = "running" /\ e.url = rows[k].url
  BY <1>1, <1>2
    DEF IInv, TypeOK, JobIsRunning, JobCarriesItsResults, Complete, AnalysePCs
<1>5. PICK r : /\ rows' = [rows EXCEPT ![k] = r]
               /\ r.status = "done" /\ r.url = rows[k].url
               /\ r.events = e /\ r.hl = [from |-> e, det |-> d]
  <2> DEFINE r == Completed(rows[k])
  <2>1. rows' = [rows EXCEPT ![k] = r]
    BY <1>1 DEF Complete
  <2>2. /\ r.status = "done" /\ r.url = rows[k].url
        /\ r.events = e /\ r.hl = [from |-> e, det |-> d]
    BY <1>2, <1>3, <1>4 DEF Completed, Detect, Row
  <2> HIDE DEF r
  <2> QED
    BY <2>1, <2>2
<1>6. /\ AStatus' = [AStatus EXCEPT ![k] = "done"]
      /\ AResult' = [AResult EXCEPT ![k] = e]
      /\ AShown'  = [AShown  EXCEPT ![k] = [from |-> e, det |-> d]]
  <2>1. AStatus' = [AStatus EXCEPT ![k] = "done"]
    BY <1>4, <1>5 DEF AStatus
  <2>2. AResult' = [AResult EXCEPT ![k] = e]
    BY <1>4, <1>5 DEF AResult
  <2>3. AShown' = [AShown EXCEPT ![k] = [from |-> e, det |-> d]]
    BY <1>4, <1>5 DEF AShown
  <2> QED
    BY <2>1, <2>2, <2>3
<1>7. AAsked' = AAsked
  BY <1>4, <1>5, OneRowSameDemo
<1>8. Promise!Publish(k, e, d)
  BY <1>4, <1>6, <1>7
    DEF Promise!Publish, Promise!Set, AStatus, AAsked, AResult, AShown
<1>9. Promise!Results = Parses
  BY DEF Promise!Results, Parses
<1> QED
  BY <1>8, <1>9 DEF Promise!PNext

(* SaveHighlights is Refresh, by the detector of the running binary.        *)
LEMMA RefinesSave == ASSUME IInv, SaveHighlights PROVE Promise!PNext
<1>1. PICK k \in Keys : k = job.key
  BY DEF IInv, RederivesStoredEvents, SaveHighlights, RederivePCs
<1>2. PICK d \in DetectorVersions : d = detector
  BY DEF IInv, TypeOK
<1>3. /\ rows \in [Keys -> Row] /\ rows[k] \in Row
      /\ rows[k].status = "done" /\ rows[k].hl.det < d
      /\ job.events = rows[k].events
  BY <1>1, <1>2 DEF IInv, TypeOK, RederivesStoredEvents, SaveHighlights, RederivePCs
<1>4. PICK r : /\ rows' = [rows EXCEPT ![k] = r]
               /\ r.status = rows[k].status /\ r.url = rows[k].url
               /\ r.events = rows[k].events
               /\ r.hl = [from |-> rows[k].events, det |-> d]
  <2> DEFINE r == [rows[k] EXCEPT !.hl = [from |-> rows[k].events, det |-> d]]
  <2>1. rows' = [rows EXCEPT ![k] = r]
    BY <1>1, <1>2, <1>3 DEF SaveHighlights, Detect
  <2>2. /\ r.status = rows[k].status /\ r.url = rows[k].url
        /\ r.events = rows[k].events
        /\ r.hl = [from |-> rows[k].events, det |-> d]
    BY <1>3 DEF Row
  <2> HIDE DEF r
  <2> QED
    BY <2>1, <2>2
<1>5. AShown' = [AShown EXCEPT ![k] = [from |-> AResult[k], det |-> d]]
  <2>1. AShown' = [AShown EXCEPT ![k] = [from |-> rows[k].events, det |-> d]]
    BY <1>3, <1>4 DEF AShown
  <2> QED
    BY <2>1 DEF AResult
<1>6. AStatus' = AStatus /\ AAsked' = AAsked /\ AResult' = AResult
  BY <1>3, <1>4 DEF AStatus, AAsked, AResult
<1>7. Promise!Refresh(k, d)
  BY <1>2, <1>3, <1>5, <1>6, BoundsAssumption
    DEF Promise!Refresh, DetectorVersions, AStatus, AAsked, AResult, AShown
<1> QED
  BY <1>7 DEF Promise!PNext

(* detector_version is not part of the promise.                             *)
LEMMA RefinesMark ==
  ASSUME IInv, NEW k \in Keys, MarkCurrent(k)
  PROVE  UNCHANGED Promise!pvars
<1>1. rows \in [Keys -> Row]
  BY DEF IInv, TypeOK
<1>2. \A j \in Keys : /\ rows'[j].status = rows[j].status
                      /\ rows'[j].url = rows[j].url
                      /\ rows'[j].events = rows[j].events
                      /\ rows'[j].hl = rows[j].hl
  BY <1>1 DEF MarkCurrent, Row
<1> QED
  BY <1>2 DEF Promise!pvars

(* RequeueOrphaned is Interrupt.                                            *)
LEMMA RefinesRequeue == ASSUME IInv, RequeueOrphaned PROVE Promise!PNext
<1>1. \A k \in Keys : /\ rows'[k].status = IF rows[k].status = "running"
                                            THEN "pending" ELSE rows[k].status
                      /\ rows'[k].url = rows[k].url
                      /\ rows'[k].events = rows[k].events
                      /\ rows'[k].hl = rows[k].hl
  BY DEF IInv, TypeOK, Row, RequeueOrphaned, Orphaned
<1>2. Promise!Interrupt
  BY <1>1 DEF Promise!Interrupt
<1> QED
  BY <1>2 DEF Promise!PNext

(* A step that leaves the table alone is a stutter of the promise.         *)
LEMMA RefinesQuiet ==
  ASSUME rows' = rows
  PROVE  UNCHANGED Promise!pvars
  BY DEF Promise!pvars

(* Every step of the queue is a step of the promise or a stutter.          *)
LEMMA RefinesNext ==
  ASSUME IInv, [Next]_vars
  PROVE  [Promise!PNext]_(Promise!pvars)
<1>1. CASE Enqueue
  BY <1>1, RefinesEnqueue DEF Enqueue
<1>2. CASE ClaimStep
  BY <1>2, RefinesClaim, RefinesQuiet
    DEF ClaimStep, ClaimNext, ClaimNextNothing, ClaimNextError, Wake, Oldest, dbVars
<1>3. CASE AnalyseStep
  BY <1>3, RefinesComplete, RefinesFail, RefinesQuiet
    DEF AnalyseStep, DownloadRefused, DownloadStarts, DownloadAborts,
        DownloadDone, ParseFails, ParseDone, AddAvatars, RetainDemo,
        RetainNothing, CompleteError, FailError, dbVars
<1>4. CASE RederiveStep
  BY <1>4, RefinesSave, RefinesMark, RefinesQuiet
    DEF RederiveStep, ClaimNextRederive, ClaimNextRederiveNothing,
        ClaimNextRederiveError, LoadEvents, LoadEventsError,
        SaveHighlightsError, dbVars
<1>5. CASE BootStep \/ Crash \/ UNCHANGED vars
  BY <1>5, RefinesRequeue, RefinesQuiet
    DEF BootStep, Restart, Deploy, RequeueOrphanedError, Crash, vars, dbVars
<1> QED
  BY <1>1, <1>2, <1>3, <1>4, <1>5 DEF Next, WorkerStep

(* What users see of the table is a behaviour of AnalysisPromise.           *)
THEOREM ImplementsPromise == Spec => KeepsPromise
<1>1. Init => Promise!PInit
  BY RefinesInit
<1>2. IInv /\ [Next]_vars => [Promise!PNext]_(Promise!pvars)
  BY RefinesNext
<1> QED
  BY <1>1, <1>2, Invariance, PTL DEF Spec, KeepsPromise, Promise!PSpec
=============================================================================
