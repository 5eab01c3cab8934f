----------------------- MODULE AnalysisReader_proofs -----------------------
(***************************************************************************)
(* Proofs about AnalysisReader, for any number of calls under way at once, *)
(* any versions, any failures, and a queue that only keeps its promise.    *)
(***************************************************************************)
EXTENDS AnalysisReader, TLAPS

Statuses == {"none", "pending", "running", "done", "failed"}
Values   == Statuses \cup Results \cup Views \cup {None}

CallRecords == [kind : Kinds \cup {None}, url : Demos \cup {None}, read : 0..4,
                answer : [Parts -> Values]]

Types ==
    /\ status \in [Requests -> Statuses]
    /\ result \in [Requests -> Results \cup {None}]
    /\ shown  \in [Requests -> Views \cup {None}]
    /\ page \in [Parts -> Values]
    /\ submitting \in BOOLEAN /\ form \in BOOLEAN
    /\ calls \in [Calls -> CallRecords]
    /\ errors \in 0..MaxErrors

\* Results are there when the analysis is done, and highlights are theirs.
DoneHasResults ==
    /\ status[Key] = "done" => result[Key] # None /\ shown[Key] # None
    /\ result[Key] # None => status[Key] = "done"
    /\ shown[Key] # None => status[Key] = "done" /\ shown[Key].from = result[Key]

EndedIsEmpty == \A g \in Calls : calls[g] # NoCall => calls[g].kind # None

\* An answer after n of its queries: what it has of the results is of the one
\* parse there is, and a row that was done came first.
Fits(a, n) ==
    /\ a["row"] = "done" => status[Key] = "done"
    /\ \A q \in {"players", "rounds"} :
          a[q] # None => a[q] = result[Key] /\ status[Key] = "done"
    /\ a["highlights"] # None => a["highlights"].from = result[Key] /\ status[Key] = "done"
    /\ a["row"] = "done" => /\ n >= 2 => a["highlights"] # None
                            /\ n >= 3 => a["players"] # None
                            /\ n >= 4 => a["rounds"] # None

IInv == /\ Types /\ DoneHasResults /\ EndedIsEmpty
        /\ Fits(page, 4)
        /\ \A g \in Calls : Fits(calls[g].answer, calls[g].read)

LEMMA Blanks ==
  /\ Blank \in [Parts -> Values] /\ NoCall \in CallRecords
  /\ NoCall.kind = None /\ NoCall.read = 0 /\ NoCall.answer = Blank
  /\ Blank["row"] = "none" /\ \A q \in Parts \ {"row"} : Blank[q] = None
BY DEF Blank, NoCall, CallRecords, Parts, Values, Statuses

LEMMA FitsBlank == \A n \in Nat : Fits(Blank, n)
<1>1. Blank["players"] = None /\ Blank["rounds"] = None /\ Blank["highlights"] = None
  BY Blanks DEF Parts
<1> QED
  BY <1>1, Blanks DEF Fits

LEMMA InitIInv == Init => IInv
<1> SUFFICES ASSUME Init PROVE IInv
  OBVIOUS
<1>1. PICK g \in Calls :
        calls = [h \in Calls |-> IF h = g THEN [NoCall EXCEPT !.kind = "get"] ELSE NoCall]
  BY DEF Init
<1>2. [NoCall EXCEPT !.kind = "get"] \in CallRecords
  BY Blanks DEF CallRecords, Kinds
<1>3. \A h \in Calls : calls[h].answer = Blank /\ calls[h].read = 0
  BY <1>1, Blanks DEF NoCall
<1>4. Types
  <2>1. calls \in [Calls -> CallRecords]
    BY <1>1, <1>2, Blanks
  <2>2. page \in [Parts -> Values]
    BY Blanks DEF Init
  <2>3. /\ status \in [Requests -> Statuses] /\ result \in [Requests -> Results \cup {None}]
        /\ shown \in [Requests -> Views \cup {None}] /\ errors \in 0..MaxErrors
    BY PageAssumption DEF Init, PInit, Statuses
  <2>4. submitting \in BOOLEAN /\ form \in BOOLEAN
    BY Zenon DEF Init
  <2> QED
    BY <2>1, <2>2, <2>3, <2>4 DEF Types
<1>5. DoneHasResults
  BY PageAssumption DEF Init, PInit, DoneHasResults
<1>6. EndedIsEmpty
  BY <1>1, PageAssumption DEF EndedIsEmpty, NoCall, Kinds
<1>7. Fits(page, 4) /\ \A h \in Calls : Fits(calls[h].answer, calls[h].read)
  BY <1>3, FitsBlank DEF Init
<1> QED
  BY <1>4, <1>5, <1>6, <1>7 DEF IInv

-----------------------------------------------------------------------------
(* Steps of the table.                                                     *)

\* A step of the promise: a done analysis stays done, with its result.
Promised ==
    /\ status' \in [Requests -> Statuses]
    /\ result' \in [Requests -> Results \cup {None}]
    /\ shown'  \in [Requests -> Views \cup {None}]
    /\ DoneHasResults'
    /\ status[Key] = "done" => status'[Key] = "done" /\ result'[Key] = result[Key]

LEMMA PromisedStep ==
  ASSUME IInv,
         \/ \E u \in Demos : Ask(Key, u)
         \/ Start(Key) \/ Finish \/ Interrupt
         \/ \E d \in Detectors : Refresh(Key, d)
         \/ UNCHANGED table
  PROVE  Promised
<1> USE PageAssumption DEF IInv, Types, DoneHasResults, Promised, Statuses
<1>1. CASE \E u \in Demos : Ask(Key, u)
  BY <1>1 DEF Ask, Set
<1>2. CASE Start(Key) \/ GiveUp(Key)
  BY <1>2 DEF Start, GiveUp, Set
<1>3. ASSUME NEW e \in Results, NEW d \in Detectors, Publish(Key, e, d) PROVE Promised
  <2>1. [from |-> e, det |-> d] \in Views
    BY DEF Views
  <2> QED
    BY <1>3, <2>1 DEF Publish, Set
<1>4. CASE Interrupt
  BY <1>4 DEF Interrupt
<1>5. ASSUME NEW d \in Detectors, Refresh(Key, d) PROVE Promised
  <2>1. result[Key] \in Results
    BY <1>5 DEF Refresh
  <2>2. [from |-> result[Key], det |-> d] \in Views
    BY <2>1 DEF Views
  <2> QED
    BY <1>5, <2>2 DEF Refresh
<1>6. CASE UNCHANGED table
  BY <1>6 DEF table
<1> QED
  BY <1>1, <1>2, <1>3, <1>4, <1>5, <1>6 DEF Finish

\* What fitted before goes on to fit.
FitsThen(a, n) ==
    /\ a["row"] = "done" => status'[Key] = "done"
    /\ \A q \in {"players", "rounds"} :
          a[q] # None => a[q] = result'[Key] /\ status'[Key] = "done"
    /\ a["highlights"] # None => a["highlights"].from = result'[Key] /\ status'[Key] = "done"
    /\ a["row"] = "done" => /\ n >= 2 => a["highlights"] # None
                            /\ n >= 3 => a["players"] # None
                            /\ n >= 4 => a["rounds"] # None

LEMMA FitsOn ==
  ASSUME Promised, NEW a, NEW n, Fits(a, n)
  PROVE  FitsThen(a, n)
BY DEF Promised, Fits, FitsThen

LEMMA StepShown ==
  ASSUME Promised, EndedIsEmpty',
         page' \in [Parts -> Values], calls' \in [Calls -> CallRecords],
         submitting' \in BOOLEAN, form' \in BOOLEAN, errors' \in 0..MaxErrors,
         FitsThen(page', 4), \A g \in Calls : FitsThen(calls'[g].answer, calls'[g].read)
  PROVE  IInv'
<1>1. Types'
  BY DEF Types, Promised, Values, Statuses, CallRecords
<1>2. Fits(page, 4)' /\ (\A g \in Calls : Fits(calls[g].answer, calls[g].read))'
  BY DEF Fits, FitsThen
<1> QED
  BY <1>1, <1>2 DEF IInv, Promised

LEMMA TableStep ==
  ASSUME IInv, Promised, UNCHANGED <<page, submitting, form, calls, errors>>
  PROVE  IInv'
<1>1. FitsThen(page', 4) /\ \A g \in Calls : FitsThen(calls'[g].answer, calls'[g].read)
  BY FitsOn DEF IInv
<1>2. EndedIsEmpty'
  BY DEF IInv, EndedIsEmpty, NoCall, Blank
<1> QED
  BY <1>1, <1>2, StepShown DEF IInv, Types

-----------------------------------------------------------------------------
(* Steps of a call.                                                        *)

\* One call changes; its new record is typed, fits, and is not half over.
LEMMA CallStep ==
  ASSUME IInv, Promised, NEW g \in Calls, NEW c \in CallRecords,
         calls' = [calls EXCEPT ![g] = c],
         c # NoCall => c.kind # None, FitsThen(c.answer, c.read),
         page' \in [Parts -> Values], FitsThen(page', 4),
         submitting' \in BOOLEAN, form' \in BOOLEAN, errors' \in 0..MaxErrors
  PROVE  IInv'
<1>1. calls \in [Calls -> CallRecords] /\ calls' \in [Calls -> CallRecords]
  BY DEF IInv, Types
<1>2. \A h \in Calls : calls'[h] = IF h = g THEN c ELSE calls[h]
  BY <1>1
<1>3. \A h \in Calls : FitsThen(calls'[h].answer, calls'[h].read)
  BY <1>2, FitsOn DEF IInv
<1>4. NoCall' = NoCall
  BY DEF NoCall, Blank
<1>5. EndedIsEmpty'
  BY <1>2, <1>4 DEF IInv, EndedIsEmpty
<1> QED
  BY <1>1, <1>3, <1>5, StepShown

LEMMA SendStep ==
  ASSUME IInv, NEW g \in Calls, NEW kind \in Kinds, NEW url \in Demos \cup {None},
         Send(g, kind, url), UNCHANGED <<table, page, form, errors>>, submitting' \in BOOLEAN
  PROVE  IInv'
<1> DEFINE c == [NoCall EXCEPT !.kind = kind, !.url = url]
<1>1. c \in CallRecords /\ c.kind = kind /\ c.answer = Blank /\ c.read = 0
  BY Blanks DEF CallRecords
<1>2. kind # None
  BY PageAssumption
<1>3. Promised
  BY PromisedStep
<1>4. Fits(Blank, 0) /\ Fits(page, 4)
  BY FitsBlank DEF IInv
<1>5. FitsThen(Blank, 0) /\ FitsThen(page', 4)
  BY <1>3, <1>4, FitsOn
<1>6. calls' = [calls EXCEPT ![g] = c]
  BY DEF Send
<1> HIDE DEF c
<1> QED
  BY <1>1, <1>2, <1>3, <1>5, <1>6, CallStep DEF IInv, Types

LEMMA PageStep ==
  ASSUME IInv, NEW g \in Calls, Poll(g) \/ Press(g) \/ Submit(g)
  PROVE  IInv'
<1>1. CASE Poll(g)
  BY <1>1, SendStep DEF Poll, Kinds, IInv, Types
<1>2. CASE Press(g)
  BY <1>2, SendStep DEF Press, Kinds
<1>3. CASE Submit(g)
  BY <1>3, SendStep DEF Submit, Kinds
<1> QED
  BY <1>1, <1>2, <1>3

LEMMA ReceiveStep ==
  ASSUME IInv, NEW g \in Calls, Receive(g)
  PROVE  IInv'
<1>1. Promised
  BY PromisedStep DEF Receive
<1>2. calls[g] \in CallRecords /\ calls[g].read = 4 /\ Fits(calls[g].answer, 4)
  BY DEF IInv, Types, Receive, Queries
<1>3. page' \in [Parts -> Values] /\ page' = calls[g].answer
  BY <1>2 DEF Receive, CallRecords
<1>4. FitsThen(page', 4)
  BY <1>1, <1>2, <1>3, FitsOn
<1>5. NoCall \in CallRecords /\ FitsThen(NoCall.answer, NoCall.read)
  BY <1>1, Blanks, FitsBlank, FitsOn
<1>6. submitting' \in BOOLEAN /\ form' \in BOOLEAN
  BY DEF Receive, IInv, Types
<1> QED
  BY <1>1, <1>3, <1>4, <1>5, <1>6, CallStep DEF Receive, IInv, Types

LEMMA FailsStep ==
  ASSUME IInv, NEW g \in Calls, Fails(g)
  PROVE  IInv'
<1>1. Promised
  BY PromisedStep DEF Fails
<1>2. NoCall \in CallRecords /\ FitsThen(NoCall.answer, NoCall.read)
  BY <1>1, Blanks, FitsBlank, FitsOn
<1>3. page' = page /\ page \in [Parts -> Values] /\ FitsThen(page', 4)
  BY <1>1, FitsOn DEF Fails, IInv, Types
<1>4. errors' \in 0..MaxErrors
  BY PageAssumption DEF Fails, IInv, Types
<1>5. submitting' \in BOOLEAN /\ form' \in BOOLEAN
  BY Zenon DEF Fails
<1> QED
  BY <1>1, <1>2, <1>3, <1>4, <1>5, CallStep DEF Fails

LEMMA EnqueueStep ==
  ASSUME IInv, NEW g \in Calls, Enqueue(g)
  PROVE  IInv'
<1> DEFINE c == [calls[g] EXCEPT !.url = None]
<1>1. calls[g] \in CallRecords /\ calls[g].url \in Demos
  BY DEF IInv, Types, CallRecords, Enqueue
<1>2. Promised
  BY <1>1, PromisedStep DEF Enqueue
<1>3. /\ c \in CallRecords /\ c.kind = calls[g].kind /\ c.answer = calls[g].answer
      /\ c.read = calls[g].read /\ c.kind # None
  BY <1>1, PageAssumption DEF CallRecords, Enqueue, Kinds
<1>4. FitsThen(c.answer, c.read)
  BY <1>2, <1>3, FitsOn DEF IInv
<1>5. page' = page /\ page \in [Parts -> Values] /\ FitsThen(page', 4)
  BY <1>2, FitsOn DEF Enqueue, IInv, Types
<1>6. calls' = [calls EXCEPT ![g] = c]
  BY DEF Enqueue, IInv, Types
<1>7. submitting' \in BOOLEAN /\ form' \in BOOLEAN /\ errors' \in 0..MaxErrors
  BY DEF Enqueue, IInv, Types
<1> HIDE DEF c
<1> QED
  BY <1>2, <1>3, <1>4, <1>5, <1>6, <1>7, CallStep

\* A part read now is of the parse that the parts before it are of: a row that
\* says done had its results already, and keeps them.
LEMMA ReadStep ==
  ASSUME IInv, NEW g \in Calls, Read(g)
  PROVE  IInv'
<1> DEFINE c == calls[g]
           q == Queries[c.read + 1]
           n == IF q = "row" /\ Value[q] = "none" THEN Len(Queries) ELSE c.read + 1
           b == [c.answer EXCEPT ![q] = Value[q]]
           d == [c EXCEPT !.answer = b, !.read = n]
<1>1. /\ c \in CallRecords /\ c.answer \in [Parts -> Values] /\ c.read \in 0..3 /\ c.kind # None
      /\ Fits(c.answer, c.read)
  BY DEF IInv, Types, CallRecords, Read, Queries
<1>2. Promised /\ status' = status /\ result' = result
  BY PromisedStep DEF Read, table
<1>3. /\ c.read = 0 => q = "row"
      /\ c.read = 1 => q = "highlights"
      /\ c.read = 2 => q = "players"
      /\ c.read = 3 => q = "rounds"
  BY DEF Queries
<1>4. q \in Parts
  BY <1>1, <1>3 DEF Parts
<1>5. /\ Value["row"] = status[Key] /\ Value["highlights"] = shown[Key]
      /\ Value["players"] = result[Key] /\ Value["rounds"] = result[Key]
  BY DEF Value
<1>6. Value[q] \in Values
  BY <1>1, <1>3, <1>5, PageAssumption DEF IInv, Types, Values
<1>7. b \in [Parts -> Values] /\ \A p \in Parts : b[p] = IF p = q THEN Value[q] ELSE c.answer[p]
  BY <1>1, <1>4, <1>6
<1>8. n \in 1..4 /\ (n = c.read + 1 \/ b["row"] = "none")
  <2>1. Len(Queries) = 4
    BY DEF Queries
  <2> QED
    BY <1>1, <1>4, <1>7, <2>1 DEF Parts
<1> HIDE DEF q, b, n
<1>9. FitsThen(b, n)
  <2> USE DEF Fits, FitsThen, Parts, IInv, DoneHasResults
  <2>1. CASE c.read = 0
    BY <1>1, <1>2, <1>3, <1>5, <1>7, <1>8, <2>1
  <2>2. CASE c.read = 1
    BY <1>1, <1>2, <1>3, <1>5, <1>7, <1>8, <2>2
  <2>3. CASE c.read = 2
    BY <1>1, <1>2, <1>3, <1>5, <1>7, <1>8, <2>3
  <2>4. CASE c.read = 3
    BY <1>1, <1>2, <1>3, <1>5, <1>7, <1>8, <2>4
  <2> QED
    BY <1>1, <2>1, <2>2, <2>3, <2>4
<1>10. d \in CallRecords /\ d.kind = c.kind /\ d.answer = b /\ d.read = n
  <2>1. n \in 0..4
    BY <1>8
  <2> HIDE DEF c
  <2> QED
    BY <1>1, <1>7, <2>1 DEF CallRecords
<1>11. calls' = [calls EXCEPT ![g] = d]
  BY DEF Read, q, b, n
<1>12. page' = page /\ page \in [Parts -> Values] /\ FitsThen(page', 4)
  BY <1>2, FitsOn DEF Read, IInv, Types
<1> HIDE DEF d
<1> QED
  BY <1>1, <1>2, <1>9, <1>10, <1>11, <1>12, CallStep DEF Read, IInv, Types

LEMMA ToggleStep == IInv /\ Toggle => IInv'
<1> SUFFICES ASSUME IInv, Toggle PROVE IInv'
  OBVIOUS
<1>1. Promised
  BY PromisedStep DEF Toggle
<1>2. FitsThen(page', 4) /\ \A g \in Calls : FitsThen(calls'[g].answer, calls'[g].read)
  BY <1>1, FitsOn DEF IInv, Toggle
<1>3. EndedIsEmpty'
  BY DEF IInv, Toggle, EndedIsEmpty, NoCall, Blank
<1>4. form' \in BOOLEAN
  BY Zenon DEF Toggle
<1> QED
  BY <1>1, <1>2, <1>3, <1>4, StepShown DEF IInv, Types, Toggle

LEMMA NextIInv == IInv /\ [Next]_vars => IInv'
<1> SUFFICES ASSUME IInv, [Next]_vars PROVE IInv'
  OBVIOUS
<1>1. CASE UNCHANGED vars
  BY <1>1, PromisedStep, TableStep DEF vars, table
<1>2. ASSUME NEW g \in Calls, Poll(g) \/ Press(g) \/ Submit(g) PROVE IInv'
  BY <1>2, PageStep
<1>3. ASSUME NEW g \in Calls, Receive(g) \/ Fails(g) PROVE IInv'
  BY <1>3, ReceiveStep, FailsStep
<1>4. ASSUME NEW g \in Calls, Enqueue(g) \/ Read(g) PROVE IInv'
  BY <1>4, EnqueueStep, ReadStep
<1>5. CASE Toggle
  BY <1>5, ToggleStep
<1>6. CASE \/ Table(Start(Key)) \/ Table(Finish) \/ Table(Interrupt)
           \/ \E d \in Detectors : Table(Refresh(Key, d))
  BY <1>6, PromisedStep, TableStep DEF Table
<1> QED
  BY <1>1, <1>2, <1>3, <1>4, <1>5, <1>6 DEF Next

-----------------------------------------------------------------------------
(* The theorems.                                                           *)

\* The inductive invariant holds in every reachable state.
THEOREM Invariance == Spec => []IInv
<1>1. Init => IInv
  BY InitIInv
<1>2. IInv /\ [Next]_vars => IInv'
  BY NextIInv
<1> QED
  BY <1>1, <1>2, PTL DEF Spec

\* The page and its calls keep their types, and a call that ended left nothing.
THEOREM TypeCorrect == Spec => []TypeOK
<1>1. IInv => TypeOK
  <2>1. Len(Queries) = 4
    BY DEF Queries
  <2> QED
    BY <2>1 DEF IInv, Types, EndedIsEmpty, TypeOK, CallRecords
<1> QED
  BY <1>1, Invariance, PTL

\* GetAnalysis runs its four queries in no transaction and answers arrive in any
\* order; still nobody is ever shown half a result, or parts of two.
THEOREM NothingShownIsTorn == Spec => []ShownIsWhole
<1>1. IInv => ShownIsWhole
  <2> SUFFICES ASSUME IInv PROVE ShownIsWhole
    OBVIOUS
  <2>1. \A a : Fits(a, 4) => Sound(a) /\ (a["row"] = "done" => status[Key] = "done")
    BY DEF Fits, Sound
  <2>2. Len(Queries) = 4
    BY DEF Queries
  <2> QED
    BY <2>1, <2>2 DEF IInv, ShownIsWhole
<1> QED
  BY <1>1, Invariance, PTL
=============================================================================
