------------------------------ MODULE Analyze ------------------------------
(***************************************************************************)
(* POST /api/matches/{sharecode}/analyze: the handler that resolves a      *)
(* sharecode through the sidecar, or takes a demo URL from the user, and   *)
(* queues the analysis.  It composes GcSidecar with the analysis queue, of *)
(* which only what AnalysisPromise says is used.                           *)
(* Requests for one match may overlap, and a browser may leave meanwhile.  *)
(***************************************************************************)
EXTENDS GcSidecar

CONSTANTS ByHand,   \* requests that come with a demo_url,
          Manual    \* namely one that a user typed in

ASSUME ByHandAssumption == ByHand \subseteq Requests

VARIABLES resolver, \* gcResolver is not nil
          answered, \* requests whose handler has ended
          status, asked, result, shown      \* the table, as AnalysisPromise has it

Table == INSTANCE AnalysisPromise WITH
    Requests <- Codes, Demos <- Codes \cup {Manual}, Parsers <- {1}, Detectors <- {1}

handler == <<resolver, answered>>
table   == <<status, asked, result, shown>>
avars   == <<vars, handler, table>>

AInit ==
    /\ Init /\ Table!PInit
    /\ resolver \in BOOLEAN
    /\ answered = {}

-----------------------------------------------------------------------------
(* The handler.                                                            *)

\* Past the checks that ask nobody and change nothing: a session, an owner of
\* the match, a body that parses.
Fresh(r) == outcome[r] = "uncalled" /\ r \notin answered

Answer(r) == answered' = answered \cup {r} /\ UNCHANGED resolver

LookUp(r) ==
    /\ Fresh(r) /\ r \notin ByHand /\ resolver
    /\ Resolve(r) \/ ResolveRefused(r)
    /\ UNCHANGED <<handler, table>>

\* 400: without a GC_SIDECAR_URL nobody can be asked.
NoLookUp(r) ==
    /\ Fresh(r) /\ r \notin ByHand /\ ~resolver
    /\ Answer(r)
    /\ UNCHANGED <<vars, table>>

\* The browser goes away: the request's context is cancelled, and Resolve
\* returns with an error that nobody sees.  The sidecar does not hear of it.
Leave(r) ==
    /\ outcome[r] = "calling"
    /\ outcome' = [outcome EXCEPT ![r] = "unavailable"]
    /\ UNCHANGED <<up, ready, sidecar, unanswered, reply, wait, trouble, handler, table>>

\* Mutant: only one kind of error ends the handler.
UnresolvedNoDemo(r) == outcome[r] = "noDemo"

\* ErrNoDemoAvailable becomes a 404, every other error a 503.
Unresolved(r) == outcome[r] \in {"noDemo", "unavailable"}

\* The error is the answer; nothing is recorded.
AnswerUnresolved(r) ==
    /\ r \notin answered
    /\ Unresolved(r)
    /\ Answer(r)
    /\ UNCHANGED <<vars, table>>

\* An explicit demo_url wins over the one resolved: the sidecar is not asked.
DemoUrl(r) == IF r \in ByHand THEN Manual ELSE outcome[r]

HasUrl(r) == r \notin answered /\ DemoUrl(r) \in Codes \cup {Manual}

\* Store.Enqueue: a new row or a failed one asks for this URL; any other row is
\* left alone.  GetAnalysis then reads what to answer with.
Enqueue(r) ==
    /\ HasUrl(r)
    /\ \/ Table!Ask(CodeOf[r], DemoUrl(r))
       \/ status[CodeOf[r]] \notin {"none", "failed"} /\ UNCHANGED table
    /\ Answer(r)
    /\ UNCHANGED vars

\* Enqueue fails, or the browser left: without effect, or as Enqueue does.
EnqueueError(r) ==
    /\ HasUrl(r)
    /\ Answer(r)
    /\ UNCHANGED <<vars, table>>

\* The worker, and what restarts do to it.  There is one detector here, so no
\* Refresh: it would not touch status, asked or result.
Analyse ==
    /\ \/ \E c \in Codes : \/ Table!Start(c) \/ Table!GiveUp(c)
                           \/ \E e \in Table!Results : Table!Publish(c, e, 1)
       \/ Table!Interrupt
    /\ UNCHANGED <<vars, handler>>

-----------------------------------------------------------------------------
HandlerStep(r) == AnswerUnresolved(r) \/ Enqueue(r)

ANext == \/ \E r \in Requests : \/ LookUp(r) \/ NoLookUp(r) \/ Leave(r)
                                \/ HandlerStep(r) \/ EnqueueError(r)
         \/ Analyse
         \/ Going /\ UNCHANGED <<handler, table>>

ASpec == AInit /\ [][ANext]_avars

\* Node's event loop serves due callbacks, Go's client its timer and socket,
\* net/http runs every handler to its end, time passes, and docker restarts the
\* container.  The coordinator owes no answer, Steam no connection, and the
\* worker is left to AnalysisQueue.
AFairSpec == /\ ASpec
             /\ WF_vars(SidecarStep) /\ WF_vars(Tick) /\ WF_vars(Restart)
             /\ \A r \in Requests : /\ WF_vars(BackendStep(r))
                                   /\ WF_avars(~Fresh(r) /\ HandlerStep(r))

-----------------------------------------------------------------------------
ATypeOK ==
    /\ TypeOK
    /\ resolver \in BOOLEAN /\ answered \subseteq Requests
    /\ status \in [Codes -> {"none", "pending", "running", "done", "failed"}]
    /\ asked \in [Codes -> Codes \cup {Manual, None}]

\* As long as no request to the coordinator has timed out, a match is only ever
\* queued with its own demo, or with what a user typed in for it, and analysed
\* from it: however requests for several matches overlap, break off or are made
\* again while a worker is at work.
QueuedIsOwnUntilTimeout ==
    timeouts = {} => \A c \in Codes :
        /\ status[c] # "none" => asked[c] \in {c, Manual}
        /\ status[c] = "done" => result[c].url \in {c, Manual}

\* Every request is answered, whatever the coordinator does: the client's own
\* timeout ends a wait that the sidecar does not end.
RequestIsAnswered ==
    \A r \in Requests : outcome[r] # "uncalled" ~> r \in answered

(* A claim of the repository's comments, for the run that refutes it.      *)

\* "One in-flight GC request at a time. ... overlapping requests could not be
\* told apart" (index.js:36-38), so a finished analysis is of the match it was
\* asked for, or of a demo that a user named.
AnalysedIsOwn ==
    \A c \in Codes : status[c] = "done" => result[c].url \in {c, Manual}
=============================================================================
