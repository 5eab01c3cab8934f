----------------------------- MODULE GcSidecar -----------------------------
(***************************************************************************)
(* Resolving a sharecode to a demo URL: the backend's GCResolver.Resolve,  *)
(* the Node sidecar that serialises requests to the CS2 game coordinator,  *)
(* and the coordinator, whose answers arrive on one event that does not    *)
(* say which request it answers.                                           *)
(*                                                                         *)
(* Time passes in ticks.  A timer counts down and may be served late.  A   *)
(* URL is identified by the sharecode whose demo it serves.                *)
(***************************************************************************)
EXTENDS Integers, Sequences, FiniteSets

CONSTANTS Requests,         \* calls of Resolve, each made at most once
          CodeOf,           \* the sharecode each of them asks for
          Expired,          \* sharecodes whose demo is gone
          None,
          Gap,              \* MIN_REQUEST_GAP_MS
          RequestTimeout,   \* REQUEST_TIMEOUT_MS
          ClientTimeout,    \* the 60 s of GCResolver's http.Client
          MaxTrouble        \* bound on disconnects, exits, throws and broken replies

ASSUME TimesAssumption ==
    /\ Gap \in Nat /\ RequestTimeout \in Nat /\ ClientTimeout \in Nat
    /\ MaxTrouble \in Nat

Codes == {CodeOf[r] : r \in Requests}

VARIABLES up,        \* the sidecar process runs
          ready,     \* gcReady
          chain,     \* requests enqueued behind the promise chain's tail
          stage,     \* of each request in the sidecar
          sinceAsk,  \* now - lastRequestAt, up to Gap
          timer,     \* of each request, what is left of its setTimeout
          unanswered,\* requests the coordinator has not answered yet
          reply,     \* the HTTP response of each request
          outcome,   \* what Resolve returned to the analyze handler
          wait,      \* of each call of Resolve, time since it was made
          timeouts,  \* requests that have timed out
          trouble

sidecar == <<chain, stage, sinceAsk, timer, timeouts>>
client  == <<outcome, wait>>
vars    == <<up, ready, chain, stage, sinceAsk, timer, unanswered, reply,
             outcome, wait, timeouts, trouble>>

Stages   == {"none", "queued", "gap", "asked", "settled"}
Replies  == [status : {200}, url : Codes] \cup [status : {404, 503}, url : {None}]
Failures == {"noDemo", "unavailable"}
Outcomes == {"uncalled", "calling"} \cup Failures \cup Codes

\* A URL is neither an error nor the lack of an answer.
ASSUME NamesAssumption ==
    /\ None \notin Replies
    /\ Codes \cap ({"uncalled", "calling"} \cup Failures) = {}

Init ==
    /\ up = TRUE /\ ready = FALSE
    /\ chain = <<>>
    /\ stage = [r \in Requests |-> "none"]
    /\ sinceAsk = Gap
    /\ timer = [r \in Requests |-> 0]
    /\ unanswered = {}
    /\ reply = [r \in Requests |-> None]
    /\ outcome = [r \in Requests |-> "uncalled"]
    /\ wait = [r \in Requests |-> 0]
    /\ timeouts = {}
    /\ trouble = 0

-----------------------------------------------------------------------------
(* The backend: GCResolver.Resolve.                                        *)

Respond(r, status, url) == reply' = [reply EXCEPT ![r] = [status |-> status, url |-> url]]

\* The request reaches the sidecar's handler, which looks at gcReady now, and
\* only now, and appends the request to the chain.
Resolve(r) ==
    /\ outcome[r] = "uncalled" /\ up
    /\ outcome' = [outcome EXCEPT ![r] = "calling"]
    /\ IF ready
       THEN /\ chain' = Append(chain, r)
            /\ stage' = [stage EXCEPT ![r] = "queued"]
            /\ UNCHANGED reply
       ELSE /\ Respond(r, 503, None)
            /\ UNCHANGED <<chain, stage>>
    /\ UNCHANGED <<up, ready, sinceAsk, timer, unanswered, wait, timeouts, trouble>>

\* No sidecar listens: the transport error is not ErrNoDemoAvailable.
ResolveRefused(r) ==
    /\ outcome[r] = "uncalled" /\ ~up
    /\ outcome' = [outcome EXCEPT ![r] = "unavailable"]
    /\ UNCHANGED <<up, ready, sidecar, unanswered, reply, wait, trouble>>

\* What each status means to the caller.
Meaning(rep) == CASE rep.status = 200 -> rep.url
                  [] rep.status = 404 -> "noDemo"
                  [] rep.status = 503 -> "unavailable"

Receive(r) ==
    /\ outcome[r] = "calling"
    /\ reply[r] # None
    /\ outcome' = [outcome EXCEPT ![r] = Meaning(reply[r])]
    /\ UNCHANGED <<up, ready, sidecar, unanswered, reply, wait, trouble>>

\* The connection breaks behind the status line.  No other status needs its
\* body, but a 200 without a demo_url is ErrNoDemoAvailable.
ReceiveBroken(r) ==
    /\ outcome[r] = "calling"
    /\ reply[r] # None /\ reply[r].status = 200
    /\ trouble < MaxTrouble /\ trouble' = trouble + 1
    /\ outcome' = [outcome EXCEPT ![r] = "noDemo"]
    /\ UNCHANGED <<up, ready, sidecar, unanswered, reply, wait>>

\* The client gives up; the sidecar does not hear of it.
ClientTimesOut(r) ==
    /\ outcome[r] = "calling"
    /\ wait[r] = ClientTimeout
    /\ outcome' = [outcome EXCEPT ![r] = "unavailable"]
    /\ UNCHANGED <<up, ready, sidecar, unanswered, reply, wait, trouble>>

-----------------------------------------------------------------------------
(* The sidecar: enqueue and requestDemoUrl.                                *)

Asking == {r \in Requests : stage[r] \in {"gap", "asked"}}

\* Mutants: requests not chained; a chain broken by the first rejection.
TurnAtOnce(r)        == TRUE
TurnUntilRejected(r) == Asking = {} /\ \A q \in Requests : reply[q] # None => reply[q].status # 404

\* queue.then: the link runs once the previous one has settled either way.
Turn(r) == Asking = {}

\* How long to wait is computed once, when the turn comes.
StartTurn ==
    /\ up /\ chain # <<>>
    /\ Turn(Head(chain))
    /\ stage' = [stage EXCEPT ![Head(chain)] = "gap"]
    /\ timer' = [timer EXCEPT ![Head(chain)] = Gap - sinceAsk]
    /\ chain' = Tail(chain)
    /\ UNCHANGED <<up, ready, sinceAsk, unanswered, reply, client, timeouts, trouble>>

\* After the gap: listen on matchList, start the timer, csgo.requestGame.
Ask(r) ==
    /\ up /\ stage[r] = "gap"
    /\ timer[r] = 0
    /\ stage' = [stage EXCEPT ![r] = "asked"]
    /\ sinceAsk' = 0
    /\ timer' = [timer EXCEPT ![r] = RequestTimeout]
    /\ unanswered' = IF ready THEN unanswered \cup {r} ELSE unanswered
    /\ UNCHANGED <<up, ready, chain, reply, client, timeouts, trouble>>

Settle(S) == stage' = [r \in Requests |-> IF r \in S THEN "settled" ELSE stage[r]]

\* requestGame throws: the request is rejected like any other failure.
AskThrows(r) ==
    /\ up /\ stage[r] = "gap"
    /\ timer[r] = 0
    /\ trouble < MaxTrouble /\ trouble' = trouble + 1
    /\ Settle({r})
    /\ sinceAsk' = 0
    /\ Respond(r, 404, None)
    /\ UNCHANGED <<up, ready, chain, timer, unanswered, client, timeouts>>

Listening == {r \in Requests : stage[r] = "asked"}

\* findDemoUrl over the answer about one sharecode.
AnswerTo(a) == IF CodeOf[a] \in Expired THEN [status |-> 404, url |-> None]
                                        ELSE [status |-> 200, url |-> CodeOf[a]]

\* The coordinator answers request a: every listener of matchList takes the
\* answer for its own; without a listener it is dropped.
MatchList(a) ==
    /\ up /\ a \in unanswered
    /\ unanswered' = unanswered \ {a}
    /\ Settle(Listening)
    /\ reply' = [r \in Requests |-> IF r \in Listening THEN AnswerTo(a) ELSE reply[r]]
    /\ UNCHANGED <<up, ready, chain, sinceAsk, timer, client, timeouts, trouble>>

\* Mutant: the timer not cleared, and settled not checked.
UnsettledOrNot(r) == stage[r] \in {"asked", "settled"} /\ r \notin timeouts

Unsettled(r) == stage[r] = "asked"

\* The timer fires first: the listener goes, the coordinator's answer may
\* still be on its way, and the error is a 404 like any other.
TimeOut(r) ==
    /\ up /\ Unsettled(r)
    /\ timer[r] = 0
    /\ Settle({r})
    /\ Respond(r, 404, None)
    /\ timeouts' = timeouts \cup {r}
    /\ UNCHANGED <<up, ready, chain, sinceAsk, timer, unanswered, client, trouble>>

-----------------------------------------------------------------------------
(* Steam and the process.                                                  *)

ConnectedToGC ==
    /\ up /\ ~ready
    /\ ready' = TRUE
    /\ UNCHANGED <<up, sidecar, unanswered, reply, client, trouble>>

\* Answers that were due may be lost with the session, or come with the next.
DisconnectedFromGC ==
    /\ up /\ ready
    /\ trouble < MaxTrouble /\ trouble' = trouble + 1
    /\ ready' = FALSE
    /\ unanswered' \in {unanswered, {}}
    /\ UNCHANGED <<up, sidecar, reply, client>>

\* 'error' and 'steamGuard' exit the process; open connections break.
Exit ==
    /\ up
    /\ trouble < MaxTrouble /\ trouble' = trouble + 1
    /\ up' = FALSE /\ ready' = FALSE
    /\ chain' = <<>>
    /\ stage' = [r \in Requests |-> IF stage[r] = "none" THEN "none" ELSE "settled"]
    /\ sinceAsk' = Gap
    /\ unanswered' = {}
    /\ timer' = [r \in Requests |-> 0]
    /\ outcome' = [r \in Requests |->
                     IF outcome[r] = "calling" /\ reply[r] = None
                     THEN "unavailable" ELSE outcome[r]]
    /\ UNCHANGED <<reply, wait, timeouts>>

Restart ==
    /\ ~up
    /\ up' = TRUE
    /\ UNCHANGED <<ready, sidecar, unanswered, reply, client, trouble>>

Up(limit, t) == IF t < limit THEN t + 1 ELSE t

\* Mutant: a timer that is not clamped at zero.
DownPastZero(t) == t - 1

Down(t) == IF t > 0 THEN t - 1 ELSE 0

Tick ==
    /\ sinceAsk' = Up(Gap, sinceAsk)
    /\ timer' = [r \in Requests |-> Down(timer[r])]
    /\ wait' = [r \in Requests |->
                  IF outcome[r] = "calling" THEN Up(ClientTimeout, wait[r]) ELSE wait[r]]
    /\ UNCHANGED <<up, ready, chain, stage, unanswered, reply, outcome, timeouts, trouble>>

-----------------------------------------------------------------------------
BackendStep(r) == Receive(r) \/ ClientTimesOut(r)
SidecarStep == \/ StartTurn
               \/ \E r \in Requests : Ask(r) \/ TimeOut(r)

SteamStep   == \/ \E r \in Requests : MatchList(r) \/ AskThrows(r)
               \/ ConnectedToGC \/ DisconnectedFromGC \/ Exit

\* What goes on once a call is made.
Going == \/ \E r \in Requests : BackendStep(r) \/ ReceiveBroken(r)
         \/ SidecarStep \/ SteamStep \/ Restart \/ Tick

Next == Going \/ \E r \in Requests : Resolve(r) \/ ResolveRefused(r)

Spec == Init /\ [][Next]_vars

-----------------------------------------------------------------------------
(* Safety.                                                                 *)

TypeOK ==
    /\ up \in BOOLEAN /\ ready \in BOOLEAN
    /\ chain \in Seq(Requests)
    /\ stage \in [Requests -> Stages]
    /\ sinceAsk \in 0..Gap
    /\ timer \in [Requests -> Nat]
    /\ unanswered \subseteq Requests
    /\ reply \in [Requests -> Replies \cup {None}]
    /\ outcome \in [Requests -> Outcomes]
    /\ wait \in [Requests -> 0..ClientTimeout]
    /\ timeouts \subseteq Requests
    /\ trouble \in 0..MaxTrouble

\* The chain holds exactly the requests whose turn is to come, once each, and
\* at most one request talks to the coordinator. (enqueue)
ChainIsSerial ==
    /\ {chain[i] : i \in DOMAIN chain} = {r \in Requests : stage[r] = "queued"}
    /\ \A i, j \in DOMAIN chain : chain[i] = chain[j] => i = j
    /\ Cardinality(Asking) <= 1

\* As long as no request has ever timed out, serialising does tell answers
\* apart, across exits and reconnects: a URL is that of the sharecode asked
\* for; and unless something else broke, only an expired demo is called so.
RightUntilTimeout ==
    timeouts = {} =>
        \A r \in Requests :
            /\ outcome[r] \in Codes => outcome[r] = CodeOf[r]
            /\ outcome[r] = "noDemo" /\ trouble = 0 => CodeOf[r] \in Expired

\* Two requests to the coordinator are Gap apart, whatever the queue: the wait
\* is computed from a lastRequestAt that nobody moves while it is slept.
AskKeepsGap ==
    [][\A r \in Requests :
          stage[r] = "gap" /\ stage'[r] = "asked" => sinceAsk = Gap]_vars

\* A call is answered once: what Resolve returned, and what the sidecar
\* replied, is never replaced. (settled)
AnsweredOnce ==
    [][\A r \in Requests :
          /\ reply[r] # None => reply'[r] = reply[r]
          /\ outcome[r] \notin {"uncalled", "calling"} => outcome'[r] = outcome[r]]_vars

(* Liveness, under the fairness of Analyze.                                *)

\* A request that entered the chain is served or its process is gone: a
\* rejected link never blocks the ones behind it. (queue = run.catch)
ChainMovesOn ==
    \A r \in Requests : stage[r] = "queued" ~> stage[r] = "settled"
=============================================================================
