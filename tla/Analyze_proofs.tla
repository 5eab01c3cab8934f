--------------------------- MODULE Analyze_proofs ---------------------------
(***************************************************************************)
(* Proofs about the analyze handlers and the sidecar they call, for any    *)
(* number of requests, any timers and any amount of trouble.               *)
(***************************************************************************)
EXTENDS Analyze, FiniteSetTheorems, TLAPS

-----------------------------------------------------------------------------
(* The inductive invariant.                                                *)

Queue == {chain[i] : i \in DOMAIN chain}

\* The chain has the queued requests, once each.
ChainIsExact ==
    /\ Queue = {r \in Requests : stage[r] = "queued"}
    /\ \A i, j \in DOMAIN chain : chain[i] = chain[j] => i = j

OneAsking == \A r, q \in Asking : r = q

\* A request that is on its way has no reply, one that was not made has nothing.
NoReplyYet ==
    \A r \in Requests :
        /\ stage[r] \in {"queued", "gap", "asked"} => reply[r] = None
        /\ outcome[r] = "uncalled" => reply[r] = None /\ stage[r] = "none"

\* What is left to sleep makes up for what is missing since the last request.
GapIsSlept ==
    \A r \in Requests : stage[r] = "gap" => timer[r] + sinceAsk >= Gap

\* Until a request times out, the coordinator only owes an answer to whoever
\* listens for it, and every reply is about the sharecode that was asked for.
RepliesAreOwn ==
    timeouts = {} =>
        /\ unanswered \subseteq Listening
        /\ \A r \in Requests :
              /\ reply[r] # None /\ reply[r].status = 200 => reply[r].url = CodeOf[r]
              /\ reply[r] # None /\ reply[r].status = 404 /\ trouble = 0 => CodeOf[r] \in Expired

IInv == /\ TypeOK /\ ChainIsExact /\ OneAsking /\ NoReplyYet /\ GapIsSlept
        /\ RepliesAreOwn /\ RightUntilTimeout

LEMMA InitIInv == Init => IInv
<1> SUFFICES ASSUME Init PROVE IInv
  OBVIOUS
<1>1. TypeOK
  <2>1. /\ sinceAsk \in 0..Gap /\ unanswered \subseteq Requests /\ timeouts \subseteq Requests
        /\ trouble \in 0..MaxTrouble
    BY TimesAssumption DEF Init
  <2>4. chain \in Seq(Requests)
    BY DEF Init
  <2>5. up \in BOOLEAN /\ ready \in BOOLEAN
    BY Zenon DEF Init
  <2>2. /\ stage \in [Requests -> Stages] /\ timer \in [Requests -> Nat]
        /\ reply \in [Requests -> Replies \cup {None}] /\ outcome \in [Requests -> Outcomes]
    BY DEF Init, Stages, Outcomes
  <2>3. wait \in [Requests -> 0..ClientTimeout]
    BY TimesAssumption DEF Init
  <2> QED
    BY <2>1, <2>2, <2>3, <2>4, <2>5 DEF TypeOK
<1>2. ChainIsExact /\ OneAsking /\ NoReplyYet /\ GapIsSlept
  BY DEF Init, ChainIsExact, Queue, OneAsking, Asking, NoReplyYet, GapIsSlept
<1>3. RepliesAreOwn
  BY DEF Init, RepliesAreOwn
<1>4. RightUntilTimeout
  BY NamesAssumption DEF Init, RightUntilTimeout
<1> QED
  BY <1>1, <1>2, <1>3, <1>4 DEF IInv

-----------------------------------------------------------------------------
(* The steps that GcSidecar takes in the composition.                      *)

\* A browser that leaves ends the call of Resolve.
Left(r) ==
    /\ outcome[r] = "calling"
    /\ outcome' = [outcome EXCEPT ![r] = "unavailable"]
    /\ UNCHANGED <<up, ready, sidecar, unanswered, reply, wait, trouble>>

Moves == \/ Next
         \/ \E r \in Requests : Left(r)
         \/ UNCHANGED vars

LEMMA ComposedMoves == [ANext]_avars => Moves
BY DEF ANext, avars, Moves, Next, LookUp, Leave, Left, HandlerStep, AnswerUnresolved, Enqueue,
       EnqueueError, NoLookUp, Analyse

-----------------------------------------------------------------------------
(* Steps of the client alone, and of Steam's session.                      *)

LEMMA ClientStep ==
  ASSUME IInv, NEW r \in Requests,
         ResolveRefused(r) \/ Left(r) \/ Receive(r) \/ ClientTimesOut(r)
  PROVE  IInv'
<1>1. PICK o \in Outcomes :
         /\ outcome' = [outcome EXCEPT ![r] = o]
         /\ o \notin {"uncalled", "calling"}
         /\ o \in Failures \/ (reply[r] # None /\ outcome[r] = "calling" /\ o = Meaning(reply[r]))
         /\ o = "noDemo" => reply[r] # None /\ reply[r].status = 404
         /\ o \in Codes => reply[r] # None /\ reply[r].status = 200 /\ o = reply[r].url
  <2>1. CASE ResolveRefused(r) \/ Left(r) \/ ClientTimesOut(r)
    BY <2>1, NamesAssumption DEF ResolveRefused, Left, ClientTimesOut, Outcomes, Failures
  <2>2. CASE Receive(r)
    <3>1. reply[r] # None /\ reply[r] \in Replies
      BY <2>2 DEF Receive, IInv, TypeOK
    <3>2. reply[r].status \in {200, 404, 503} /\ (reply[r].status = 200 => reply[r].url \in Codes)
      BY <3>1 DEF Replies
    <3>3. CASE reply[r].status = 200
      <4>1. Meaning(reply[r]) = reply[r].url
        BY <3>3 DEF Meaning
      <4>2. /\ reply[r].url \in Outcomes /\ reply[r].url \notin {"uncalled", "calling"}
            /\ reply[r].url # "noDemo"
        BY <3>2, <3>3, NamesAssumption DEF Outcomes, Failures
      <4> QED
        BY <2>2, <3>1, <3>3, <4>1, <4>2 DEF Receive, Failures
    <3>4. CASE reply[r].status = 404
      <4>1. Meaning(reply[r]) = "noDemo"
        BY <3>4 DEF Meaning
      <4>2. /\ "noDemo" \in Outcomes /\ "noDemo" \notin {"uncalled", "calling"}
            /\ "noDemo" \notin Codes
        BY <3>2, <3>4, NamesAssumption DEF Outcomes, Failures
      <4> QED
        BY <2>2, <3>1, <3>4, <4>1, <4>2 DEF Receive, Failures
    <3>5. CASE reply[r].status = 503
      <4>1. Meaning(reply[r]) = "unavailable"
        BY <3>5 DEF Meaning
      <4>2. /\ "unavailable" \in Outcomes /\ "unavailable" \notin {"uncalled", "calling"}
            /\ "unavailable" \notin Codes
        BY <3>2, <3>5, NamesAssumption DEF Outcomes, Failures
      <4> QED
        BY <2>2, <3>1, <3>5, <4>1, <4>2 DEF Receive, Failures
    <3> QED
      BY <3>2, <3>3, <3>4, <3>5
  <2> QED
    BY <2>1, <2>2
<1>2. UNCHANGED <<up, ready, chain, stage, sinceAsk, timer, unanswered, reply, wait, timeouts, trouble>>
  BY DEF ResolveRefused, Left, Receive, ClientTimesOut, sidecar
<1>3. TypeOK'
  BY <1>1, <1>2 DEF IInv, TypeOK
<1>4. ChainIsExact' /\ OneAsking' /\ GapIsSlept' /\ RepliesAreOwn'
  BY <1>2 DEF IInv, ChainIsExact, Queue, OneAsking, Asking, GapIsSlept, RepliesAreOwn, Listening
<1>5. NoReplyYet'
  BY <1>1, <1>2 DEF IInv, TypeOK, NoReplyYet
<1>6. RightUntilTimeout'
  <2> SUFFICES ASSUME timeouts = {}, NEW q \in Requests
               PROVE  /\ outcome'[q] \in Codes => outcome'[q] = CodeOf[q]
                      /\ outcome'[q] = "noDemo" /\ trouble = 0 => CodeOf[q] \in Expired
    BY <1>2 DEF RightUntilTimeout, Codes
  <2>1. CASE q = r
    BY <1>1, <2>1 DEF IInv, TypeOK, RepliesAreOwn
  <2>2. CASE q # r
    BY <1>1, <2>2 DEF IInv, TypeOK, RightUntilTimeout
  <2> QED
    BY <2>1, <2>2
<1> QED
  BY <1>3, <1>4, <1>5, <1>6 DEF IInv

\* A broken reply is no expired demo, but then there has been trouble.
LEMMA BrokenStep ==
  ASSUME IInv, NEW r \in Requests, ReceiveBroken(r)
  PROVE  IInv'
<1>1. /\ outcome[r] = "calling" /\ outcome' = [outcome EXCEPT ![r] = "noDemo"]
      /\ UNCHANGED <<up, ready, chain, stage, sinceAsk, timer, unanswered, reply, wait, timeouts>>
  BY DEF ReceiveBroken, sidecar
<1>2. trouble' \in 0..MaxTrouble /\ trouble' # 0
  BY TimesAssumption DEF ReceiveBroken, IInv, TypeOK
<1>3. "noDemo" \in Outcomes /\ "noDemo" # "uncalled" /\ "noDemo" \notin Codes
  BY NamesAssumption DEF Outcomes, Failures
<1>4. TypeOK'
  BY <1>1, <1>2, <1>3 DEF IInv, TypeOK
<1>5. ChainIsExact' /\ OneAsking' /\ GapIsSlept'
  BY <1>1 DEF IInv, ChainIsExact, Queue, OneAsking, Asking, GapIsSlept
<1>6. NoReplyYet'
  BY <1>1, <1>3 DEF IInv, TypeOK, NoReplyYet
<1>7. RepliesAreOwn'
  BY <1>1, <1>2 DEF IInv, RepliesAreOwn, Listening
<1>8. RightUntilTimeout'
  BY <1>1, <1>2, <1>3 DEF IInv, TypeOK, RightUntilTimeout, Codes
<1> QED
  BY <1>4, <1>5, <1>6, <1>7, <1>8 DEF IInv

LEMMA SessionStep ==
  ASSUME IInv, ConnectedToGC \/ DisconnectedFromGC \/ Restart \/ UNCHANGED vars
  PROVE  IInv'
<1>1. /\ UNCHANGED <<chain, stage, sinceAsk, timer, timeouts, reply, outcome, wait>>
      /\ unanswered' \subseteq unanswered
      /\ trouble' \in 0..MaxTrouble /\ (trouble' = 0 => trouble = 0)
  BY TimesAssumption
     DEF ConnectedToGC, DisconnectedFromGC, Restart, vars, sidecar, client, IInv, TypeOK
<1>2. up' \in BOOLEAN /\ ready' \in BOOLEAN
  BY Zenon DEF ConnectedToGC, DisconnectedFromGC, Restart, vars, IInv, TypeOK
<1>3. TypeOK'
  BY <1>1, <1>2 DEF IInv, TypeOK
<1>4. ChainIsExact' /\ OneAsking' /\ NoReplyYet' /\ GapIsSlept'
  BY <1>1 DEF IInv, ChainIsExact, Queue, OneAsking, Asking, NoReplyYet, GapIsSlept
<1>5. RepliesAreOwn'
  BY <1>1 DEF IInv, RepliesAreOwn, Listening
<1>6. RightUntilTimeout'
  BY <1>1 DEF IInv, RightUntilTimeout, Codes
<1> QED
  BY <1>3, <1>4, <1>5, <1>6 DEF IInv

-----------------------------------------------------------------------------
(* Steps of the sidecar.                                                   *)

\* A step that answers nobody keeps what was said of the replies.
LEMMA NothingSaid ==
  ASSUME IInv, UNCHANGED <<reply, outcome, timeouts>>, trouble' = 0 => trouble = 0,
         timeouts = {} => unanswered' \subseteq Listening'
  PROVE  RepliesAreOwn' /\ RightUntilTimeout'
<1>1. RepliesAreOwn'
  BY DEF IInv, RepliesAreOwn
<1>2. RightUntilTimeout'
  BY DEF IInv, RightUntilTimeout, Codes
<1> QED
  BY <1>1, <1>2

LEMMA TickStep == IInv /\ Tick => IInv'
<1> SUFFICES ASSUME IInv, Tick PROVE IInv'
  OBVIOUS
<1>1. /\ sinceAsk \in 0..Gap /\ timer \in [Requests -> Nat] /\ Gap \in Nat /\ ClientTimeout \in Nat
      /\ wait \in [Requests -> 0..ClientTimeout]
  BY TimesAssumption DEF IInv, TypeOK
<1>2. sinceAsk' \in 0..Gap /\ sinceAsk' = IF sinceAsk < Gap THEN sinceAsk + 1 ELSE sinceAsk
  BY <1>1 DEF Tick, Up
<1>3. /\ timer' \in [Requests -> Nat]
      /\ \A r \in Requests : timer'[r] = IF timer[r] > 0 THEN timer[r] - 1 ELSE 0
  BY <1>1 DEF Tick, Down
<1>4. wait' \in [Requests -> 0..ClientTimeout]
  BY <1>1 DEF Tick, Up
<1>5. UNCHANGED <<up, ready, chain, stage, unanswered, reply, outcome, timeouts, trouble>>
  BY DEF Tick
<1>6. TypeOK'
  BY <1>2, <1>3, <1>4, <1>5 DEF IInv, TypeOK
<1>7. ChainIsExact' /\ OneAsking' /\ NoReplyYet'
  BY <1>5 DEF IInv, ChainIsExact, Queue, OneAsking, Asking, NoReplyYet
<1>8. GapIsSlept'
  <2> SUFFICES ASSUME NEW r \in Requests, stage[r] = "gap" PROVE timer'[r] + sinceAsk' >= Gap
    BY <1>5 DEF GapIsSlept
  <2>1. timer[r] \in Nat /\ timer[r] + sinceAsk >= Gap
    BY <1>1 DEF IInv, GapIsSlept
  <2> QED
    BY <1>1, <1>2, <1>3, <2>1
<1>9. RepliesAreOwn' /\ RightUntilTimeout'
  <2>1. timeouts = {} => unanswered' \subseteq Listening'
    BY <1>5 DEF IInv, RepliesAreOwn, Listening
  <2> QED
    BY <1>5, <2>1, NothingSaid
<1> QED
  BY <1>6, <1>7, <1>8, <1>9 DEF IInv

LEMMA ResolveStep ==
  ASSUME IInv, NEW r \in Requests, Resolve(r)
  PROVE  IInv'
<1>1. /\ outcome[r] = "uncalled" /\ reply[r] = None /\ stage[r] = "none"
      /\ outcome' = [outcome EXCEPT ![r] = "calling"]
      /\ UNCHANGED <<up, ready, sinceAsk, timer, unanswered, wait, timeouts, trouble>>
  BY DEF Resolve, IInv, NoReplyYet
<1>2. outcome' \in [Requests -> Outcomes] /\ outcome'[r] = "calling"
  BY <1>1 DEF IInv, TypeOK, Outcomes
<1>3. \A q \in Requests \ {r} : outcome'[q] = outcome[q]
  BY <1>1 DEF IInv, TypeOK
<1>4. "calling" \notin Codes
  BY NamesAssumption
<1>5. CASE ready
  <2>1. /\ chain' = Append(chain, r) /\ stage' = [stage EXCEPT ![r] = "queued"]
        /\ UNCHANGED reply
    BY <1>5 DEF Resolve
  <2>2. TypeOK'
    <3>1. chain' \in Seq(Requests) /\ stage' \in [Requests -> Stages]
      BY <2>1 DEF IInv, TypeOK, Stages
    <3> QED
      BY <1>1, <1>2, <2>1, <3>1 DEF IInv, TypeOK
  <2>3. ChainIsExact'
    <3>1. chain \in Seq(Requests) /\ stage \in [Requests -> Stages]
      BY DEF IInv, TypeOK
    <3>2. /\ Len(chain) \in Nat /\ DOMAIN chain = 1..Len(chain) /\ DOMAIN chain' = 1..(Len(chain) + 1)
          /\ \A i \in 1..Len(chain) : chain'[i] = chain[i]
          /\ chain'[Len(chain) + 1] = r
      BY <2>1, <3>1
    <3>3. r \notin Queue
      BY <1>1 DEF IInv, ChainIsExact
    <3>4. Queue' = Queue \cup {r}
      BY <3>2 DEF Queue
    <3>5. {q \in Requests : stage'[q] = "queued"} = {q \in Requests : stage[q] = "queued"} \cup {r}
      BY <2>1, <3>1
    <3>6. \A i, j \in DOMAIN chain' : chain'[i] = chain'[j] => i = j
      BY <3>2, <3>3 DEF IInv, ChainIsExact, Queue
    <3> QED
      BY <3>4, <3>5, <3>6 DEF IInv, ChainIsExact
  <2>4. Asking' = Asking /\ Listening' = Listening
    BY <1>1, <2>1 DEF Asking, Listening, IInv, TypeOK
  <2>5. OneAsking' /\ GapIsSlept'
    BY <1>1, <2>1, <2>4 DEF IInv, TypeOK, OneAsking, GapIsSlept
  <2>6. NoReplyYet'
    BY <1>1, <1>2, <1>3, <2>1 DEF IInv, TypeOK, NoReplyYet
  <2>7. RepliesAreOwn'
    BY <1>1, <2>1, <2>4 DEF IInv, RepliesAreOwn
  <2>8. RightUntilTimeout'
    BY <1>1, <1>2, <1>3, <1>4 DEF IInv, RightUntilTimeout, Codes
  <2> QED
    BY <2>2, <2>3, <2>5, <2>6, <2>7, <2>8 DEF IInv
<1>6. CASE ~ready
  <2>1. /\ reply' = [reply EXCEPT ![r] = [status |-> 503, url |-> None]]
        /\ UNCHANGED <<chain, stage>>
    BY <1>6 DEF Resolve, Respond
  <2>2. [status |-> 503, url |-> None] \in Replies /\ None \notin Replies
    BY NamesAssumption DEF Replies
  <2>3. TypeOK'
    BY <1>1, <1>2, <2>1, <2>2 DEF IInv, TypeOK
  <2>4. ChainIsExact' /\ OneAsking' /\ GapIsSlept'
    BY <1>1, <2>1 DEF IInv, ChainIsExact, Queue, OneAsking, Asking, GapIsSlept
  <2>5. NoReplyYet'
    BY <1>1, <1>2, <1>3, <2>1 DEF IInv, TypeOK, NoReplyYet
  <2>6. RepliesAreOwn'
    BY <1>1, <2>1 DEF IInv, TypeOK, RepliesAreOwn, Listening
  <2>7. RightUntilTimeout'
    BY <1>1, <1>2, <1>3, <1>4 DEF IInv, RightUntilTimeout, Codes
  <2> QED
    BY <2>3, <2>4, <2>5, <2>6, <2>7 DEF IInv
<1> QED
  BY <1>5, <1>6

LEMMA StartTurnStep == IInv /\ StartTurn => IInv'
<1> SUFFICES ASSUME IInv, StartTurn PROVE IInv'
  OBVIOUS
<1> DEFINE r == Head(chain)
<1>1. /\ chain \in Seq(Requests) /\ chain # <<>> /\ stage \in [Requests -> Stages]
      /\ timer \in [Requests -> Nat] /\ sinceAsk \in 0..Gap /\ Gap \in Nat
  BY TimesAssumption DEF IInv, TypeOK, StartTurn
<1>2. /\ Len(chain) \in Nat \ {0} /\ DOMAIN chain = 1..Len(chain)
      /\ DOMAIN Tail(chain) = 1..(Len(chain) - 1)
      /\ \A i \in 1..(Len(chain) - 1) : Tail(chain)[i] = chain[i + 1]
      /\ r = chain[1] /\ r \in Requests /\ Tail(chain) \in Seq(Requests)
  BY <1>1
<1>3. stage[r] = "queued" /\ reply[r] = None
  BY <1>2 DEF IInv, ChainIsExact, Queue, NoReplyYet
<1>4. /\ stage' = [stage EXCEPT ![r] = "gap"] /\ timer' = [timer EXCEPT ![r] = Gap - sinceAsk]
      /\ chain' = Tail(chain) /\ Asking = {}
      /\ UNCHANGED <<up, ready, sinceAsk, unanswered, reply, outcome, wait, timeouts, trouble>>
  BY DEF StartTurn, Turn, client
<1> HIDE DEF r
<1>5. TypeOK'
  <2>1. stage' \in [Requests -> Stages]
    BY <1>1, <1>4 DEF Stages
  <2>2. timer' \in [Requests -> Nat]
    <3>1. Gap - sinceAsk \in Nat
      BY <1>1
    <3> QED
      BY <1>1, <1>4, <3>1
  <2> QED
    BY <1>2, <1>4, <2>1, <2>2 DEF IInv, TypeOK
<1>6. ChainIsExact'
  <2>1. \A i, j \in DOMAIN chain' : chain'[i] = chain'[j] => i = j
    <3>1. \A i, j \in DOMAIN chain : chain[i] = chain[j] => i = j
      BY DEF IInv, ChainIsExact
    <3> QED
      BY <1>2, <1>4, <3>1
  <2>2. Queue' = Queue \ {r}
    <3>1. \A i \in DOMAIN chain : chain[i] = r => i = 1
      BY <1>2 DEF IInv, ChainIsExact
    <3>2. \A i \in 1..(Len(chain) - 1) : chain'[i] \in Queue \ {r}
      BY <1>2, <1>4, <3>1 DEF Queue
    <3>3. \A i \in DOMAIN chain : chain[i] # r => i - 1 \in DOMAIN chain' /\ chain'[i - 1] = chain[i]
      BY <1>2, <1>4
    <3>4. Queue' \subseteq Queue \ {r}
      BY <1>2, <1>4, <3>2 DEF Queue
    <3>5. Queue \ {r} \subseteq Queue'
      BY <3>3 DEF Queue
    <3> QED
      BY <3>4, <3>5
  <2>3. {q \in Requests : stage'[q] = "queued"} = {q \in Requests : stage[q] = "queued"} \ {r}
    BY <1>1, <1>2, <1>4
  <2> QED
    BY <2>1, <2>2, <2>3 DEF IInv, ChainIsExact
<1>7. Asking' = {r} /\ Listening' = Listening
  BY <1>1, <1>2, <1>3, <1>4 DEF Asking, Listening
<1>8. OneAsking'
  BY <1>7 DEF OneAsking
<1>9. NoReplyYet'
  BY <1>1, <1>2, <1>3, <1>4 DEF IInv, NoReplyYet
<1>10. GapIsSlept'
  <2> SUFFICES ASSUME NEW q \in Requests, stage'[q] = "gap" PROVE timer'[q] + sinceAsk' >= Gap
    BY DEF GapIsSlept
  <2>1. q = r
    BY <1>7 DEF Asking
  <2> QED
    BY <1>1, <1>2, <1>4, <2>1
<1>11. RepliesAreOwn' /\ RightUntilTimeout'
  <2>1. timeouts = {} => unanswered' \subseteq Listening'
    BY <1>4, <1>7 DEF IInv, RepliesAreOwn
  <2> QED
    BY <1>4, <2>1, NothingSaid
<1> QED
  BY <1>5, <1>6, <1>8, <1>9, <1>10, <1>11 DEF IInv

LEMMA AskStep ==
  ASSUME IInv, NEW r \in Requests, Ask(r)
  PROVE  IInv'
<1>1. /\ stage \in [Requests -> Stages] /\ timer \in [Requests -> Nat]
      /\ RequestTimeout \in Nat /\ Gap \in Nat /\ unanswered \subseteq Requests
  BY TimesAssumption DEF IInv, TypeOK
<1>2. /\ stage[r] = "gap" /\ stage' = [stage EXCEPT ![r] = "asked"] /\ sinceAsk' = 0
      /\ timer' = [timer EXCEPT ![r] = RequestTimeout]
      /\ unanswered' \subseteq unanswered \cup {r}
      /\ UNCHANGED <<up, ready, chain, reply, outcome, wait, timeouts, trouble>>
  BY DEF Ask, client
<1>3. TypeOK'
  <2>1. stage' \in [Requests -> Stages] /\ timer' \in [Requests -> Nat]
    BY <1>1, <1>2 DEF Stages
  <2>2. sinceAsk' \in 0..Gap
    BY <1>1, <1>2
  <2>3. unanswered' \subseteq Requests
    BY <1>1, <1>2
  <2> QED
    BY <1>2, <2>1, <2>2, <2>3 DEF IInv, TypeOK
<1>4. {q \in Requests : stage'[q] = "queued"} = {q \in Requests : stage[q] = "queued"}
  BY <1>1, <1>2
<1>5. ChainIsExact'
  BY <1>2, <1>4 DEF IInv, ChainIsExact, Queue
<1>6. Asking' = Asking /\ r \in Asking /\ Listening' = Listening \cup {r}
  BY <1>1, <1>2 DEF Asking, Listening
<1>7. OneAsking'
  BY <1>6 DEF IInv, OneAsking
<1>8. NoReplyYet'
  BY <1>1, <1>2 DEF IInv, NoReplyYet
<1>9. GapIsSlept'
  <2>1. \A q \in Requests : stage'[q] # "gap"
    BY <1>1, <1>2, <1>6 DEF IInv, OneAsking, Asking
  <2> QED
    BY <2>1 DEF GapIsSlept
<1>10. RepliesAreOwn' /\ RightUntilTimeout'
  <2>1. timeouts = {} => unanswered' \subseteq Listening'
    BY <1>2, <1>6 DEF IInv, RepliesAreOwn
  <2> QED
    BY <1>2, <2>1, NothingSaid
<1> QED
  BY <1>3, <1>5, <1>7, <1>8, <1>9, <1>10 DEF IInv

\* Settling whoever was asking leaves the chain as it is.
LEMMA Settled ==
  ASSUME IInv, NEW S \in SUBSET Asking, Settle(S), chain' = chain
  PROVE  /\ stage' \in [Requests -> Stages]
         /\ ChainIsExact' /\ OneAsking'
         /\ \A q \in Requests : stage'[q] = IF q \in S THEN "settled" ELSE stage[q]
         /\ Listening' = Listening \ S
<1>1. stage \in [Requests -> Stages]
  BY DEF IInv, TypeOK
<1>2. \A q \in Requests : stage'[q] = IF q \in S THEN "settled" ELSE stage[q]
  BY DEF Settle
<1>3. stage' \in [Requests -> Stages]
  BY <1>1 DEF Settle, Stages
<1>4. {q \in Requests : stage'[q] = "queued"} = {q \in Requests : stage[q] = "queued"}
  BY <1>2 DEF Asking
<1>5. Asking' = Asking \ S /\ Listening' = Listening \ S
  BY <1>2 DEF Asking, Listening
<1> QED
  BY <1>2, <1>3, <1>4, <1>5 DEF IInv, ChainIsExact, Queue, OneAsking

\* The request is rejected: by a throw, or by its timer.
LEMMA RejectStep ==
  ASSUME IInv, NEW r \in Requests, AskThrows(r) \/ TimeOut(r)
  PROVE  IInv'
<1>1. /\ r \in Asking /\ Settle({r})
      /\ reply' = [reply EXCEPT ![r] = [status |-> 404, url |-> None]]
      /\ UNCHANGED <<up, ready, chain, timer, unanswered, outcome, wait>>
  BY DEF AskThrows, TimeOut, Unsettled, Asking, Respond, client
<1>2. /\ stage' \in [Requests -> Stages] /\ ChainIsExact' /\ OneAsking'
      /\ \A q \in Requests : stage'[q] = IF q \in {r} THEN "settled" ELSE stage[q]
      /\ Listening' = Listening \ {r}
  <2>1. {r} \in SUBSET Asking
    BY <1>1
  <2> QED
    BY <1>1, <2>1, Settled
<1>3. [status |-> 404, url |-> None] \in Replies /\ None \notin Replies
  BY NamesAssumption DEF Replies
<1>4. /\ sinceAsk' \in 0..Gap /\ timeouts' \subseteq Requests /\ trouble' \in 0..MaxTrouble
      /\ trouble \in 0..MaxTrouble /\ timeouts \subseteq timeouts'
      /\ trouble' = 0 => trouble = 0
  BY TimesAssumption DEF AskThrows, TimeOut, IInv, TypeOK
<1>5. TypeOK'
  BY <1>1, <1>2, <1>3, <1>4 DEF IInv, TypeOK
<1>6. NoReplyYet'
  <2> SUFFICES ASSUME NEW q \in Requests
               PROVE /\ stage'[q] \in {"queued", "gap", "asked"} => reply'[q] = None
                     /\ outcome'[q] = "uncalled" => reply'[q] = None /\ stage'[q] = "none"
    BY DEF NoReplyYet
  <2>1. CASE q = r
    <3>1. stage[r] # "none"
      BY <1>1 DEF Asking
    <3> QED
      BY <1>1, <1>2, <2>1, <3>1 DEF IInv, NoReplyYet
  <2>2. CASE q # r
    BY <1>1, <1>2, <2>2 DEF IInv, TypeOK, NoReplyYet
  <2> QED
    BY <2>1, <2>2
<1>7. GapIsSlept'
  <2>1. \A q \in Requests : stage'[q] # "gap"
    BY <1>1, <1>2 DEF IInv, OneAsking, Asking
  <2> QED
    BY <2>1 DEF GapIsSlept
<1>8. RepliesAreOwn' /\ RightUntilTimeout'
  <2>1. CASE AskThrows(r)
    <3>1. timeouts' = timeouts /\ trouble' # 0 /\ stage[r] = "gap"
      BY <2>1 DEF AskThrows, IInv, TypeOK
    <3>2. Listening' = Listening
      BY <1>2, <3>1 DEF Listening
    <3>3. RepliesAreOwn'
      BY <1>1, <3>1, <3>2 DEF IInv, TypeOK, RepliesAreOwn
    <3> QED
      BY <1>1, <3>1, <3>3 DEF IInv, RightUntilTimeout, Codes
  <2>2. CASE TimeOut(r)
    BY <2>2 DEF TimeOut, RepliesAreOwn, RightUntilTimeout
  <2> QED
    BY <2>1, <2>2
<1> QED
  BY <1>2, <1>5, <1>6, <1>7, <1>8 DEF IInv

LEMMA MatchListStep ==
  ASSUME IInv, NEW a \in Requests, MatchList(a)
  PROVE  IInv'
<1>1. /\ a \in unanswered /\ unanswered' = unanswered \ {a} /\ Settle(Listening)
      /\ reply' = [r \in Requests |-> IF r \in Listening THEN AnswerTo(a) ELSE reply[r]]
      /\ UNCHANGED <<up, ready, chain, sinceAsk, timer, outcome, wait, timeouts, trouble>>
  BY DEF MatchList, client
<1>2. /\ stage' \in [Requests -> Stages] /\ ChainIsExact' /\ OneAsking'
      /\ \A q \in Requests : stage'[q] = IF q \in Listening THEN "settled" ELSE stage[q]
      /\ Listening' = {}
  <2>1. Listening \in SUBSET Asking
    BY DEF Listening, Asking
  <2> QED
    BY <1>1, <2>1, Settled
<1>3. /\ AnswerTo(a) \in Replies /\ None \notin Replies /\ AnswerTo(a).status \in {200, 404}
      /\ AnswerTo(a).status = 200 => AnswerTo(a).url = CodeOf[a]
      /\ AnswerTo(a).status = 404 => CodeOf[a] \in Expired
  BY NamesAssumption DEF AnswerTo, Replies, Codes
<1>4. TypeOK'
  BY <1>1, <1>2, <1>3 DEF IInv, TypeOK
<1>5. NoReplyYet'
  <2> SUFFICES ASSUME NEW q \in Requests
               PROVE /\ stage'[q] \in {"queued", "gap", "asked"} => reply'[q] = None
                     /\ outcome'[q] = "uncalled" => reply'[q] = None /\ stage'[q] = "none"
    BY DEF NoReplyYet
  <2>1. CASE q \in Listening
    BY <1>1, <1>2, <2>1 DEF IInv, NoReplyYet, Listening
  <2>2. CASE q \notin Listening
    BY <1>1, <1>2, <2>2 DEF IInv, NoReplyYet
  <2> QED
    BY <2>1, <2>2
<1>6. GapIsSlept'
  BY <1>1, <1>2 DEF IInv, GapIsSlept
<1>7. RepliesAreOwn'
  <2> SUFFICES ASSUME timeouts = {} PROVE RepliesAreOwn'
    BY <1>1 DEF RepliesAreOwn
  <2>1. a \in Listening /\ \A q \in Listening : q = a
    BY <1>1 DEF IInv, RepliesAreOwn, OneAsking, Asking, Listening
  <2>2. unanswered' = {}
    BY <1>1, <2>1 DEF IInv, RepliesAreOwn
  <2> QED
    BY <1>1, <1>3, <2>1, <2>2 DEF IInv, RepliesAreOwn
<1>8. RightUntilTimeout'
  BY <1>1 DEF IInv, RightUntilTimeout, Codes
<1> QED
  BY <1>2, <1>4, <1>5, <1>6, <1>7, <1>8 DEF IInv

\* The process is gone with all it knew; the callers find out.
LEMMA ExitStep == IInv /\ Exit => IInv'
<1> SUFFICES ASSUME IInv, Exit PROVE IInv'
  OBVIOUS
<1>1. /\ chain' = <<>> /\ unanswered' = {} /\ sinceAsk' = Gap
      /\ timer' = [r \in Requests |-> 0]
      /\ stage' = [r \in Requests |-> IF stage[r] = "none" THEN "none" ELSE "settled"]
      /\ outcome' = [r \in Requests |-> IF outcome[r] = "calling" /\ reply[r] = None
                                        THEN "unavailable" ELSE outcome[r]]
      /\ UNCHANGED <<reply, wait, timeouts>>
  BY DEF Exit
<1>2. trouble' \in 0..MaxTrouble /\ trouble' # 0
  BY TimesAssumption DEF Exit, IInv, TypeOK
<1>3. up' \in BOOLEAN /\ ready' \in BOOLEAN
  BY Zenon DEF Exit
<1>4. TypeOK'
  <2>1. chain' \in Seq(Requests) /\ stage' \in [Requests -> Stages]
    BY <1>1 DEF Stages
  <2>2. sinceAsk' \in 0..Gap /\ timer' \in [Requests -> Nat]
    BY <1>1, TimesAssumption
  <2>3. outcome' \in [Requests -> Outcomes]
    BY <1>1 DEF IInv, TypeOK, Outcomes, Failures
  <2> QED
    BY <1>1, <1>2, <1>3, <2>1, <2>2, <2>3 DEF IInv, TypeOK
<1>5. \A r \in Requests : stage'[r] \in {"none", "settled"} /\ (stage[r] = "none" => stage'[r] = "none")
  BY <1>1
<1>6. ChainIsExact'
  BY <1>1, <1>5 DEF ChainIsExact, Queue
<1>7. OneAsking' /\ GapIsSlept'
  BY <1>5 DEF OneAsking, Asking, GapIsSlept
<1>8. NoReplyYet'
  BY <1>1, <1>5 DEF IInv, NoReplyYet
<1>9. RepliesAreOwn'
  BY <1>1, <1>2 DEF IInv, RepliesAreOwn
<1>10. RightUntilTimeout'
  <2>1. "unavailable" \notin Codes
    BY NamesAssumption DEF Failures
  <2> QED
    BY <1>1, <1>2, <2>1 DEF IInv, RightUntilTimeout, Codes
<1> QED
  BY <1>4, <1>6, <1>7, <1>8, <1>9, <1>10 DEF IInv

LEMMA MovesIInv == IInv /\ Moves => IInv'
BY ClientStep, BrokenStep, SessionStep, TickStep, ResolveStep, StartTurnStep, AskStep, RejectStep,
   MatchListStep, ExitStep
   DEF Moves, Next, Going, BackendStep, SidecarStep, SteamStep

-----------------------------------------------------------------------------
(* The theorems.                                                           *)

LEMMA AInitIInv == AInit => IInv
BY InitIInv DEF AInit

LEMMA ANextIInv == IInv /\ [ANext]_avars => IInv'
BY ComposedMoves, MovesIInv

\* The inductive invariant of the sidecar and its callers holds in every
\* reachable state of the composition with the handlers and the queue.
THEOREM Invariance == ASpec => []IInv
<1>1. AInit => IInv
  BY AInitIInv
<1>2. IInv /\ [ANext]_avars => IInv'
  BY ANextIInv
<1> QED
  BY <1>1, <1>2, PTL DEF ASpec

\* What the handlers add to it: the table asks for demos of their own.
Queued ==
    /\ resolver \in BOOLEAN /\ answered \subseteq Requests
    /\ status \in [Codes -> {"none", "pending", "running", "done", "failed"}]
    /\ asked \in [Codes -> Codes \cup {Manual, None}]
    /\ result \in [Codes -> Table!Results \cup {None}]
    /\ QueuedIsOwnUntilTimeout

LEMMA CodeOfRequest == \A r \in Requests : CodeOf[r] \in Codes
BY DEF Codes

LEMMA QueuedStep == IInv /\ Queued /\ [ANext]_avars => Queued'
<1> SUFFICES ASSUME IInv, Queued, [ANext]_avars PROVE Queued'
  OBVIOUS
<1>1. timeouts \subseteq timeouts'
  BY ComposedMoves DEF Moves, vars, sidecar, client, Next, Going, BackendStep, SidecarStep,
     SteamStep, Resolve, ResolveRefused, Left, Receive, ReceiveBroken, ClientTimesOut, StartTurn, Ask, AskThrows,
     TimeOut, MatchList, ConnectedToGC, DisconnectedFromGC, Exit, Restart, Tick
<1>2. resolver' \in BOOLEAN /\ answered' \subseteq Requests
  <2>1. resolver' = resolver
    BY DEF ANext, avars, handler, LookUp, NoLookUp, Leave, HandlerStep, AnswerUnresolved, Enqueue,
       EnqueueError, Answer, Analyse
  <2>2. answered' \subseteq Requests
    BY DEF Queued, ANext, avars, handler, LookUp, NoLookUp, Leave, HandlerStep, AnswerUnresolved,
       Enqueue, EnqueueError, Answer, Analyse
  <2> QED
    BY Zenon, <2>1, <2>2 DEF Queued
<1>3. CASE UNCHANGED table
  BY <1>1, <1>2, <1>3 DEF Queued, table, QueuedIsOwnUntilTimeout, Codes
<1>4. ASSUME Analyse, NEW c \in Codes,
             \/ Table!Start(c) \/ Table!GiveUp(c)
             \/ \E e \in Table!Results : Table!Publish(c, e, 1)
      PROVE  Queued'
  <2>1. /\ status' \in [Codes -> {"none", "pending", "running", "done", "failed"}]
        /\ asked' = asked /\ timeouts' = timeouts
    BY <1>4 DEF Queued, Analyse, vars, sidecar, Table!Start, Table!GiveUp, Table!Publish, Table!Set
  <2>2. CASE Table!Start(c) \/ Table!GiveUp(c)
    <3>1. /\ result' = result /\ status[c] # "none" /\ status'[c] # "done"
          /\ \A d \in Codes \ {c} : status'[d] = status[d]
      BY <2>2 DEF Queued, Table!Start, Table!GiveUp, Table!Set
    <3> QED
      BY <1>2, <2>1, <3>1 DEF Queued, QueuedIsOwnUntilTimeout, Codes
  <2>3. ASSUME NEW e \in Table!Results, Table!Publish(c, e, 1) PROVE Queued'
    <3>1. /\ status[c] = "running" /\ e.url = asked[c]
          /\ result' = [result EXCEPT ![c] = e]
          /\ \A d \in Codes \ {c} : status'[d] = status[d]
      BY <2>3 DEF Queued, Table!Publish, Table!Set
    <3>2. result' \in [Codes -> Table!Results \cup {None}]
      BY <3>1 DEF Queued
    <3>3. result'[c] = e /\ \A d \in Codes \ {c} : result'[d] = result[d]
      BY <3>1 DEF Queued
    <3> QED
      BY <1>2, <2>1, <3>1, <3>2, <3>3 DEF Queued, QueuedIsOwnUntilTimeout, Codes
  <2> QED
    BY <1>4, <2>2, <2>3
<1>6. ASSUME Analyse, Table!Interrupt PROVE Queued'
  <2>1. /\ UNCHANGED <<asked, result>> /\ timeouts' = timeouts
        /\ \A c \in Codes : status'[c] = IF status[c] = "running" THEN "pending" ELSE status[c]
    BY <1>6 DEF Queued, Analyse, Table!Interrupt, vars
  <2>2. status' \in [Codes -> {"none", "pending", "running", "done", "failed"}]
    BY <1>6 DEF Queued, Table!Interrupt
  <2> QED
    BY <1>2, <2>1, <2>2 DEF Queued, QueuedIsOwnUntilTimeout, Codes
<1>5. ASSUME NEW r \in Requests, Enqueue(r), Table!Ask(CodeOf[r], DemoUrl(r)) PROVE Queued'
  <2>1. /\ status' = [status EXCEPT ![CodeOf[r]] = "pending"]
        /\ asked' = [asked EXCEPT ![CodeOf[r]] = DemoUrl(r)] /\ result' = result
    BY <1>5 DEF Table!Ask, Table!Set
  <2>2. DemoUrl(r) \in Codes \cup {Manual} /\ timeouts' = timeouts
    BY <1>5 DEF Enqueue, HasUrl, vars
  <2>3. timeouts = {} => DemoUrl(r) \in {CodeOf[r], Manual}
    BY <2>2 DEF DemoUrl, IInv, RightUntilTimeout
  <2>4. /\ status' \in [Codes -> {"none", "pending", "running", "done", "failed"}]
        /\ asked' \in [Codes -> Codes \cup {Manual, None}]
    BY <2>1, <2>2, CodeOfRequest DEF Queued
  <2>5. \A c \in Codes : /\ asked'[c] = IF c = CodeOf[r] THEN DemoUrl(r) ELSE asked[c]
                         /\ status'[c] = IF c = CodeOf[r] THEN "pending" ELSE status[c]
    BY <2>1 DEF Queued
  <2>6. QueuedIsOwnUntilTimeout'
    BY <2>1, <2>2, <2>3, <2>5 DEF Queued, QueuedIsOwnUntilTimeout, Codes
  <2> QED
    BY <1>2, <2>1, <2>4, <2>6 DEF Queued, Codes
<1> QED
  BY <1>3, <1>4, <1>5, <1>6 DEF ANext, avars, LookUp, NoLookUp, Leave, HandlerStep,
     AnswerUnresolved, Enqueue, EnqueueError, Analyse

\* Whatever the coordinator, the browsers and the worker do, before the first
\* timeout no match is queued with the demo of another, nor analysed from one.
\* (the analyze handler)
THEOREM QueuedIsOwn == ASpec => []QueuedIsOwnUntilTimeout
<1>1. AInit => Queued
  BY DEF AInit, Queued, Table!PInit, QueuedIsOwnUntilTimeout
<1>2. IInv /\ Queued /\ [ANext]_avars => Queued'
  BY QueuedStep
<1>3. Queued => QueuedIsOwnUntilTimeout
  BY DEF Queued
<1> QED
  BY <1>1, <1>2, <1>3, Invariance, PTL DEF ASpec

\* Every variable of the composition keeps its type.
THEOREM TypeCorrect == ASpec => []ATypeOK
<1>1. AInit => Queued
  BY DEF AInit, Queued, Table!PInit, QueuedIsOwnUntilTimeout
<1>2. IInv /\ Queued /\ [ANext]_avars => Queued'
  BY QueuedStep
<1>3. IInv /\ Queued => ATypeOK
  BY DEF IInv, Queued, ATypeOK
<1> QED
  BY <1>1, <1>2, <1>3, Invariance, PTL DEF ASpec

\* The promise chain of the sidecar: however many requests pile up, time out,
\* throw or are left by their callers, one at a time talks to the coordinator.
THEOREM ChainStaysSerial == ASpec => []ChainIsSerial
<1>1. IInv => ChainIsSerial
  <2> SUFFICES ASSUME IInv PROVE Cardinality(Asking) <= 1
    BY DEF IInv, ChainIsExact, Queue, ChainIsSerial
  <2>1. CASE Asking = {}
    BY <2>1, FS_EmptySet
  <2>2. CASE Asking # {}
    <3>1. PICK r : r \in Asking
      BY <2>2
    <3>2. Asking = {r}
      BY <3>1 DEF IInv, OneAsking
    <3>3. Cardinality({r}) = 1
      BY Zenon, FS_Singleton
    <3>4. Cardinality(Asking) = 1
      BY Zenon, <3>2, <3>3
    <3> QED
      BY <3>4
  <2> QED
    BY <2>1, <2>2
<1> QED
  BY <1>1, Invariance, PTL

\* The comment's claim in its true form: serialised requests are told apart, for
\* as long as none of them has timed out. (index.js:36-38)
THEOREM AnswersAreRight == ASpec => []RightUntilTimeout
<1>1. IInv => RightUntilTimeout
  BY DEF IInv
<1> QED
  BY <1>1, Invariance, PTL

\* MIN_REQUEST_GAP_MS is kept between any two requests to the coordinator.
THEOREM GapIsKept == ASpec => AskKeepsGap
<1>1. IInv /\ [ANext]_avars =>
        [\A r \in Requests : stage[r] = "gap" /\ stage'[r] = "asked" => sinceAsk = Gap]_vars
  <2> SUFFICES ASSUME IInv, [ANext]_avars, NEW r \in Requests, stage[r] = "gap", stage'[r] = "asked"
               PROVE  sinceAsk = Gap
    OBVIOUS
  <2>1. Moves
    BY ComposedMoves
  <2>2. timer[r] = 0
    <3>1. \A q \in Requests : Resolve(q) \/ AskThrows(q) \/ TimeOut(q) \/ MatchList(q) => stage'[r] # "asked"
      BY DEF Resolve, AskThrows, TimeOut, MatchList, Settle, IInv, TypeOK, NoReplyYet
    <3>2. StartTurn \/ Exit => stage'[r] # "asked"
      BY DEF StartTurn, Exit, IInv, TypeOK
    <3>3. stage' # stage
      OBVIOUS
    <3>4. ASSUME NEW q \in Requests, Ask(q) PROVE timer[r] = 0
      BY <3>4 DEF Ask, IInv, TypeOK
    <3>5. UNCHANGED vars \/ Restart \/ Tick \/ ConnectedToGC \/ DisconnectedFromGC => stage' = stage
      <4>1. UNCHANGED vars => stage' = stage
        BY DEF vars
      <4>2. Restart \/ ConnectedToGC \/ DisconnectedFromGC => stage' = stage
        BY DEF sidecar, ConnectedToGC, DisconnectedFromGC, Restart
      <4>3. Tick => stage' = stage
        BY DEF Tick
      <4> QED
        BY <4>1, <4>2, <4>3
    <3>6. \A q \in Requests :
             ResolveRefused(q) \/ Left(q) \/ BackendStep(q) \/ ReceiveBroken(q) => stage' = stage
      BY DEF sidecar, BackendStep, ResolveRefused, Left, Receive, ClientTimesOut, ReceiveBroken
    <3>7. PICK q \in Requests : Ask(q)
      BY <2>1, <3>1, <3>2, <3>3, <3>5, <3>6 DEF Moves, Next, Going, SidecarStep, SteamStep
    <3> QED
      BY <3>4, <3>7
  <2>3. sinceAsk \in 0..Gap /\ Gap \in Nat /\ timer[r] + sinceAsk >= Gap
    BY TimesAssumption DEF IInv, TypeOK, GapIsSlept
  <2> QED
    BY <2>2, <2>3
<1> QED
  BY <1>1, Invariance, PTL DEF ASpec, AskKeepsGap

\* A reply of the sidecar, and what Resolve returned, are never replaced: a late
\* answer finds nobody, or somebody else, but never the one that was answered.
THEOREM AnswersAreFinal == ASpec => AnsweredOnce
<1> DEFINE Final(r) == /\ reply[r] # None => reply'[r] = reply[r]
                       /\ outcome[r] \notin {"uncalled", "calling"} => outcome'[r] = outcome[r]
<1>1. IInv /\ [ANext]_avars => [\A r \in Requests : Final(r)]_vars
  <2> SUFFICES ASSUME IInv, [ANext]_avars, NEW r \in Requests PROVE Final(r)
    OBVIOUS
  <2> USE DEF IInv, TypeOK
  <2>1. Moves
    BY ComposedMoves
  <2>2. \A q \in Requests : Resolve(q) => Final(r)
    BY DEF Resolve, Respond, NoReplyYet
  <2>3. \A q \in Requests :
           ResolveRefused(q) \/ Left(q) \/ BackendStep(q) \/ ReceiveBroken(q) => Final(r)
    BY DEF BackendStep, ResolveRefused, Left, Receive, ClientTimesOut, ReceiveBroken
  <2>4. \A q \in Requests : AskThrows(q) \/ TimeOut(q) => Final(r)
    BY DEF AskThrows, TimeOut, Unsettled, Respond, NoReplyYet, client
  <2>5. \A q \in Requests : MatchList(q) => Final(r)
    BY DEF MatchList, Listening, NoReplyYet, client
  <2>6. (StartTurn \/ \E q \in Requests : Ask(q)) => Final(r)
    BY DEF StartTurn, Ask, client
  <2>7. Exit => Final(r)
    BY DEF Exit
  <2>8. ConnectedToGC \/ DisconnectedFromGC \/ Restart => Final(r)
    BY DEF ConnectedToGC, DisconnectedFromGC, Restart, client
  <2>9. UNCHANGED vars \/ Tick => Final(r)
    BY DEF vars, Tick
  <2> HIDE DEF Final, IInv, TypeOK
  <2> QED
    BY <2>1, <2>2, <2>3, <2>4, <2>5, <2>6, <2>7, <2>8, <2>9
       DEF Moves, Next, Going, SidecarStep, SteamStep
<1> QED
  BY <1>1, Invariance, PTL DEF ASpec, AnsweredOnce
=============================================================================
