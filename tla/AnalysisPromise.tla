-------------------------- MODULE AnalysisPromise --------------------------
(***************************************************************************)
(* What the analysis queue promises to whoever asks for a match: a request *)
(* is taken up, ends in a published result or in a failure that may be     *)
(* retried, and a published result is of the demo asked for, is never      *)
(* taken back, and is shown through highlights that only get newer.        *)
(* No process, worker, fault, crash or upgrade appears here.               *)
(***************************************************************************)
EXTENDS Naturals

CONSTANTS Requests,    \* what can be asked for: a match at a parser version
          Demos,       \* the URLs a request can name
          Parsers, Detectors,
          None

Results == [parser : Parsers, url : Demos]
Views   == [from : Results, det : Detectors]

VARIABLES status, asked, result, shown

pvars == <<status, asked, result, shown>>

PInit ==
    /\ status = [k \in Requests |-> "none"]
    /\ asked  = [k \in Requests |-> None]
    /\ result = [k \in Requests |-> None]
    /\ shown  = [k \in Requests |-> None]

Set(k, s) == status' = [status EXCEPT ![k] = s]

\* A first request, or the retry of a failed one; either names the demo anew.
Ask(k, u) ==
    /\ status[k] \in {"none", "failed"}
    /\ Set(k, "pending")
    /\ asked' = [asked EXCEPT ![k] = u]
    /\ UNCHANGED <<result, shown>>

Start(k) ==
    /\ status[k] = "pending"
    /\ Set(k, "running")
    /\ UNCHANGED <<asked, result, shown>>

\* Result and highlights appear together, with the status.
Publish(k, e, d) ==
    /\ status[k] = "running"
    /\ e.url = asked[k]
    /\ Set(k, "done")
    /\ result' = [result EXCEPT ![k] = e]
    /\ shown'  = [shown EXCEPT ![k] = [from |-> e, det |-> d]]
    /\ UNCHANGED asked

GiveUp(k) ==
    /\ status[k] = "running"
    /\ Set(k, "failed")
    /\ UNCHANGED <<asked, result, shown>>

\* Every attempt under way is put back in the queue.
Interrupt ==
    /\ status' = [k \in Requests |->
                    IF status[k] = "running" THEN "pending" ELSE status[k]]
    /\ UNCHANGED <<asked, result, shown>>

\* A newer detector looks at the same result again.
Refresh(k, d) ==
    /\ status[k] = "done"
    /\ d > shown[k].det
    /\ shown' = [shown EXCEPT ![k] = [from |-> result[k], det |-> d]]
    /\ UNCHANGED <<status, asked, result>>

PNext ==
    \/ \E k \in Requests :
          \/ \E u \in Demos : Ask(k, u)
          \/ Start(k)
          \/ \E e \in Results, d \in Detectors : Publish(k, e, d)
          \/ GiveUp(k)
          \/ \E d \in Detectors : Refresh(k, d)
    \/ Interrupt

PSpec == PInit /\ [][PNext]_pvars
=============================================================================
