--------------------------- MODULE AnalysisReader ---------------------------
(***************************************************************************)
(* What a user sees of one analysis: the row of a match on the matches     *)
(* page, its button, its polls, and the handlers that answer them with     *)
(* GetAnalysis, four queries in no transaction.  The table behind them     *)
(* behaves as AnalysisPromise says.                                        *)
(* Any number of polls is under way at once, and answers overtake each     *)
(* other.  One page is open on the match and it is not reloaded.           *)
(***************************************************************************)
EXTENDS AnalysisPromise, Sequences, FiniteSets

CONSTANTS Key,        \* the match, at the parser version of the backend
          Calls,      \* bound on calls under way at once
          MaxErrors   \* bound on calls that fail

\* A poll or the first look, a press of the button, a URL from the form.
Kinds == {"get", "analyse", "form"}

ASSUME PageAssumption ==
    /\ Key \in Requests /\ MaxErrors \in Nat
    /\ None \notin Results \cup Views \cup Demos \cup Kinds

VARIABLES page,        \* analysis: the answer the row shows
          submitting,
          form,        \* showForm
          calls,       \* the calls of the API under way
          errors

table == <<status, asked, result, shown>>
vars  == <<status, asked, result, shown, page, submitting, form, calls, errors>>

\* Mutant: the status read after the results.
RowLast == <<"highlights", "players", "rounds", "row">>

\* GetAnalysis, one query after the other.
Queries == <<"row", "highlights", "players", "rounds">>

Parts == {"row", "highlights", "players", "rounds"}

\* The scoreboard and the rounds are known by the result they belong to.
Value == [row |-> status[Key], highlights |-> shown[Key],
          players |-> result[Key], rounds |-> result[Key]]

\* "status": "none", and empty lists: also what the page shows of no answer.
Blank == [q \in Parts |-> IF q = "row" THEN "none" ELSE None]

NoCall == [kind |-> None, url |-> None, read |-> 0, answer |-> Blank]

Send(g, kind, url) ==
    /\ calls[g] = NoCall
    /\ calls' = [calls EXCEPT ![g] = [NoCall EXCEPT !.kind = kind, !.url = url]]

Init ==
    /\ PInit
    /\ page = Blank
    /\ submitting = FALSE /\ form = FALSE
    /\ \E g \in Calls :
          calls = [h \in Calls |-> IF h = g THEN [NoCall EXCEPT !.kind = "get"] ELSE NoCall]
    /\ errors = 0

-----------------------------------------------------------------------------
(* The page.                                                               *)

Working == page["row"] \in {"pending", "running"}

\* Mutant: a row that is only queued is not polled.
PollRunning(g) ==
    /\ page["row"] = "running"
    /\ Send(g, "get", None)
    /\ UNCHANGED <<table, page, submitting, form, errors>>

\* The interval of a row that shows work in flight, whatever is under way.
Poll(g) ==
    /\ Working
    /\ Send(g, "get", None)
    /\ UNCHANGED <<table, page, submitting, form, errors>>

\* Analyse or Retry: the backend resolves the URL.
Press(g) ==
    /\ ~submitting
    /\ ~form /\ page["row"] \in {"none", "failed"}
    /\ \E u \in Demos : Send(g, "analyse", u)
    /\ submitting' = TRUE
    /\ UNCHANGED <<table, page, form, errors>>

\* The form is offered whatever the row shows by then.
Submit(g) ==
    /\ ~submitting
    /\ form
    /\ \E u \in Demos : Send(g, "form", u)
    /\ submitting' = TRUE
    /\ UNCHANGED <<table, page, form, errors>>

\* "Use a demo URL instead", and Cancel.
Toggle ==
    /\ \/ ~form /\ page["row"] = "failed"
       \/ form /\ ~submitting
    /\ form' = ~form
    /\ UNCHANGED <<table, page, submitting, calls, errors>>

\* The last answer to arrive is shown, whenever it was asked for.
Receive(g) ==
    /\ calls[g].read = Len(Queries)
    /\ page' = calls[g].answer
    /\ IF calls[g].kind = "get"
       THEN UNCHANGED <<submitting, form>>
       ELSE submitting' = FALSE /\ form' = FALSE
    /\ calls' = [calls EXCEPT ![g] = NoCall]
    /\ UNCHANGED <<table, errors>>

\* Mutant: what a failed call had read stays behind.
FailsHalfway(g) ==
    /\ calls[g] # NoCall
    /\ errors < MaxErrors /\ errors' = errors + 1
    /\ submitting' = (submitting /\ calls[g].kind = "get")
    /\ form' = (form \/ calls[g].kind = "analyse")
    /\ calls' = [calls EXCEPT ![g].kind = None]
    /\ UNCHANGED <<table, page>>

\* A failed poll is ignored; a failed lookup opens the form.
Fails(g) ==
    /\ calls[g] # NoCall
    /\ errors < MaxErrors /\ errors' = errors + 1
    /\ submitting' = (submitting /\ calls[g].kind = "get")
    /\ form' = (form \/ calls[g].kind = "analyse")
    /\ calls' = [calls EXCEPT ![g] = NoCall]
    /\ UNCHANGED <<table, page>>

-----------------------------------------------------------------------------
(* The handlers.                                                           *)

\* POST: enqueue, which does nothing if the analysis is under way or done.
Enqueue(g) ==
    /\ calls[g].kind \in {"analyse", "form"} /\ calls[g].url # None
    /\ IF status[Key] \in {"none", "failed"}
       THEN Ask(Key, calls[g].url)
       ELSE UNCHANGED table
    /\ calls' = [calls EXCEPT ![g].url = None]
    /\ UNCHANGED <<page, submitting, form, errors>>

\* The next query; with no row there is no other.
Read(g) ==
    LET c == calls[g]
        q == Queries[c.read + 1]
    IN /\ c.kind # None /\ c.url = None
       /\ c.read < Len(Queries)
       /\ calls' = [calls EXCEPT ![g] =
                      [c EXCEPT !.answer = [c.answer EXCEPT ![q] = Value[q]],
                                !.read = IF q = "row" /\ Value[q] = "none"
                                         THEN Len(Queries) ELSE c.read + 1]]
       /\ UNCHANGED <<table, page, submitting, form, errors>>

-----------------------------------------------------------------------------
(* The queue, as promised.                                                 *)

Finish == \/ \E e \in Results, d \in Detectors : Publish(Key, e, d)
          \/ GiveUp(Key)

Table(step) == step /\ UNCHANGED <<page, submitting, form, calls, errors>>

Next ==
    \/ \E g \in Calls : \/ Poll(g) \/ Press(g) \/ Submit(g)
                        \/ Receive(g) \/ Fails(g)
                        \/ Enqueue(g) \/ Read(g)
    \/ Toggle
    \/ Table(Start(Key)) \/ Table(Finish) \/ Table(Interrupt)
    \/ \E d \in Detectors : Table(Refresh(Key, d))

Spec == Init /\ [][Next]_vars

\* A browser fires its intervals and delivers answers, a server answers, and the
\* queue answers however it is interrupted: an assumption, which AskedIsAnswered
\* of AnalysisQueue bears out unless a store fault strikes or the avatars hang.
\* Users need not do anything.
FairSpec ==
    /\ Spec
    /\ WF_vars(\E g \in Calls : Poll(g))
    /\ \A g \in Calls : WF_vars(Receive(g) \/ Enqueue(g) \/ Read(g))
    /\ WF_vars(Table(Start(Key)))
    /\ SF_vars(Table(Finish))
-----------------------------------------------------------------------------
(* Safety.                                                                 *)

Sound(a) ==
    /\ \A q \in {"players", "rounds"} : a[q] \in {None, result[Key]}
    /\ a["highlights"] # None => a["highlights"].from = result[Key]
    /\ a["row"] = "done" => None \notin {a["highlights"], a["players"], a["rounds"]}

\* The queries of an answer see the table at four moments, and the row shows
\* answers in any order; yet a row that shows done shows all the results, and
\* results it shows under any status are those of this analysis: highlights,
\* scoreboard and rounds of one and the same parse.
ShownIsWhole == /\ Sound(page)
                /\ page["row"] = "done" => status[Key] = "done"
                /\ \A g \in Calls : calls[g].read = Len(Queries) => Sound(calls[g].answer)

\* Types; and a call that has ended left nothing behind.
TypeOK ==
    /\ DOMAIN page = Parts
    /\ submitting \in BOOLEAN /\ form \in BOOLEAN
    /\ \A g \in Calls : /\ calls[g].kind \in Kinds \cup {None}
                        /\ calls[g].url \in Demos \cup {None}
                        /\ calls[g].read \in 0..Len(Queries)
                        /\ calls[g] # NoCall => calls[g].kind # None
    /\ errors \in 0..MaxErrors

(* Liveness, under FairSpec.                                               *)

\* "the row polls itself while work is in flight": however polls fail, tear and
\* overtake each other, a row does not show work for ever.
WorkingSettles == Working ~> ~Working
=============================================================================
