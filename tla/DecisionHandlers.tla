--------------------------- MODULE DecisionHandlers ---------------------------
(***************************************************************************)
(* The dashboard's routes in the orchestrator                              *)
(* (services/dita-orchestrator/handler/decisions/handler.go): requests     *)
(* that run at the same time over one store and one decision worker.       *)
(*                                                                         *)
(* A method of the store runs under its mutex and is one step here: its    *)
(* append either fails, and memory stays as it was, or succeeds            *)
(* (DecisionStore says what that is worth after a crash).  A handler makes *)
(* one step for each method it calls, and one for each answer it waits     *)
(* for.  One template name stands for all of them.                         *)
(***************************************************************************)
EXTENDS Naturals, Sequences, FiniteSets, SequencesExt

CONSTANTS
    Requests,       \* the requests made of the server; a Decide's names its prediction
    Replayed,       \* the predictions the store was opened with, in order; version 1 all
    Unreadable,     \* those of Replayed whose answers today's rules refuse
    Answers, NoAnswer,
    OptionsOf,      \* OptionsOf[v]: the answers version v allows
    Unusable,       \* the versions of old that CheckQuestions finds faults in
    AtStart,        \* the versions the store was opened with
    Limit,          \* the page size of Recent
    NoRequest

MaxVersion == AtStart + Cardinality(Requests)
Versions == 1..MaxVersion
Stored == ToSet(Replayed)
Predictions == Requests \cup Stored

ASSUME HandlersAssumption ==
    /\ Requests \cap Stored = {} /\ NoRequest \notin Requests
    /\ IsFiniteSet(Requests)
    /\ Replayed \in Seq(Stored) /\ IsInjective(Replayed)
    /\ Unreadable \subseteq Stored
    /\ NoAnswer \notin Answers
    /\ OptionsOf \in [Versions -> SUBSET Answers]
    /\ Unusable \subseteq 1..AtStart
    /\ AtStart \in Nat \ {0} /\ Limit \in Nat \ {0}

VARIABLES
    op,         \* what each request asks
    pc,         \* where its handler is; "new" before it arrives, "done" after its answer
    status,     \* the status it was answered with
    page,       \* what the answer shows: records, or the retirement of a Retire
    todo,       \* the ids Recent has still to read
    before,     \* history: the requests answered before this one arrived
    versions,   \* len(s.templates[name])
    retiredBy,  \* s.retirements: the request whose retirement a version has
    order,      \* s.order
    corrected,  \* s.corrections
    outcomes,   \* h.outcomes
    scoring     \* the request that holds the scoring slot

requests == <<op, pc, status, page, todo, before>>
store == <<versions, retiredBy, order, corrected>>
vars == <<requests, store, outcomes, scoring>>

Ops ==
    [do : {"decide", "retire"}, version : 1..(AtStart + 1)]
    \cup [do : {"correct"}, id : Predictions, answer : Answers]
    \cup [do : {"save", "recent", "evaluate"}]
NoOp == [do |-> "nothing"]

\* The reasons of inferences.classify, and the worker's own refusals.
Unreached == {"timeout", "not_running", "busy", "client_gone", "unreachable"}
Refusals == {"no_model", "busy", "schema_invalid", "engine_refused", "engine_error"}
Outcomes == Unreached \cup Refusals \cup {"ok", "retired", "bad_reply"}

Init ==
    /\ op = [r \in Requests |-> NoOp]
    /\ pc = [r \in Requests |-> "new"]
    /\ status = [r \in Requests |-> 0]
    /\ page = [r \in Requests |-> <<>>]
    /\ todo = [r \in Requests |-> <<>>]
    /\ before = [r \in Requests |-> {}]
    /\ versions = AtStart
    /\ retiredBy = [v \in Versions |-> NoRequest]
    /\ order = Replayed
    /\ corrected = [i \in Predictions |-> NoAnswer]
    /\ outcomes = [o \in Outcomes |-> 0]
    /\ scoring = NoRequest

-------------------------------------------------------------------------------
At(r, do, label) == pc[r] = label /\ op[r].do = do

Goto(r, label) ==
    /\ pc' = [pc EXCEPT ![r] = label]
    /\ UNCHANGED <<op, status, before>>

Respond(r, code) ==
    /\ pc' = [pc EXCEPT ![r] = "done"]
    /\ status' = [status EXCEPT ![r] = code]
    /\ UNCHANGED <<op, before>>

\* One line of an answer.
Shown(id, answer) == [id |-> id, answer |-> answer]

Count(o) == outcomes' = [outcomes EXCEPT ![o] = @ + 1]

Arrive(r, o) ==
    /\ pc[r] = "new"
    /\ op' = [op EXCEPT ![r] = o]
    /\ pc' = [pc EXCEPT ![r] = "arrived"]
    /\ before' = [before EXCEPT ![r] = {q \in Requests : pc[q] = "done"}]
    /\ UNCHANGED <<status, page, todo, store, outcomes, scoring>>

\* decode refuses the body, or the rules of a draft or of a path do: nothing is counted.
BadBody(r) ==
    /\ pc[r] = "arrived" /\ op[r].do \in {"decide", "retire", "correct", "save", "recent"}
    /\ Respond(r, 400)
    /\ UNCHANGED <<page, todo, store, outcomes, scoring>>

IsRetired(v) == retiredBy[v] # NoRequest
Known(i) == Contains(order, i)
VersionOf(i) == IF i \in Stored THEN 1 ELSE op[i].version

\* The checks of Retire and Correct before they write.
MayRetire(r) ==
    /\ At(r, "retire", "arrived")
    /\ op[r].version <= versions /\ ~IsRetired(op[r].version)

MayCorrect(r) ==
    /\ At(r, "correct", "arrived")
    /\ Known(op[r].id) /\ corrected[op[r].id] = NoAnswer
    /\ op[r].id \notin Unreadable
    /\ op[r].answer \in OptionsOf[VersionOf(op[r].id)]

\* The append of a write fails: h.fail, and memory is as it was.
StoreFails(r) ==
    /\ pc[r] = "writing" \/ At(r, "save", "arrived") \/ MayRetire(r) \/ MayCorrect(r)
    /\ Respond(r, 500)
    /\ scoring' = IF scoring = r THEN NoRequest ELSE scoring
    /\ UNCHANGED <<page, todo, store, outcomes>>

-------------------------------------------------------------------------------
(***************************************************************************)
(* Decide.                                                                 *)
(***************************************************************************)
TextRefused(r) ==
    /\ At(r, "decide", "arrived")
    /\ Count("schema_invalid")
    /\ Respond(r, 400)
    /\ UNCHANGED <<page, todo, store, scoring>>

NoSuchVersion(r) ==
    /\ At(r, "decide", "arrived")
    /\ op[r].version > versions
    /\ Respond(r, 404)
    /\ UNCHANGED <<page, todo, store, outcomes, scoring>>

RetiredVersion(r) ==
    /\ At(r, "decide", "arrived")
    /\ op[r].version <= versions /\ IsRetired(op[r].version)
    /\ Count("retired")
    /\ Respond(r, 410)
    /\ UNCHANGED <<page, todo, store, scoring>>

UnusableVersion(r) ==
    /\ At(r, "decide", "arrived")
    /\ op[r].version <= versions /\ ~IsRetired(op[r].version)
    /\ op[r].version \in Unusable
    /\ Count("schema_invalid")
    /\ Respond(r, 400)
    /\ UNCHANGED <<page, todo, store, scoring>>

\* What a bug would do instead: leave it to the listing to hide what is retired.
AskWhateverTheVersion(r) ==
    /\ At(r, "decide", "arrived")
    /\ op[r].version <= versions
    /\ op[r].version \notin Unusable
    /\ Goto(r, "asking")
    /\ UNCHANGED <<page, todo, store, outcomes, scoring>>

\* The version was looked at; the lock is given back before the worker is asked.
AskWorker(r) ==
    /\ At(r, "decide", "arrived")
    /\ op[r].version <= versions /\ ~IsRetired(op[r].version)
    /\ op[r].version \notin Unusable
    /\ Goto(r, "asking")
    /\ UNCHANGED <<page, todo, store, outcomes, scoring>>

WorkerSilent(r, reason) ==
    /\ pc[r] = "asking"
    /\ Count(reason)
    /\ Respond(r, IF reason = "timeout" THEN 504 ELSE 503)
    /\ UNCHANGED <<page, todo, store, scoring>>

\* A reply that breaks off while it is read, or that does not answer the questions.
WorkerNoUse(r) ==
    /\ pc[r] = "asking"
    /\ \E reason \in {"unreachable", "bad_reply"} : Count(reason)
    /\ Respond(r, 502)
    /\ UNCHANGED <<page, todo, store, scoring>>

\* The worker's status is passed on; 424 stands for every status without a name of its own.
StatusOf == [no_model |-> 503, busy |-> 429, schema_invalid |-> 400,
             engine_refused |-> 422, engine_error |-> 424]

\* What a bug would do instead: pass the refusal on and count only what failed here.
RelayUncounted(r, outcome) ==
    /\ pc[r] = "asking"
    /\ Respond(r, StatusOf[outcome])
    /\ UNCHANGED <<page, todo, store, outcomes, scoring>>

WorkerRefuses(r, outcome) ==
    /\ pc[r] = "asking"
    /\ Count(outcome)
    /\ Respond(r, StatusOf[outcome])
    /\ UNCHANGED <<page, todo, store, scoring>>

WorkerAnswers(r) ==
    /\ pc[r] = "asking"
    /\ Goto(r, "writing")
    /\ UNCHANGED <<page, todo, store, outcomes, scoring>>

\* What a bug would do instead: remember the prediction before the write and after it.
AddPredictionTwice(r) ==
    /\ At(r, "decide", "writing")
    /\ order' = order \o <<r, r>>
    /\ Goto(r, "counting")
    /\ UNCHANGED <<page, todo, versions, retiredBy, corrected, outcomes, scoring>>

\* Neither the retirement nor the client is looked at again.
AddPrediction(r) ==
    /\ At(r, "decide", "writing")
    /\ order' = Append(order, r)
    /\ Goto(r, "counting")
    /\ UNCHANGED <<page, todo, versions, retiredBy, corrected, outcomes, scoring>>

CountOk(r) ==
    /\ pc[r] = "counting"
    /\ Count("ok")
    /\ Respond(r, 201)
    /\ UNCHANGED <<page, todo, store, scoring>>

-------------------------------------------------------------------------------
(***************************************************************************)
(* The templates.                                                          *)
(***************************************************************************)
SaveTemplate(r) ==
    /\ At(r, "save", "arrived")
    /\ versions' = versions + 1
    /\ Respond(r, 201)
    /\ UNCHANGED <<page, todo, retiredBy, order, corrected, outcomes, scoring>>

NothingToRetire(r) ==
    /\ At(r, "retire", "arrived")
    /\ op[r].version > versions
    /\ Respond(r, 404)
    /\ UNCHANGED <<page, todo, store, outcomes, scoring>>

\* Retiring twice answers with the first retirement.
Retire(r) ==
    /\ At(r, "retire", "arrived")
    /\ op[r].version <= versions
    /\ retiredBy' = [retiredBy EXCEPT ![op[r].version] =
                       IF @ = NoRequest THEN r ELSE @]
    /\ page' = [page EXCEPT ![r] = <<Shown(retiredBy'[op[r].version], NoAnswer)>>]
    /\ Respond(r, 200)
    /\ UNCHANGED <<todo, versions, order, corrected, outcomes, scoring>>

-------------------------------------------------------------------------------
(***************************************************************************)
(* Corrections and the history page.                                       *)
(***************************************************************************)
CorrectRefused(r) ==
    /\ At(r, "correct", "arrived")
    /\ LET i == op[r].id IN
         \/ ~Known(i) /\ Respond(r, 404)
         \/ Known(i) /\ corrected[i] # NoAnswer /\ Respond(r, 409)
         \/ /\ Known(i) /\ corrected[i] = NoAnswer
            /\ i \in Unreadable /\ Respond(r, 422)
         \/ /\ Known(i) /\ corrected[i] = NoAnswer /\ i \notin Unreadable
            /\ op[r].answer \notin OptionsOf[VersionOf(i)] /\ Respond(r, 400)
    /\ UNCHANGED <<page, todo, store, outcomes, scoring>>

\* What a bug would do instead: let the second human have the last word.
CorrectAgain(r) ==
    /\ At(r, "correct", "arrived")
    /\ LET i == op[r].id IN
         /\ Known(i)
         /\ i \notin Unreadable /\ op[r].answer \in OptionsOf[VersionOf(i)]
         /\ corrected' = [corrected EXCEPT ![i] = op[r].answer]
    /\ Goto(r, "showing")
    /\ UNCHANGED <<page, todo, versions, retiredBy, order, outcomes, scoring>>

Correct(r) ==
    /\ MayCorrect(r)
    /\ corrected' = [corrected EXCEPT ![op[r].id] = op[r].answer]
    /\ Goto(r, "showing")
    /\ UNCHANGED <<page, todo, versions, retiredBy, order, outcomes, scoring>>

\* The answer of Correct is read back under a lock of its own.
Show(r) ==
    /\ At(r, "correct", "showing")
    /\ page' = [page EXCEPT ![r] = <<Shown(op[r].id, corrected[op[r].id])>>]
    /\ Respond(r, 201)
    /\ UNCHANGED <<todo, store, outcomes, scoring>>

\* What a bug would do instead: stop before the first element of s.order.
NeverTheOldest(lines) ==
    SubSeq(Reverse(lines), 1, IF Len(lines) <= Limit THEN Len(lines) - 1 ELSE Limit)

\* Up to Limit ids, newest first.
Newest(lines) ==
    SubSeq(Reverse(lines), 1, IF Len(lines) < Limit THEN Len(lines) ELSE Limit)

Recent(r) ==
    /\ At(r, "recent", "arrived")
    /\ todo' = [todo EXCEPT ![r] = Newest(order)]
    /\ Goto(r, "listing")
    /\ UNCHANGED <<page, store, outcomes, scoring>>

\* One Get; an unreadable record is shown with its error and fails nothing.
ListOne(r) ==
    /\ pc[r] = "listing" /\ todo[r] # <<>>
    /\ LET i == Head(todo[r]) IN
         IF Known(i)
         THEN /\ page' = [page EXCEPT ![r] =
                            Append(@, Shown(i, corrected[i]))]
              /\ todo' = [todo EXCEPT ![r] = Tail(@)]
              /\ UNCHANGED <<op, pc, status, before>>
         ELSE Respond(r, 404) /\ UNCHANGED <<page, todo>>
    /\ UNCHANGED <<store, outcomes, scoring>>

Listed(r) ==
    /\ pc[r] = "listing" /\ todo[r] = <<>>
    /\ Respond(r, 200)
    /\ UNCHANGED <<page, todo, store, outcomes, scoring>>

-------------------------------------------------------------------------------
(***************************************************************************)
(* Evaluate: one slot, held from before the body is read.                  *)
(***************************************************************************)
ScoringBusy(r) ==
    /\ At(r, "evaluate", "arrived")
    /\ scoring # NoRequest
    /\ Respond(r, 429)
    /\ UNCHANGED <<page, todo, store, outcomes, scoring>>

TakeSlot(r) ==
    /\ At(r, "evaluate", "arrived")
    /\ scoring = NoRequest
    /\ scoring' = r
    /\ Goto(r, "scoring")
    /\ UNCHANGED <<page, todo, store, outcomes>>

\* What a bug would do instead: give the slot back only at the end of the handler.
RowsRefusedHoldingSlot(r) ==
    /\ pc[r] = "scoring"
    /\ Respond(r, 400)
    /\ UNCHANGED <<page, todo, store, outcomes, scoring>>

\* The body cannot be read, or Evaluate refuses its rows.
RowsRefused(r) ==
    /\ pc[r] = "scoring"
    /\ Respond(r, 400)
    /\ scoring' = NoRequest
    /\ UNCHANGED <<page, todo, store, outcomes>>

Scored(r) ==
    /\ pc[r] = "scoring"
    /\ Goto(r, "writing")
    /\ UNCHANGED <<page, todo, store, outcomes, scoring>>

AddEvaluation(r) ==
    /\ At(r, "evaluate", "writing")
    /\ scoring' = NoRequest
    /\ Respond(r, 201)
    /\ UNCHANGED <<page, todo, store, outcomes>>

-------------------------------------------------------------------------------
DecideStep(r) ==
    \/ TextRefused(r) \/ NoSuchVersion(r) \/ RetiredVersion(r) \/ UnusableVersion(r)
    \/ AskWorker(r) \/ WorkerNoUse(r) \/ WorkerAnswers(r) \/ AddPrediction(r) \/ CountOk(r)
    \/ \E reason \in Unreached : WorkerSilent(r, reason)
    \/ \E outcome \in Refusals : WorkerRefuses(r, outcome)

TemplateStep(r) == SaveTemplate(r) \/ NothingToRetire(r) \/ Retire(r)

HistoryStep(r) ==
    CorrectRefused(r) \/ Correct(r) \/ Show(r) \/ Recent(r) \/ ListOne(r) \/ Listed(r)

EvaluateStep(r) ==
    ScoringBusy(r) \/ TakeSlot(r) \/ RowsRefused(r) \/ Scored(r) \/ AddEvaluation(r)

Step(r) ==
    \/ BadBody(r) \/ StoreFails(r)
    \/ DecideStep(r) \/ TemplateStep(r) \/ HistoryStep(r) \/ EvaluateStep(r)

Next == \E r \in Requests : (\E o \in Ops : Arrive(r, o)) \/ Step(r)

Spec == Init /\ [][Next]_vars

-------------------------------------------------------------------------------
\* Every variable keeps to its domain.
TypeOK ==
    /\ op \in [Requests -> Ops \cup {NoOp}]
    /\ pc \in [Requests -> {"new", "arrived", "asking", "writing", "counting", "showing",
                            "listing", "scoring", "done"}]
    /\ status \in [Requests -> {0, 200, 201, 400, 404, 409, 410, 422, 424, 429, 500, 502,
                                503, 504}]
    /\ \A r \in Requests : Len(page[r]) + Len(todo[r]) <= Limit \/ Len(page[r]) = 1
    /\ before \in [Requests -> SUBSET Requests]
    /\ versions \in AtStart..MaxVersion
    /\ retiredBy \in [Versions -> Requests \cup {NoRequest}]
    /\ IsInjective(order) /\ ToSet(order) \subseteq Predictions
    /\ corrected \in [Predictions -> Answers \cup {NoAnswer}]
    /\ outcomes \in [Outcomes -> 0..Cardinality(Requests)]
    /\ scoring \in Requests \cup {NoRequest}

Did(r, do, code) == pc[r] = "done" /\ op[r].do = do /\ status[r] = code

\* Once a retirement was answered, no decision that arrives later is written under that
\* version, although Decide looks only once and writes much later; and every retirement
\* of a version answers with the same one (handler.go:111-127, 152-163, 205).
RetiredStaysRetired ==
    \A q, r \in Requests :
        /\ Did(q, "retire", 200) /\ op[r].do = "decide" /\ q \in before[r]
             /\ op[q].version = op[r].version => ~Known(r)
        /\ Did(q, "retire", 200) /\ Did(r, "retire", 200)
             /\ op[q].version = op[r].version => page[q] = page[r]

\* A correction is recorded once and never changes: whoever is told 201 is shown his own
\* answers, though they are read back after the lock was given up, nobody else is told
\* 201 for that prediction, and the answer is one the prediction's own version offered
\* (handler.go:247-267, store.go:381-426).
CorrectedOnce ==
    /\ \A q, r \in Requests : Did(r, "correct", 201) =>
         /\ page[r] = <<Shown(op[r].id, op[r].answer)>>
         /\ corrected[op[r].id] = op[r].answer
         /\ Did(q, "correct", 201) /\ op[q].id = op[r].id => q = r
    /\ \A i \in Predictions : corrected[i] # NoAnswer =>
         Known(i) /\ corrected[i] \in OptionsOf[VersionOf(i)]

\* The history page shows what anyone was told before it was asked for: a decision or a
\* correction that was answered is on it, and what one page showed the next one shows,
\* unless a full page of newer decisions pushed it off.  The page is read one lock at a
\* time (handler.go:225-245).
Position(i) == CHOOSE k \in DOMAIN order : order[k] = i
OnPage(r, i, answer) ==
    \/ \E k \in DOMAIN page[r] : page[r][k].id = i /\ answer \in {page[r][k].answer, NoAnswer}
    \/ /\ Len(page[r]) = Limit
       /\ \A k \in DOMAIN page[r] : Position(page[r][k].id) > Position(i)

PageShowsWhatWasTold ==
    \A q, r \in Requests : q \in before[r] /\ pc[r] = "done" /\ op[r].do = "recent" =>
        /\ status[r] # 404
        /\ status[r] = 200 =>
             /\ Did(q, "decide", 201) => OnPage(r, q, NoAnswer)
             /\ Did(q, "correct", 201) => OnPage(r, op[q].id, op[q].answer)
             /\ Did(q, "recent", 200) =>
                  \A k \in DOMAIN page[q] : OnPage(r, page[q][k].id, page[q][k].answer)

\* The outcomes of /stats account for every decision: each one that was refused, unlucky
\* or answered is counted once, and "ok" is the number of predictions written since the
\* start, but for those about to be counted (handler.go:137-212).  A body or a version
\* that is not there and a failing store count nothing.
OkIsWritten ==
    LET counting == {r \in Requests : op[r].do = "decide" /\ pc[r] = "counting"}
    IN outcomes["ok"] + Cardinality(counting) + Len(Replayed) = Len(order)

EachIsCounted ==
    LET decided == {r \in Requests : op[r].do = "decide" /\ pc[r] = "done"}
        counted == {r \in decided : status[r] \notin {400, 404, 500}}
        doubtful == {r \in decided : status[r] \in {400, 500}}
    IN FoldFunction(+, 0, outcomes) \in
         Cardinality(counted)..Cardinality(counted \cup doubtful)

OutcomesAddUp == OkIsWritten /\ EachIsCounted

\* One evaluation at a time, and a slot that is taken belongs to one that runs: no way
\* out of the handler keeps it (handler.go:269-290).
OneEvaluation ==
    \A r \in Requests :
        scoring = r <=> op[r].do = "evaluate" /\ pc[r] \in {"scoring", "writing"}
===============================================================================
