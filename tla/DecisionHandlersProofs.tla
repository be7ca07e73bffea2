------------------------ MODULE DecisionHandlersProofs ------------------------
(***************************************************************************)
(* What the routes of the dashboard promise each other's callers, for any  *)
(* set of requests, any store they start from and any page size.           *)
(***************************************************************************)
EXTENDS DecisionHandlers, SequenceTheorems, FiniteSetTheorems, TLAPS

(***************************************************************************)
(* The inductive invariant.  What a request can be at:                     *)
(***************************************************************************)
Entries == [id : Predictions, answer : Answers \cup {NoAnswer}]

Typed ==
    /\ page \in [Requests -> Seq(Entries)]
    /\ todo \in [Requests -> Seq(Predictions)]
    /\ order \in Seq(Predictions)

ShapeOf(r) ==
    /\ pc[r] = "new" <=> op[r] = NoOp
    /\ pc[r] \in {"asking", "counting"} => op[r].do = "decide"
    /\ pc[r] = "writing" => op[r].do \in {"decide", "evaluate"}
    /\ pc[r] = "showing" => op[r].do = "correct"
    /\ pc[r] = "listing" => op[r].do = "recent"
    /\ pc[r] = "scoring" => op[r].do = "evaluate"
    /\ pc[r] \in {"new", "arrived"} => page[r] = <<>> /\ todo[r] = <<>>
Shape == \A r \in Requests : ShapeOf(r)

Done == {r \in Requests : pc[r] = "done"}
BeforeIsDone == \A r \in Requests : before[r] \subseteq Done

\* A prediction is in the order from its append on, and once.
WrittenOf(r) ==
    /\ Known(r) => op[r].do = "decide" /\ pc[r] \in {"counting", "done"}
    /\ pc[r] = "counting" \/ Did(r, "decide", 201) => Known(r)
Written == \A r \in Requests : WrittenOf(r)

\* A retirement that was answered is in the store, and a decision that came after it
\* is either not looked at yet or refused.
RetirementShown ==
    \A q \in Requests : Did(q, "retire", 200) =>
        /\ op[q].version \in Versions /\ IsRetired(op[q].version)
        /\ page[q] = <<Shown(retiredBy[op[q].version], NoAnswer)>>
RetirementSeen ==
    \A q, r \in Requests :
        Did(q, "retire", 200) /\ op[r].do = "decide" /\ q \in before[r]
          /\ op[q].version = op[r].version => pc[r] \in {"arrived", "done"} /\ ~Known(r)

\* A correction that was recorded is its request's, from before it is shown.
Recorded(r) == op[r].do = "correct" /\ (pc[r] = "showing" \/ Did(r, "correct", 201))
CorrectionStands ==
    /\ \A r \in Requests : Recorded(r) => corrected[op[r].id] = op[r].answer
    /\ \A q, r \in Requests : Recorded(q) /\ Recorded(r) /\ op[q].id = op[r].id => q = r
    /\ \A r \in Requests : Did(r, "correct", 201) => page[r] = <<Shown(op[r].id, op[r].answer)>>
    /\ \A i \in Predictions : corrected[i] # NoAnswer =>
         Known(i) /\ corrected[i] \in OptionsOf[VersionOf(i)]

\* Every request adds at most one version and one outcome, and is done with it.
Counting == {r \in Requests : op[r].do = "decide" /\ pc[r] = "counting"}
Counts ==
    /\ versions <= AtStart + Cardinality(Done)
    /\ \A o \in Outcomes : outcomes[o] <= Cardinality(Done)
    /\ outcomes["ok"] + Cardinality(Counting) + Len(Replayed) = Len(order)

(***************************************************************************)
(* The history page.  A listing is of the order as it was when Recent      *)
(* looked, n long; everything that had been told to the requests before it *)
(* was in it by then.                                                      *)
(***************************************************************************)
Told(q) ==
    {e \in Entries :
        \/ Did(q, "decide", 201) /\ e = Shown(q, NoAnswer)
        \/ Did(q, "correct", 201) /\ e = Shown(op[q].id, op[q].answer)
        \/ Did(q, "recent", 200) /\ \E k \in DOMAIN page[q] : e = page[q][k]}

\* The store agrees with an entry, now and from now on.
Stands(e) == Known(e.id) /\ e.answer \in {NoAnswer, corrected[e.id]}

Lists(r, n) ==
    /\ Len(page[r]) + Len(todo[r]) = IF n < Limit THEN n ELSE Limit
    /\ \A k \in 1..Len(page[r]) : page[r][k].id = order[n - k + 1]
    /\ \A k \in 1..Len(todo[r]) : todo[r][k] = order[n - Len(page[r]) - k + 1]
    /\ \A q \in before[r] : \A e \in Told(q) : \E p \in 1..n : order[p] = e.id

TruthTold == \A q \in Requests : \A e \in Told(q) : Stands(e)

PageOf(r) ==
    op[r].do = "recent" =>
        /\ pc[r] = "listing" \/ Did(r, "recent", 200) => \E n \in 0..Len(order) : Lists(r, n)
        /\ pc[r] = "done" => status[r] # 404 /\ (status[r] = 200 => todo[r] = <<>>)
        /\ \A k \in DOMAIN page[r] : Stands(page[r][k])
        /\ \A q \in before[r] : \A e \in Told(q) : \A k \in DOMAIN page[r] :
               page[r][k].id = e.id => e.answer \in {page[r][k].answer, NoAnswer}
Pages == \A r \in Requests : PageOf(r)

IInv ==
    /\ TypeOK /\ Typed /\ Shape /\ BeforeIsDone /\ Written
    /\ RetirementShown /\ RetirementSeen /\ CorrectionStands /\ OneEvaluation /\ Counts
    /\ TruthTold /\ Pages

-------------------------------------------------------------------------------
(***************************************************************************)
(* Sequences.                                                              *)
(***************************************************************************)

\* A page of a sequence: its last elements, the newest of them first.
LEMMA NewestProperties ==
    ASSUME NEW S, NEW lines \in Seq(S)
    PROVE  /\ Newest(lines) \in Seq(S)
           /\ Len(Newest(lines)) = IF Len(lines) < Limit THEN Len(lines) ELSE Limit
           /\ \A k \in 1..Len(Newest(lines)) : Newest(lines)[k] = lines[Len(lines) - k + 1]
<1>. DEFINE L == Len(lines)
            m == IF L < Limit THEN L ELSE Limit
            rev == Reverse(lines)
<1>1. L \in Nat /\ m \in Nat /\ m <= L /\ DOMAIN lines = 1..L
  BY LenProperties, HandlersAssumption
<1>2. \A i \in 1..L : rev[i] = lines[L - i + 1] /\ L - i + 1 \in 1..L
  BY <1>1 DEF Reverse
<1>3. \A i \in 1..m : rev[i] \in S
  <2>1. \A i \in 1..L : lines[L - i + 1] \in S
    BY <1>1, <1>2, ElementOfSeq
  <2>. QED BY <1>1, <1>2, <2>1
<1>. HIDE DEF rev, m
<1>4. /\ SubSeq(rev, 1, m) \in Seq(S)
      /\ Len(SubSeq(rev, 1, m)) = IF 1 <= m THEN m - 1 + 1 ELSE 0
      /\ \A i \in 1..(m - 1 + 1) : SubSeq(rev, 1, m)[i] = rev[1 + i - 1]
  BY <1>1, <1>3, SubSeqProperties
<1>5. Newest(lines) = SubSeq(rev, 1, m)
  BY DEF Newest, rev, m
<1>6. Len(Newest(lines)) = m
  BY <1>1, <1>4, <1>5
<1>7. \A k \in 1..m : Newest(lines)[k] = lines[L - k + 1]
  <2>. SUFFICES ASSUME NEW k \in 1..m PROVE Newest(lines)[k] = lines[L - k + 1]
    OBVIOUS
  <2>1. k \in 1..L /\ k \in 1..(m - 1 + 1) /\ 1 + k - 1 = k
    BY <1>1
  <2>. QED BY <1>2, <1>4, <1>5, <2>1
<1>. QED BY <1>4, <1>5, <1>6, <1>7 DEF m

\* Appending what is not in it.
LEMMA AppendNew ==
    ASSUME NEW S, NEW lines \in Seq(S), NEW x \in S, ~Contains(lines, x), IsInjective(lines)
    PROVE  LET more == Append(lines, x) IN
           /\ more \in Seq(S) /\ Len(more) = Len(lines) + 1 /\ IsInjective(more)
           /\ \A k \in 1..Len(lines) : more[k] = lines[k]
           /\ \A y : Contains(more, y) <=> Contains(lines, y) \/ y = x
<1>. DEFINE more == Append(lines, x)
<1>1. /\ more \in Seq(S) /\ Len(more) = Len(lines) + 1
      /\ \A k \in 1..Len(lines) : more[k] = lines[k]
      /\ more[Len(lines) + 1] = x
      /\ DOMAIN more = 1..(Len(lines) + 1) /\ DOMAIN lines = 1..Len(lines) /\ Len(lines) \in Nat
  BY AppendProperties, LenProperties
<1>. HIDE DEF more
<1>2. \A k \in DOMAIN more : k \in 1..Len(lines) \/ k = Len(lines) + 1
  BY <1>1
<1>3. IsInjective(more)
  BY <1>1, <1>2 DEF IsInjective, Contains
<1>4. ASSUME NEW y PROVE Contains(more, y) <=> Contains(lines, y) \/ y = x
  <2>1. Contains(more, y) <=> \E k \in DOMAIN more : more[k] = y
    BY <1>1 DEF Contains
  <2>2. \A k \in 1..Len(lines) : k \in DOMAIN more
    BY <1>1
  <2>3. Len(lines) + 1 \in DOMAIN more
    BY <1>1
  <2>. QED BY <1>1, <1>2, <2>1, <2>2, <2>3 DEF Contains
<1>. QED BY <1>1, <1>3, <1>4 DEF more

-------------------------------------------------------------------------------
(***************************************************************************)
(* The steps, by what they leave.  Most of them only answer, or only move  *)
(* the handler on.                                                         *)
(***************************************************************************)
Codes == {0, 200, 201, 400, 404, 409, 410, 422, 424, 429, 500, 502, 503, 504}

Refuse(r) ==
    /\ pc[r] \in {"arrived", "asking", "writing", "scoring"}
    /\ \E code \in Codes \ {0, 200, 201} :
         Respond(r, code) /\ (op[r].do = "recent" => code # 404)
    /\ UNCHANGED <<page, todo, store>>
    /\ UNCHANGED outcomes \/ \E o \in Outcomes \ {"ok"} : Count(o)
    /\ scoring' = IF scoring = r THEN NoRequest ELSE scoring

MoveOn(r) ==
    /\ \/ /\ At(r, "decide", "arrived") /\ Goto(r, "asking")
          /\ op[r].version <= versions /\ ~IsRetired(op[r].version)
       \/ pc[r] \in {"asking", "scoring"} /\ Goto(r, "writing")
    /\ UNCHANGED <<page, todo, store, outcomes, scoring>>

Kinds(r) ==
    \/ Refuse(r) \/ MoveOn(r) \/ AddPrediction(r) \/ CountOk(r) \/ SaveTemplate(r)
    \/ Retire(r) \/ Correct(r) \/ Show(r) \/ Recent(r)
    \/ ListOne(r) /\ Known(Head(todo[r]))
    \/ Listed(r) \/ TakeSlot(r) \/ AddEvaluation(r)

\* What a listing has still to read is in the order.
LEMMA TodoIsKnown ==
    ASSUME IInv, NEW r \in Requests, pc[r] = "listing", todo[r] # <<>>
    PROVE  Known(Head(todo[r]))
<1>1. op[r].do = "recent"
  BY DEF IInv, Shape, ShapeOf
<1>2. PICK n \in 0..Len(order) : Lists(r, n)
  BY <1>1 DEF IInv, Pages, PageOf
<1>3. /\ Len(todo[r]) \in Nat \ {0} /\ Len(page[r]) \in Nat /\ Len(order) \in Nat
      /\ Head(todo[r]) = todo[r][1]
  BY EmptySeq, LenProperties DEF IInv, Typed
<1>4. todo[r][1] = order[n - Len(page[r]) - 1 + 1] /\ n - Len(page[r]) - 1 + 1 \in 1..Len(order)
  <2>. DEFINE a == Len(page[r])
              b == Len(todo[r])
              L == Len(order)
  <2>1. a \in Nat /\ b \in Nat \ {0} /\ L \in Nat /\ n \in 0..L
    BY <1>2, <1>3
  <2>2. a + b = IF n < Limit THEN n ELSE Limit
    BY <1>2 DEF Lists
  <2>. HIDE DEF a, b, L
  <2>3. 1 \in 1..b /\ n - a - 1 + 1 \in 1..L
    BY <2>1, <2>2, HandlersAssumption
  <2>. QED BY <1>2, <2>3 DEF Lists, a, b, L
<1>. QED BY <1>3, <1>4 DEF Known, Contains

LEMMA StepKinds ==
    ASSUME IInv, NEW r \in Requests, Step(r) PROVE Kinds(r)
<1>. USE DEF IInv
<1>1. ASSUME pc[r] \in {"arrived", "asking", "writing", "scoring"},
             NEW code \in Codes \ {0, 200, 201}, Respond(r, code), op[r].do = "recent" => code # 404,
             UNCHANGED <<page, todo, store>>,
             UNCHANGED outcomes \/ \E o \in Outcomes \ {"ok"} : Count(o),
             scoring' = IF scoring = r THEN NoRequest ELSE scoring
      PROVE  Kinds(r)
  BY <1>1 DEF Kinds, Refuse
<1>2. scoring = r => op[r].do = "evaluate" /\ pc[r] \in {"scoring", "writing"}
  BY DEF OneEvaluation
<1>3. CASE BadBody(r)
  BY <1>1, <1>2, <1>3 DEF BadBody, Codes
<1>4. CASE StoreFails(r)
  BY <1>1, <1>4 DEF StoreFails, Codes, At, MayRetire, MayCorrect
<1>5. CASE DecideStep(r)
  <2>1. CASE TextRefused(r) \/ RetiredVersion(r) \/ UnusableVersion(r)
    BY <1>1, <1>2, <2>1 DEF TextRefused, RetiredVersion, UnusableVersion, At, Codes, Outcomes, Refusals
  <2>2. CASE NoSuchVersion(r)
    BY <1>1, <1>2, <2>2 DEF NoSuchVersion, At, Codes
  <2>3. CASE AskWorker(r)
    BY <2>3 DEF AskWorker, Kinds, MoveOn
  <2>4. CASE WorkerAnswers(r)
    BY <2>4 DEF WorkerAnswers, Kinds, MoveOn
  <2>5. CASE WorkerNoUse(r)
    BY <1>1, <1>2, <2>5 DEF WorkerNoUse, Codes, Outcomes, Unreached
  <2>6. CASE \E reason \in Unreached : WorkerSilent(r, reason)
    BY <1>1, <1>2, <2>6 DEF WorkerSilent, Codes, Outcomes, Unreached
  <2>7. CASE \E outcome \in Refusals : WorkerRefuses(r, outcome)
    <3>1. PICK outcome \in Refusals : WorkerRefuses(r, outcome)
      BY <2>7
    <3>2. StatusOf[outcome] \in {503, 429, 400, 422, 424} /\ outcome \in Outcomes \ {"ok"}
      BY DEF StatusOf, Refusals, Outcomes
    <3>. QED BY <1>1, <1>2, <3>1, <3>2 DEF WorkerRefuses, Codes
  <2>. QED BY <1>5, <2>1, <2>2, <2>3, <2>4, <2>5, <2>6, <2>7 DEF DecideStep, Kinds
<1>6. CASE TemplateStep(r)
  <2>1. CASE NothingToRetire(r)
    BY <1>1, <1>2, <2>1 DEF NothingToRetire, At, Codes
  <2>. QED BY <1>6, <2>1 DEF TemplateStep, Kinds
<1>7. CASE HistoryStep(r)
  <2>1. CASE CorrectRefused(r)
    BY <1>1, <1>2, <2>1 DEF CorrectRefused, At, Codes
  <2>2. CASE ListOne(r)
    BY <2>2, TodoIsKnown DEF ListOne, Kinds
  <2>. QED BY <1>7, <2>1, <2>2 DEF HistoryStep, Kinds
<1>8. CASE EvaluateStep(r)
  <2>1. CASE ScoringBusy(r)
    BY <1>1, <1>2, <2>1 DEF ScoringBusy, At, Codes
  <2>2. CASE RowsRefused(r)
    <3>1. scoring = r /\ op[r].do = "evaluate"
      BY <2>2 DEF RowsRefused, OneEvaluation, Shape, ShapeOf
    <3>. QED BY <1>1, <2>2, <3>1 DEF RowsRefused, Codes
  <2>3. CASE Scored(r)
    BY <2>3 DEF Scored, Kinds, MoveOn
  <2>. QED BY <1>8, <2>1, <2>2, <2>3 DEF EvaluateStep, Kinds
<1>. QED BY <1>3, <1>4, <1>5, <1>6, <1>7, <1>8 DEF Step

Labels == {"new", "arrived", "asking", "writing", "counting", "showing", "listing", "scoring",
           "done"}

\* A step is of one request, and leaves every other one as it is.
LEMMA Frame ==
    ASSUME IInv, NEW r \in Requests, Kinds(r) \/ \E o \in Ops : Arrive(r, o)
    PROVE  /\ op' \in [Requests -> Ops \cup {NoOp}] /\ pc' \in [Requests -> Labels]
           /\ status' \in [Requests -> Codes] /\ before' \in [Requests -> SUBSET Requests]
           /\ \A q \in Requests : q # r =>
                /\ op'[q] = op[q] /\ pc'[q] = pc[q] /\ status'[q] = status[q]
                /\ page'[q] = page[q] /\ todo'[q] = todo[q] /\ before'[q] = before[q]
           /\ pc[r] # "done" /\ pc'[r] # "new"
           /\ pc[r] # "new" => op'[r] = op[r] /\ before'[r] = before[r]
<1>. USE DEF IInv
<1>0. /\ op \in [Requests -> Ops \cup {NoOp}] /\ pc \in [Requests -> Labels]
      /\ status \in [Requests -> Codes] /\ before \in [Requests -> SUBSET Requests]
      /\ page \in [Requests -> Seq(Entries)] /\ todo \in [Requests -> Seq(Predictions)]
  BY DEF TypeOK, Typed, Codes, Labels
<1>1. CASE \E o \in Ops : Arrive(r, o)
  BY <1>0, <1>1 DEF Arrive, Labels
<1>2. CASE Refuse(r)
  BY <1>0, <1>2 DEF Refuse, Respond, Labels
<1>3. CASE MoveOn(r)
  BY <1>0, <1>3 DEF MoveOn, At, Goto, Labels
<1>4. CASE AddPrediction(r)
  BY <1>0, <1>4 DEF AddPrediction, At, Goto, Labels
<1>5. CASE CountOk(r)
  BY <1>0, <1>5 DEF CountOk, Respond, Labels, Codes
<1>6. CASE SaveTemplate(r)
  BY <1>0, <1>6 DEF SaveTemplate, At, Respond, Labels, Codes
<1>7. CASE Retire(r)
  BY <1>0, <1>7 DEF Retire, At, Respond, Labels, Codes
<1>8. CASE Correct(r)
  BY <1>0, <1>8 DEF Correct, MayCorrect, At, Goto, Labels
<1>9. CASE Show(r)
  BY <1>0, <1>9 DEF Show, At, Respond, Labels, Codes
<1>10. CASE Recent(r)
  BY <1>0, <1>10 DEF Recent, At, Goto, Labels
<1>11. CASE ListOne(r) /\ Known(Head(todo[r]))
  BY <1>0, <1>11 DEF ListOne
<1>12. CASE Listed(r)
  BY <1>0, <1>12 DEF Listed, Respond, Labels, Codes
<1>13. CASE TakeSlot(r)
  BY <1>0, <1>13 DEF TakeSlot, At, Goto, Labels
<1>14. CASE AddEvaluation(r)
  BY <1>0, <1>14 DEF AddEvaluation, At, Respond, Labels, Codes
<1>. QED BY <1>1, <1>2, <1>3, <1>4, <1>5, <1>6, <1>7, <1>8, <1>9, <1>10, <1>11, <1>12, <1>13,
            <1>14 DEF Kinds

\* The store only grows: what is in the order stays where it is, an answer and a
\* retirement stay what they are.
LEMMA StoreGrows ==
    ASSUME IInv, NEW r \in Requests, Kinds(r) \/ \E o \in Ops : Arrive(r, o)
    PROVE  /\ order' \in Seq(Predictions) /\ IsInjective(order')
           /\ Len(order) \in Nat /\ Len(order') \in Nat /\ Len(order) <= Len(order')
           /\ \A k \in 1..Len(order) : order'[k] = order[k]
           /\ \A i : Known(i) => Known(i)'
           /\ \A i : Known(i)' => Known(i) \/ (i = r /\ AddPrediction(r))
           /\ AddPrediction(r) => Known(r)' /\ ~Known(r) /\ Len(order') = Len(order) + 1
           /\ ~AddPrediction(r) => order' = order
           /\ corrected' \in [Predictions -> Answers \cup {NoAnswer}]
           /\ \A i \in Predictions : corrected[i] # NoAnswer => corrected'[i] = corrected[i]
           /\ retiredBy' \in [Versions -> Requests \cup {NoRequest}]
           /\ \A v \in Versions : retiredBy[v] # NoRequest => retiredBy'[v] = retiredBy[v]
<1>. USE DEF IInv
<1>1. /\ order \in Seq(Predictions) /\ IsInjective(order) /\ Len(order) \in Nat
      /\ corrected \in [Predictions -> Answers \cup {NoAnswer}]
      /\ retiredBy \in [Versions -> Requests \cup {NoRequest}]
  BY LenProperties DEF TypeOK, Typed
<1>2. CASE AddPrediction(r)
  <2>1. order' = Append(order, r) /\ UNCHANGED <<corrected, retiredBy>>
    BY <1>2 DEF AddPrediction
  <2>2. ~Contains(order, r) /\ r \in Predictions
    BY <1>2 DEF AddPrediction, At, Written, WrittenOf, Known, Predictions
  <2>. QED BY <1>1, <1>2, <2>1, <2>2, AppendNew DEF Known
<1>3. CASE ~AddPrediction(r)
  <2>1. order' = order
    BY <1>3 DEF Kinds, Refuse, MoveOn, CountOk, SaveTemplate, Retire, Correct, Show, Recent, ListOne,
       Listed, TakeSlot, AddEvaluation, Arrive, store
  <2>2. /\ corrected' \in [Predictions -> Answers \cup {NoAnswer}]
        /\ \A i \in Predictions : corrected[i] # NoAnswer => corrected'[i] = corrected[i]
    <3>1. CASE Correct(r)
      <4>1. op[r] \in Ops /\ op[r].do = "correct"
        BY <3>1 DEF Correct, MayCorrect, At, TypeOK, NoOp
      <4>2. op[r].id \in Predictions /\ op[r].answer \in Answers
        BY <4>1 DEF Ops
      <4>. QED BY <1>1, <3>1, <4>2 DEF Correct, MayCorrect
    <3>2. CASE ~Correct(r)
      <4>1. UNCHANGED corrected
        BY <1>3, <3>2 DEF Kinds, Refuse, MoveOn, CountOk, SaveTemplate, Retire, Show, Recent, ListOne,
           Listed, TakeSlot, AddEvaluation, Arrive, store
      <4>. QED BY <1>1, <4>1
    <3>. QED BY <3>1, <3>2
  <2>3. /\ retiredBy' \in [Versions -> Requests \cup {NoRequest}]
        /\ \A v \in Versions : retiredBy[v] # NoRequest => retiredBy'[v] = retiredBy[v]
    <3>1. CASE Retire(r)
      BY <1>1, <3>1 DEF Retire
    <3>2. CASE ~Retire(r)
      <4>1. UNCHANGED retiredBy
        BY <1>3, <3>2 DEF Kinds, Refuse, MoveOn, CountOk, SaveTemplate, Correct, Show, Recent, ListOne,
           Listed, TakeSlot, AddEvaluation, Arrive, store
      <4>. QED BY <1>1, <4>1
    <3>. QED BY <3>1, <3>2
  <2>. QED BY <1>1, <1>3, <2>1, <2>2, <2>3 DEF Known
<1>. QED BY <1>2, <1>3

LEMMA OpsShape ==
    ASSUME NEW o \in Ops
    PROVE  /\ o # NoOp
           /\ o.do \in {"decide", "retire"} => o.version \in 1..(AtStart + 1)
           /\ o.do = "correct" => o.id \in Predictions /\ o.answer \in Answers
           /\ o.do \in {"decide", "retire", "correct", "save", "recent", "evaluate"}
<1>1. CASE o \in [do : {"decide", "retire"}, version : 1..(AtStart + 1)]
  BY <1>1 DEF NoOp
<1>2. CASE o \in [do : {"correct"}, id : Predictions, answer : Answers]
  BY <1>2 DEF NoOp
<1>3. CASE o \in [do : {"save", "recent", "evaluate"}]
  BY <1>3 DEF NoOp
<1>. QED BY <1>1, <1>2, <1>3 DEF Ops

-------------------------------------------------------------------------------
(***************************************************************************)
(* The parts of the invariant, one by one.                                 *)
(***************************************************************************)
LEMMA ShapeStep ==
    ASSUME IInv, NEW r \in Requests, Kinds(r) \/ \E o \in Ops : Arrive(r, o)
    PROVE  Shape' /\ BeforeIsDone'
<1>. USE DEF IInv
<1>1. ASSUME NEW q \in Requests, q # r PROVE ShapeOf(q)'
  <2>1. ShapeOf(q)
    BY DEF Shape
  <2>. QED BY <1>1, <2>1, Frame DEF ShapeOf
<1>2. ShapeOf(r)
  BY DEF Shape
<1>3. /\ op \in [Requests -> Ops \cup {NoOp}] /\ pc \in [Requests -> Labels]
      /\ page \in [Requests -> Seq(Entries)] /\ todo \in [Requests -> Seq(Predictions)]
  BY DEF TypeOK, Typed, Labels
<1>4. ShapeOf(r)'
  <2>1. CASE \E o \in Ops : Arrive(r, o)
    BY <1>2, <1>3, <2>1, OpsShape DEF Arrive, ShapeOf
  <2>. SUFFICES ASSUME Kinds(r) PROVE ShapeOf(r)'
    BY <2>1
  <2>2. pc[r] # "new" /\ op[r] # NoOp /\ op'[r] = op[r]
    <3>1. pc[r] # "new"
      BY DEF Kinds, Refuse, MoveOn, AddPrediction, CountOk, SaveTemplate, Retire, Correct, MayCorrect,
         Show, Recent, ListOne, Listed, TakeSlot, AddEvaluation, At
    <3>. QED BY <1>2, <3>1, Frame DEF ShapeOf
  <2>3. CASE pc'[r] \in {"done", "writing", "asking", "counting", "showing", "listing", "scoring"}
    <3>1. CASE pc'[r] = "done"
      BY <2>2, <3>1 DEF ShapeOf
    <3>2. CASE Refuse(r) \/ CountOk(r) \/ SaveTemplate(r) \/ Retire(r) \/ Show(r) \/ Listed(r)
               \/ AddEvaluation(r)
      BY <1>3, <2>2, <3>1, <3>2 DEF Refuse, CountOk, SaveTemplate, Retire, Show, Listed, AddEvaluation,
         Respond
    <3>3. CASE MoveOn(r)
      BY <1>2, <1>3, <2>2, <3>3 DEF MoveOn, Goto, At, ShapeOf
    <3>4. CASE AddPrediction(r) \/ Correct(r) \/ Recent(r) \/ TakeSlot(r)
      BY <1>3, <2>2, <3>4 DEF AddPrediction, Correct, MayCorrect, Recent, TakeSlot, Goto, At, ShapeOf
    <3>5. CASE ListOne(r) /\ Known(Head(todo[r]))
      BY <1>2, <1>3, <2>2, <3>5 DEF ListOne, ShapeOf
    <3>. QED BY <3>2, <3>3, <3>4, <3>5 DEF Kinds
  <2>4. pc'[r] # "arrived"
    BY <1>3 DEF Kinds, Refuse, MoveOn, AddPrediction, CountOk, SaveTemplate, Retire, Correct,
       Show, Recent, ListOne, Listed, TakeSlot, AddEvaluation, At, Goto, Respond
  <2>. QED BY <2>3, <2>4, Frame DEF Labels
<1>5. Shape'
  BY <1>1, <1>4 DEF Shape
<1>6. BeforeIsDone'
  <2>1. Done \subseteq Done'
    BY Frame DEF Done
  <2>2. before'[r] \subseteq Done'
    <3>1. CASE pc[r] = "new"
      <4>1. \E o \in Ops : Arrive(r, o)
        BY <3>1 DEF Kinds, Refuse, MoveOn, AddPrediction, CountOk, SaveTemplate, Retire, Correct,
           MayCorrect, Show, Recent, ListOne, Listed, TakeSlot, AddEvaluation, At
      <4>2. before'[r] = Done
        BY <4>1 DEF Arrive, Done, TypeOK
      <4>. QED BY <2>1, <4>2
    <3>2. CASE pc[r] # "new"
      BY <2>1, <3>2, Frame DEF BeforeIsDone
    <3>. QED BY <3>1, <3>2
  <2>. QED BY <2>1, <2>2, Frame DEF BeforeIsDone
<1>. QED BY <1>5, <1>6

LEMMA WrittenStep ==
    ASSUME IInv, NEW r \in Requests, Kinds(r) \/ \E o \in Ops : Arrive(r, o)
    PROVE  Written' /\ OneEvaluation'
<1>. USE DEF IInv
<1>1. /\ op \in [Requests -> Ops \cup {NoOp}] /\ pc \in [Requests -> Labels]
      /\ status \in [Requests -> Codes] /\ r # NoRequest
  BY HandlersAssumption DEF TypeOK, Labels, Codes
<1>2. ASSUME NEW q \in Requests, q # r PROVE WrittenOf(q)'
  <2>1. WrittenOf(q) /\ (Known(q)' <=> Known(q))
    BY <1>2, StoreGrows DEF Written
  <2>. QED BY <1>2, <2>1, Frame DEF WrittenOf, Did
<1>3. WrittenOf(r)'
  <2>1. WrittenOf(r) /\ ShapeOf(r)
    BY DEF Written, Shape
  <2>2. CASE AddPrediction(r)
    BY <1>1, <2>1, <2>2, StoreGrows DEF AddPrediction, At, Goto, WrittenOf
  <2>3. CASE CountOk(r)
    <3>1. order' = order
      BY <2>3 DEF CountOk, store
    <3>. QED BY <1>1, <2>1, <2>3, <3>1 DEF CountOk, Respond, WrittenOf, ShapeOf, Did, Known
  <2>4. CASE ~AddPrediction(r) /\ ~CountOk(r)
    <3>1. Known(r)' <=> Known(r)
      BY <2>4, StoreGrows
    <3>2. ~Known(r)
      BY <2>1, <2>4 DEF WrittenOf, Kinds, Refuse, MoveOn, SaveTemplate, Retire, Correct, MayCorrect, Show,
         Recent, ListOne, Listed, TakeSlot, AddEvaluation, At, Arrive, ShapeOf
    <3>3. pc'[r] # "counting"
      BY <1>1, <2>4 DEF Kinds, Refuse, MoveOn, SaveTemplate, Retire, Correct, MayCorrect, Show,
         Recent, ListOne, Listed, TakeSlot, AddEvaluation, At, Arrive, Goto, Respond
    <3>4. ~Did(r, "decide", 201)'
      BY <1>1, <2>1, <2>4 DEF Kinds, Refuse, MoveOn, SaveTemplate, Retire, Correct, MayCorrect, Show,
         Recent, ListOne, Listed, TakeSlot, AddEvaluation, At, Arrive, Goto, Respond, Did, ShapeOf
    <3>. QED BY <3>1, <3>2, <3>3, <3>4 DEF WrittenOf
  <2>. QED BY <2>2, <2>3, <2>4
<1>4. Written'
  BY <1>2, <1>3 DEF Written
<1>5. OneEvaluation'
  <2>. DEFINE Holds(q) == op[q].do = "evaluate" /\ pc[q] \in {"scoring", "writing"}
  <2>1. ASSUME NEW q \in Requests, q # r, scoring' = scoring \/ {scoring, scoring'} = {r, NoRequest}
        PROVE  scoring' = q <=> Holds(q)'
    <3>1. q # NoRequest
      BY HandlersAssumption
    <3>2. scoring' = q <=> scoring = q
      BY <2>1, <3>1
    <3>3. Holds(q)' <=> Holds(q)
      BY <2>1, Frame
    <3>. QED BY <3>2, <3>3 DEF OneEvaluation
  <2>2. scoring = r <=> Holds(r)
    BY DEF OneEvaluation
  <2>3. ShapeOf(r)
    BY DEF Shape
  <2>4. /\ scoring' = scoring \/ {scoring, scoring'} = {r, NoRequest}
        /\ scoring' = r <=> Holds(r)'
    <3>1. CASE \E o \in Ops : Arrive(r, o)
      BY <1>1, <2>2, <2>3, <3>1 DEF Arrive, ShapeOf, NoOp
    <3>2. CASE Refuse(r)
      BY <1>1, <2>2, <3>2 DEF Refuse, Respond
    <3>3. CASE MoveOn(r)
      BY <1>1, <2>2, <2>3, <3>3 DEF MoveOn, Goto, At, ShapeOf
    <3>4. CASE AddPrediction(r) \/ Correct(r) \/ Recent(r)
      BY <1>1, <2>2, <3>4 DEF AddPrediction, Correct, MayCorrect, Recent, Goto, At
    <3>5. CASE CountOk(r) \/ SaveTemplate(r) \/ Retire(r) \/ Show(r) \/ Listed(r)
      BY <1>1, <2>2, <3>5 DEF CountOk, SaveTemplate, Retire, Show, Listed, Respond, At
    <3>6. CASE ListOne(r) /\ Known(Head(todo[r]))
      BY <1>1, <2>2, <3>6 DEF ListOne
    <3>7. CASE TakeSlot(r)
      BY <1>1, <3>7 DEF TakeSlot, Goto, At
    <3>8. CASE AddEvaluation(r)
      BY <1>1, <2>2, <3>8 DEF AddEvaluation, Respond, At
    <3>. QED BY <3>1, <3>2, <3>3, <3>4, <3>5, <3>6, <3>7, <3>8 DEF Kinds
  <2>5. \A q \in Requests : scoring' = q <=> Holds(q)'
    BY <2>1, <2>4
  <2>. QED BY <2>5 DEF OneEvaluation
<1>. QED BY <1>4, <1>5

\* A request that is done stays as it is.
LEMMA DoneStays ==
    ASSUME IInv, NEW r \in Requests, Kinds(r) \/ \E o \in Ops : Arrive(r, o),
           NEW q \in Requests, pc[q] = "done"
    PROVE  /\ q # r /\ pc'[q] = "done" /\ op'[q] = op[q] /\ status'[q] = status[q]
           /\ page'[q] = page[q] /\ before'[q] = before[q]
           /\ \A do, code : Did(q, do, code)' <=> Did(q, do, code)
<1>1. q # r
  BY Frame
<1>. QED BY <1>1, Frame DEF Did

LEMMA RetirementStep ==
    ASSUME IInv, NEW r \in Requests, Kinds(r) \/ \E o \in Ops : Arrive(r, o)
    PROVE  RetirementShown' /\ RetirementSeen'
<1>. USE DEF IInv
<1>1. /\ op \in [Requests -> Ops \cup {NoOp}] /\ pc \in [Requests -> Labels]
      /\ status \in [Requests -> Codes] /\ page \in [Requests -> Seq(Entries)]
      /\ retiredBy \in [Versions -> Requests \cup {NoRequest}]
  BY DEF TypeOK, Typed, Labels, Codes
<1>2. ShapeOf(r) /\ WrittenOf(r)
  BY DEF Shape, Written
\* Only Retire answers a Retire with 200.
<1>3. Did(r, "retire", 200)' => Retire(r)
  BY <1>1, <1>2 DEF Kinds, Refuse, MoveOn, AddPrediction, CountOk, SaveTemplate, Correct, MayCorrect,
     Show, Recent, ListOne, Listed, TakeSlot, AddEvaluation, At, Arrive, Goto, Respond, Did, ShapeOf
<1>4. RetirementShown'
  <2>. SUFFICES ASSUME NEW q \in Requests, Did(q, "retire", 200)'
                PROVE  /\ op'[q].version \in Versions /\ retiredBy'[op'[q].version] # NoRequest
                       /\ page'[q] = <<Shown(retiredBy'[op'[q].version], NoAnswer)>>
    BY DEF RetirementShown, IsRetired
  <2>1. CASE q # r
    <3>1. Did(q, "retire", 200) /\ op'[q] = op[q] /\ page'[q] = page[q]
      BY <2>1, Frame DEF Did
    <3>2. /\ op[q].version \in Versions /\ retiredBy[op[q].version] # NoRequest
          /\ page[q] = <<Shown(retiredBy[op[q].version], NoAnswer)>>
      BY <3>1 DEF RetirementShown, IsRetired
    <3>. QED BY <3>1, <3>2, StoreGrows
  <2>2. CASE q = r
    <3>1. Retire(r)
      BY <1>3, <2>2
    <3>2. op'[r] = op[r] /\ op[r] \in Ops /\ op[r].do = "retire"
      BY <1>1, <3>1 DEF Retire, At, Respond, NoOp
    <3>3. op[r].version \in Versions
      <4>1. op[r].version \in 1..(AtStart + 1) /\ AtStart + 1 <= MaxVersion
        <5>1. op[r].version \in 1..(AtStart + 1)
          BY <3>2, OpsShape
        <5>2. Cardinality(Requests) \in Nat /\ Cardinality(Requests) # 0
          BY HandlersAssumption, FS_CardinalityType, FS_EmptySet
        <5>. QED BY <5>1, <5>2, HandlersAssumption DEF MaxVersion
      <4>2. MaxVersion \in Nat
        BY HandlersAssumption, FS_CardinalityType DEF MaxVersion
      <4>. QED BY <4>1, <4>2, HandlersAssumption DEF Versions
    <3>4. retiredBy'[op[r].version] # NoRequest
      BY <1>1, <3>1, <3>3, HandlersAssumption DEF Retire
    <3>5. page'[r] = <<Shown(retiredBy'[op[r].version], NoAnswer)>>
      BY <1>1, <3>1 DEF Retire
    <3>. QED BY <2>2, <3>2, <3>3, <3>4, <3>5
  <2>. QED BY <2>1, <2>2
<1>5. RetirementSeen'
  <2>. SUFFICES ASSUME NEW q \in Requests, NEW s \in Requests, Did(q, "retire", 200)',
                       op'[s].do = "decide", q \in before'[s], op'[q].version = op'[s].version
                PROVE  pc'[s] \in {"arrived", "done"} /\ ~Known(s)'
    BY DEF RetirementSeen
  <2>1. CASE \E o \in Ops : Arrive(r, o) /\ s = r
    BY <1>1, <1>2, <2>1, StoreGrows DEF Arrive, AddPrediction, At, WrittenOf
  <2>2. CASE ~(\E o \in Ops : Arrive(r, o) /\ s = r)
    <3>1. op'[s] = op[s] /\ before'[s] = before[s]
      <4>1. s = r => pc[s] # "new"
        BY <2>2 DEF Kinds, Refuse, MoveOn, AddPrediction, CountOk, SaveTemplate, Retire, Correct,
           MayCorrect, Show, Recent, ListOne, Listed, TakeSlot, AddEvaluation, At
      <4>. QED BY <4>1, Frame
    <3>2. pc[q] = "done"
      BY <3>1 DEF BeforeIsDone, Done
    <3>3. Did(q, "retire", 200) /\ op'[q] = op[q]
      BY <3>2, DoneStays
    <3>4. pc[s] \in {"arrived", "done"} /\ ~Known(s)
      BY <3>1, <3>3 DEF RetirementSeen
    <3>5. IsRetired(op[s].version)
      BY <3>1, <3>3 DEF RetirementShown
    <3>6. CASE s # r
      BY <3>4, <3>6, Frame, StoreGrows
    <3>7. CASE s = r
      <4>1. ~Known(r)'
        BY <3>4, <3>7, StoreGrows DEF AddPrediction, At
      <4>2. pc'[r] = "done"
        BY <1>1, <3>1, <3>4, <3>5, <3>7, <2>2 DEF Kinds, Refuse, MoveOn, AddPrediction, CountOk, SaveTemplate,
           Retire, Correct, MayCorrect, Show, Recent, ListOne, Listed, TakeSlot, AddEvaluation, At, Goto,
           Respond
      <4>. QED BY <3>7, <4>1, <4>2
    <3>. QED BY <3>6, <3>7
  <2>. QED BY <2>1, <2>2
<1>. QED BY <1>4, <1>5

LEMMA CorrectionStep ==
    ASSUME IInv, NEW r \in Requests, Kinds(r) \/ \E o \in Ops : Arrive(r, o)
    PROVE  CorrectionStands'
<1>. USE DEF IInv
<1>1. /\ op \in [Requests -> Ops \cup {NoOp}] /\ pc \in [Requests -> Labels]
      /\ status \in [Requests -> Codes] /\ page \in [Requests -> Seq(Entries)]
      /\ corrected \in [Predictions -> Answers \cup {NoAnswer}]
  BY DEF TypeOK, Typed, Labels, Codes
<1>2. ShapeOf(r) /\ WrittenOf(r)
  BY DEF Shape, Written
<1>3. ASSUME NEW q \in Requests, op[q].do = "correct"
      PROVE  op[q].id \in Predictions /\ op[q].answer \in Answers /\ op[q].answer # NoAnswer
  BY <1>1, <1>3, OpsShape, HandlersAssumption DEF NoOp
\* A request comes to be recorded only by Correct, and is shown by Show.
<1>4. /\ Recorded(r)' => Recorded(r) \/ Correct(r)
      /\ Did(r, "correct", 201)' => Show(r)
      /\ Recorded(r)' => op'[r] = op[r] /\ op[r].do = "correct"
  BY <1>1, <1>2 DEF Recorded, Kinds, Refuse, MoveOn, AddPrediction, CountOk, SaveTemplate, Retire,
     Correct, MayCorrect, Show, Recent, ListOne, Listed, TakeSlot, AddEvaluation, At, Arrive, Goto,
     Respond, Did, ShapeOf
<1>5. \A q \in Requests : q # r => (Recorded(q)' <=> Recorded(q)) /\ op'[q] = op[q]
                                   /\ (Did(q, "correct", 201)' <=> Did(q, "correct", 201))
                                   /\ page'[q] = page[q]
  BY Frame DEF Recorded, Did
<1>6. ASSUME Correct(r)
      PROVE  /\ corrected[op[r].id] = NoAnswer /\ corrected'[op[r].id] = op[r].answer
             /\ op[r].do = "correct"
             /\ \A i \in Predictions : i # op[r].id => corrected'[i] = corrected[i]
             /\ Known(op[r].id) /\ op[r].answer \in OptionsOf[VersionOf(op[r].id)]
             /\ UNCHANGED <<op, order>>
  BY <1>1, <1>3, <1>6 DEF Correct, MayCorrect, At, Goto
<1>7. \A q \in Requests : Recorded(q)' => corrected'[op'[q].id] = op'[q].answer
  <2>. SUFFICES ASSUME NEW q \in Requests, Recorded(q)' PROVE corrected'[op'[q].id] = op'[q].answer
    OBVIOUS
  <2>1. CASE Recorded(q)
    <3>1. op'[q] = op[q] /\ op[q].do = "correct" /\ corrected[op[q].id] = op[q].answer
      BY <1>4, <1>5, <2>1 DEF Recorded, CorrectionStands
    <3>. QED BY <1>3, <3>1, StoreGrows
  <2>2. CASE q = r /\ Correct(r)
    BY <1>4, <1>6, <2>2
  <2>. QED BY <1>4, <1>5, <2>1, <2>2
<1>8. \A p, q \in Requests : Recorded(p)' /\ Recorded(q)' /\ op'[p].id = op'[q].id => p = q
  <2>1. ASSUME NEW p \in Requests, Recorded(p), p # r, Correct(r) PROVE op[p].id # op[r].id
    <3>1. corrected[op[p].id] = op[p].answer /\ op[p].do = "correct"
      BY <2>1 DEF CorrectionStands, Recorded
    <3>. QED BY <1>3, <1>6, <2>1, <3>1
  <2>. QED BY <1>4, <1>5, <2>1 DEF CorrectionStands
<1>9. \A q \in Requests : Did(q, "correct", 201)' => page'[q] = <<Shown(op'[q].id, op'[q].answer)>>
  <2>1. ASSUME Show(r) PROVE page'[r] = <<Shown(op[r].id, op[r].answer)>>
    <3>1. Recorded(r)
      BY <2>1 DEF Show, At, Recorded
    <3>. QED BY <1>1, <2>1, <3>1 DEF Show, CorrectionStands
  <2>2. Did(r, "correct", 201)' => op'[r] = op[r]
    BY <1>4 DEF Recorded, Did
  <2>. QED BY <1>4, <1>5, <2>1, <2>2 DEF CorrectionStands
<1>10. \A i \in Predictions : corrected'[i] # NoAnswer =>
         Known(i)' /\ corrected'[i] \in OptionsOf[VersionOf(i)']
  <2>. SUFFICES ASSUME NEW i \in Predictions, corrected'[i] # NoAnswer
                PROVE  Known(i)' /\ corrected'[i] \in OptionsOf[VersionOf(i)']
    OBVIOUS
  <2>1. Known(i) /\ corrected'[i] \in OptionsOf[VersionOf(i)]
    <3>1. CASE corrected[i] # NoAnswer
      BY <3>1, StoreGrows DEF CorrectionStands
    <3>2. CASE corrected[i] = NoAnswer
      <4>1. Correct(r)
        BY <3>2 DEF Kinds, Refuse, MoveOn, AddPrediction, CountOk, SaveTemplate, Retire, Show, Recent,
           ListOne, Listed, TakeSlot, AddEvaluation, Arrive, store
      <4>. QED BY <1>6, <3>2, <4>1
    <3>. QED BY <3>1, <3>2
  <2>2. VersionOf(i)' = VersionOf(i)
    <3>1. CASE i \in Stored
      BY <3>1 DEF VersionOf
    <3>2. CASE i \in Requests
      <4>1. pc[i] # "new"
        BY <2>1, <3>2 DEF Written, WrittenOf
      <4>. QED BY <3>2, <4>1, Frame DEF VersionOf
    <3>. QED BY <3>1, <3>2 DEF Predictions
  <2>. QED BY <2>1, <2>2, StoreGrows
<1>. QED BY <1>7, <1>8, <1>9, <1>10 DEF CorrectionStands

\* A request is answered once, and adds to the counts at most when it is.
LEMMA CountsStep ==
    ASSUME IInv, NEW r \in Requests, Kinds(r) \/ \E o \in Ops : Arrive(r, o)
    PROVE  /\ Counts'
           /\ versions' \in AtStart..MaxVersion
           /\ outcomes' \in [Outcomes -> 0..Cardinality(Requests)]
<1>. USE DEF IInv
<1>1. /\ op \in [Requests -> Ops \cup {NoOp}] /\ pc \in [Requests -> Labels]
      /\ versions \in Nat /\ outcomes \in [Outcomes -> Nat]
      /\ AtStart \in Nat /\ AtStart <= versions /\ "ok" \in Outcomes
      /\ Cardinality(Requests) \in Nat /\ Len(Replayed) \in Nat /\ Len(order) \in Nat
  <2>1. Cardinality(Requests) \in Nat
    BY HandlersAssumption, FS_CardinalityType
  <2>2. Len(order) \in Nat
    BY LenProperties DEF Typed
  <2>3. Len(Replayed) \in Nat
    BY HandlersAssumption, LenProperties
  <2>4. \A o \in Outcomes : outcomes[o] \in Nat
    BY <2>1 DEF TypeOK
  <2>5. outcomes \in [Outcomes -> Nat]
    BY <2>4 DEF TypeOK
  <2>6. versions \in Nat /\ AtStart <= versions /\ AtStart \in Nat
    BY <2>1, HandlersAssumption DEF TypeOK, MaxVersion
  <2>. QED BY <2>1, <2>2, <2>3, <2>5, <2>6 DEF TypeOK, Labels, Outcomes
<1>. DEFINE done == Cardinality(Done)
            more == Cardinality(Done')
<1>2. /\ done \in Nat /\ more \in Nat /\ done <= more /\ more <= Cardinality(Requests)
      /\ pc'[r] = "done" => more = done + 1
  <2>1. /\ IsFiniteSet(Done) /\ Done \subseteq Requests /\ Done' \subseteq Requests /\ r \notin Done
        /\ Done' = IF pc'[r] = "done" THEN Done \cup {r} ELSE Done
    <3>1. Done \subseteq Requests /\ Done' \subseteq Requests
      BY DEF Done
    <3>2. IsFiniteSet(Done)
      BY <3>1, FS_Subset, HandlersAssumption
    <3>. QED BY <3>1, <3>2, Frame DEF Done
  <2>2. done \in Nat /\ (pc'[r] = "done" => more = done + 1) /\ (pc'[r] # "done" => more = done)
    BY <2>1, FS_AddElement, FS_CardinalityType
  <2>3. more <= Cardinality(Requests)
    BY <2>1, FS_Subset, HandlersAssumption
  <2>. QED BY <2>2, <2>3
<1>. HIDE DEF done, more
<1>3. versions' = versions \/ (versions' = versions + 1 /\ pc'[r] = "done")
  <2>1. CASE SaveTemplate(r)
    BY <1>1, <2>1 DEF SaveTemplate, Respond
  <2>2. CASE ~SaveTemplate(r)
    BY <2>2 DEF Kinds, Refuse, MoveOn, AddPrediction, CountOk, Retire, Correct, Show, Recent, ListOne,
       Listed, TakeSlot, AddEvaluation, Arrive, store
  <2>. QED BY <2>1, <2>2
<1>4. UNCHANGED outcomes \/ (pc'[r] = "done" /\ \E o \in Outcomes : Count(o))
  <2>1. CASE Refuse(r)
    BY <1>1, <2>1 DEF Refuse, Respond
  <2>2. CASE CountOk(r)
    BY <1>1, <2>2 DEF CountOk, Respond
  <2>3. CASE ~Refuse(r) /\ ~CountOk(r)
    BY <2>3 DEF Kinds, MoveOn, AddPrediction, SaveTemplate, Retire, Correct, Show, Recent, ListOne,
       Listed, TakeSlot, AddEvaluation, Arrive
  <2>. QED BY <2>1, <2>2, <2>3
<1>5. versions <= AtStart + done /\ \A o \in Outcomes : outcomes[o] <= done
  BY DEF Counts, done
<1>6. versions' \in Nat /\ AtStart <= versions' /\ versions' <= AtStart + more
  BY <1>1, <1>2, <1>3, <1>5
<1>7. outcomes' \in [Outcomes -> Nat] /\ \A o \in Outcomes : outcomes'[o] <= more
  <2>1. CASE UNCHANGED outcomes
    <3>. SUFFICES ASSUME NEW o \in Outcomes PROVE outcomes[o] <= more
      BY <1>1, <2>1
    <3>. QED BY <1>1, <1>2, <1>5
  <2>2. CASE pc'[r] = "done" /\ \E o \in Outcomes : Count(o)
    <3>1. PICK o \in Outcomes : Count(o)
      BY <2>2
    <3>2. outcomes' \in [Outcomes -> Nat]
      BY <1>1, <3>1 DEF Count
    <3>. SUFFICES ASSUME NEW p \in Outcomes PROVE outcomes'[p] <= more
      BY <3>2
    <3>3. outcomes'[p] = outcomes[p] \/ outcomes'[p] = outcomes[p] + 1
      BY <1>1, <3>1 DEF Count
    <3>. QED BY <1>1, <1>2, <1>5, <2>2, <3>3
  <2>. QED BY <1>4, <2>1, <2>2
<1>8. outcomes'["ok"] + Cardinality(Counting') + Len(Replayed) = Len(order')
  <2>. DEFINE c == Cardinality(Counting)
              d == Cardinality(Counting')
  <2>1. IsFiniteSet(Counting) /\ c \in Nat /\ outcomes["ok"] + c + Len(Replayed) = Len(order)
    <3>1. Counting \subseteq Requests
      BY DEF Counting
    <3>2. IsFiniteSet(Counting)
      BY <3>1, FS_Subset, HandlersAssumption
    <3>. QED BY <3>2, FS_CardinalityType DEF Counts
  <2>2. \A q \in Requests : q # r => (q \in Counting' <=> q \in Counting)
    BY Frame DEF Counting
  <2>3. Counting \subseteq Requests /\ Counting' \subseteq Requests
    BY DEF Counting
  <2>4. CASE AddPrediction(r)
    <3>1. r \notin Counting /\ r \in Counting' /\ UNCHANGED outcomes
      BY <1>1, <2>4 DEF AddPrediction, At, Goto, Counting
    <3>2. Counting' = Counting \cup {r}
      BY <2>2, <2>3, <3>1
    <3>3. d = c + 1
      BY <2>1, <3>1, <3>2, FS_AddElement
    <3>4. Len(order') = Len(order) + 1
      BY <2>4, StoreGrows
    <3>. HIDE DEF c, d
    <3>5. outcomes'["ok"] + d + Len(Replayed) = Len(order')
      BY <1>1, <2>1, <3>1, <3>3, <3>4
    <3>. QED BY <3>5 DEF d
  <2>5. CASE CountOk(r)
    <3>1. ShapeOf(r) /\ op[r].do = "decide" /\ UNCHANGED order
      BY <2>5 DEF CountOk, Shape, ShapeOf, store
    <3>2. r \in Counting /\ r \notin Counting' /\ outcomes'["ok"] = outcomes["ok"] + 1
      BY <1>1, <2>5, <3>1 DEF CountOk, Respond, Count, Counting
    <3>3. Counting' = Counting \ {r}
      BY <2>2, <2>3, <3>2
    <3>4. d = c - 1
      BY <2>1, <3>2, <3>3, FS_RemoveElement
    <3>. HIDE DEF c, d
    <3>5. outcomes'["ok"] + d + Len(Replayed) = Len(order')
      BY <1>1, <2>1, <3>1, <3>2, <3>4
    <3>. QED BY <3>5 DEF d
  <2>6. CASE ~AddPrediction(r) /\ ~CountOk(r)
    <3>1. UNCHANGED order
      BY <2>6, StoreGrows
    <3>2. outcomes'["ok"] = outcomes["ok"]
      BY <1>1, <2>6 DEF Kinds, Refuse, MoveOn, SaveTemplate, Retire, Correct, Show, Recent, ListOne,
         Listed, TakeSlot, AddEvaluation, Arrive, Count, store
    <3>3. r \notin Counting
      BY <2>6, <1>1 DEF Kinds, Refuse, MoveOn, SaveTemplate, Retire, Correct, MayCorrect, Show, Recent,
         ListOne, Listed, TakeSlot, AddEvaluation, Arrive, At, Counting
    <3>4. r \notin Counting'
      <4>1. pc'[r] # "counting"
        BY <2>6, <1>1 DEF Kinds, Refuse, MoveOn, SaveTemplate, Retire, Correct, MayCorrect, Show, Recent,
           ListOne, Listed, TakeSlot, AddEvaluation, Arrive, At, Goto, Respond
      <4>. QED BY <4>1 DEF Counting
    <3>5. Counting' = Counting
      BY <2>2, <2>3, <3>3, <3>4
    <3>. QED BY <2>1, <3>1, <3>2, <3>5
  <2>. QED BY <2>4, <2>5, <2>6
<1>9. Counts'
  BY <1>6, <1>7, <1>8 DEF Counts, more
<1>10. versions' \in AtStart..MaxVersion
  BY <1>1, <1>2, <1>6 DEF MaxVersion
<1>11. outcomes' \in [Outcomes -> 0..Cardinality(Requests)]
  <2>1. ASSUME NEW o \in Outcomes PROVE outcomes'[o] \in 0..Cardinality(Requests)
    BY <1>1, <1>2, <1>7
  <2>. QED BY <1>7, <2>1
<1>. QED BY <1>9, <1>10, <1>11

LEMMA PageFits ==
    TypeOK => \A q \in Requests : Len(page[q]) + Len(todo[q]) <= Limit \/ Len(page[q]) = 1
BY ZenonT(60) DEF TypeOK

\* Pages and what is left to read keep to their types and to the limit.
LEMMA TypedStep ==
    ASSUME IInv, NEW r \in Requests, Kinds(r) \/ \E o \in Ops : Arrive(r, o)
    PROVE  /\ Typed'
           /\ \A q \in Requests : Len(page'[q]) + Len(todo'[q]) <= Limit \/ Len(page'[q]) = 1
<1>. USE DEF IInv
<1>1. /\ op \in [Requests -> Ops \cup {NoOp}]
      /\ page \in [Requests -> Seq(Entries)] /\ todo \in [Requests -> Seq(Predictions)]
      /\ order \in Seq(Predictions) /\ Limit \in Nat /\ Len(order) \in Nat
      /\ corrected \in [Predictions -> Answers \cup {NoAnswer}]
  BY HandlersAssumption, LenProperties DEF TypeOK, Typed
<1>2. Len(page[r]) + Len(todo[r]) <= Limit \/ Len(page[r]) = 1
  BY PageFits
<1>3. /\ page' \in [Requests -> Seq(Entries)] /\ todo' \in [Requests -> Seq(Predictions)]
      /\ Len(page'[r]) + Len(todo'[r]) <= Limit \/ Len(page'[r]) = 1
  <2>1. CASE Retire(r)
    <3>1. page' = [page EXCEPT ![r] = <<Shown(retiredBy'[op[r].version], NoAnswer)>>] /\ todo' = todo
      BY <2>1 DEF Retire
    <3>2. Did(r, "retire", 200)' /\ op'[r] = op[r]
      BY <2>1, Frame DEF Retire, At, Respond, Did, TypeOK
    <3>3. op[r].version \in Versions /\ retiredBy'[op[r].version] # NoRequest
      BY <3>2, RetirementStep DEF RetirementShown, IsRetired
    <3>4. retiredBy'[op[r].version] \in Predictions
      BY <3>3, StoreGrows DEF Predictions
    <3>5. Shown(retiredBy'[op[r].version], NoAnswer) \in Entries
      BY <3>4 DEF Shown, Entries
    <3>. QED BY <1>1, <3>1, <3>5
  <2>2. CASE Show(r)
    <3>1. page' = [page EXCEPT ![r] = <<Shown(op[r].id, corrected[op[r].id])>>] /\ todo' = todo
      BY <2>2 DEF Show
    <3>2. op[r].id \in Predictions
      BY <1>1, <2>2, OpsShape DEF Show, At, NoOp
    <3>3. Shown(op[r].id, corrected[op[r].id]) \in Entries
      BY <1>1, <3>2 DEF Shown, Entries
    <3>. QED BY <1>1, <3>1, <3>3
  <2>3. CASE Recent(r)
    <3>1. page' = page /\ todo' = [todo EXCEPT ![r] = Newest(order)] /\ page[r] = <<>>
      BY <2>3 DEF Recent, At, Shape, ShapeOf
    <3>2. /\ Newest(order) \in Seq(Predictions)
          /\ Len(Newest(order)) = IF Len(order) < Limit THEN Len(order) ELSE Limit
      BY <1>1, NewestProperties
    <3>3. Len(Newest(order)) <= Limit /\ Len(Newest(order)) \in Nat
      BY <1>1, <3>2
    <3>4. Len(page'[r]) = 0 /\ todo'[r] = Newest(order)
      BY <1>1, <3>1
    <3>. QED BY <1>1, <3>1, <3>2, <3>3, <3>4
  <2>4. CASE ListOne(r) /\ Known(Head(todo[r]))
    <3>. DEFINE i == Head(todo[r])
                e == Shown(i, corrected[i])
    <3>1. page' = [page EXCEPT ![r] = Append(@, e)] /\ todo' = [todo EXCEPT ![r] = Tail(@)]
          /\ todo[r] # <<>>
      BY <2>4 DEF ListOne
    <3>2. /\ i \in Predictions /\ Tail(todo[r]) \in Seq(Predictions)
          /\ Len(Tail(todo[r])) = Len(todo[r]) - 1 /\ Len(todo[r]) \in Nat
      BY <1>1, <3>1, HeadTailProperties, EmptySeq, LenProperties
    <3>3. e \in Entries
      BY <1>1, <3>2 DEF Shown, Entries
    <3>. HIDE DEF i, e
    <3>4. /\ Append(page[r], e) \in Seq(Entries) /\ Len(Append(page[r], e)) = Len(page[r]) + 1
          /\ Len(page[r]) \in Nat
      BY <1>1, <3>3, AppendProperties, LenProperties
    <3>5. page'[r] = Append(page[r], e) /\ todo'[r] = Tail(todo[r])
      BY <1>1, <3>1
    <3>6. Len(page[r]) + Len(todo[r]) <= Limit
      <4>1. op[r].do = "recent" /\ pc[r] = "listing"
        BY <2>4 DEF ListOne, Shape, ShapeOf
      <4>2. PICK n \in 0..Len(order) : Lists(r, n)
        BY <4>1 DEF Pages, PageOf
      <4>. QED BY <1>1, <4>2 DEF Lists
    <3>. QED BY <1>1, <3>1, <3>2, <3>4, <3>5, <3>6
  <2>5. CASE UNCHANGED <<page, todo>>
    BY <1>1, <1>2, <2>5
  <2>. QED BY <2>1, <2>2, <2>3, <2>4, <2>5 DEF Kinds, Refuse, MoveOn, AddPrediction, CountOk,
        SaveTemplate, Correct, Listed, TakeSlot, AddEvaluation, Arrive
<1>4. \A q \in Requests : Len(page'[q]) + Len(todo'[q]) <= Limit \/ Len(page'[q]) = 1
  <2>. SUFFICES ASSUME NEW q \in Requests, q # r
                PROVE  Len(page'[q]) + Len(todo'[q]) <= Limit \/ Len(page'[q]) = 1
    BY <1>3
  <2>1. page'[q] = page[q] /\ todo'[q] = todo[q]
    BY Frame
  <2>. QED BY <2>1, PageFits
<1>. QED BY <1>3, <1>4, StoreGrows DEF Typed

\* What the store agrees with it keeps agreeing with, and what was told stays told.
LEMMA StandsStays ==
    ASSUME IInv, NEW r \in Requests, Kinds(r) \/ \E o \in Ops : Arrive(r, o),
           NEW e \in Entries, Stands(e)
    PROVE  Stands(e)'
<1>1. e.id \in Predictions
  BY DEF Entries
<1>2. Known(e.id) /\ e.answer \in {NoAnswer, corrected[e.id]}
  BY DEF Stands
<1>3. Known(e.id)' /\ (corrected[e.id] # NoAnswer => corrected'[e.id] = corrected[e.id])
  BY <1>1, <1>2, StoreGrows
<1>. QED BY <1>2, <1>3 DEF Stands

LEMMA ToldStays ==
    ASSUME IInv, NEW r \in Requests, Kinds(r) \/ \E o \in Ops : Arrive(r, o),
           NEW q \in Requests, pc[q] = "done" \/ q # r
    PROVE  Told(q)' = Told(q)
<1>1. q # r
  BY Frame
<1>2. op'[q] = op[q] /\ pc'[q] = pc[q] /\ status'[q] = status[q] /\ page'[q] = page[q]
  BY <1>1, Frame
<1>. QED BY <1>2 DEF Told, Did

\* A listing is of what was there when it was made, whatever is appended since.
LEMMA ListsStays ==
    ASSUME IInv, NEW r \in Requests, Kinds(r) \/ \E o \in Ops : Arrive(r, o),
           NEW q \in Requests, NEW n \in 0..Len(order), Lists(q, n),
           page'[q] = page[q], todo'[q] = todo[q], before'[q] = before[q]
    PROVE  n \in 0..Len(order') /\ Lists(q, n)'
<1>. DEFINE a == Len(page[q])
            b == Len(todo[q])
            L == Len(order)
<1>1. /\ a \in Nat /\ b \in Nat /\ L \in Nat /\ Limit \in Nat /\ n \in 0..L
      /\ L <= Len(order') /\ Len(order') \in Nat
      /\ \A k \in 1..L : order'[k] = order[k]
  BY StoreGrows, LenProperties, HandlersAssumption DEF IInv, Typed
<1>2. /\ a + b = IF n < Limit THEN n ELSE Limit
      /\ \A k \in 1..a : page[q][k].id = order[n - k + 1]
      /\ \A k \in 1..b : todo[q][k] = order[n - a - k + 1]
      /\ \A p \in before[q] : \A e \in Told(p) : \E m \in 1..n : order[m] = e.id
  BY DEF Lists
<1>. HIDE DEF a, b, L
<1>3. /\ \A k \in 1..a : n - k + 1 \in 1..L
      /\ \A k \in 1..b : n - a - k + 1 \in 1..L
      /\ \A m \in 1..n : m \in 1..L
      /\ n \in 0..Len(order')
  BY <1>1, <1>2
<1>4. \A p \in before[q] : Told(p)' = Told(p)
  BY ToldStays DEF IInv, BeforeIsDone, Done
<1>5. /\ \A k \in 1..a : page'[q][k].id = order'[n - k + 1]
      /\ \A k \in 1..b : todo'[q][k] = order'[n - a - k + 1]
  BY <1>1, <1>2, <1>3
<1>6. \A p \in before'[q] : \A e \in Told(p)' : \E m \in 1..n : order'[m] = e.id
  BY <1>1, <1>2, <1>3, <1>4
<1>7. a = Len(page'[q]) /\ b = Len(todo'[q])
  BY DEF a, b
<1>. QED BY <1>2, <1>3, <1>5, <1>6, <1>7 DEF Lists

LEMMA PagesStep ==
    ASSUME IInv, NEW r \in Requests, Kinds(r) \/ \E o \in Ops : Arrive(r, o)
    PROVE  Pages'
<1>. USE DEF IInv
<1>1. /\ op \in [Requests -> Ops \cup {NoOp}] /\ pc \in [Requests -> Labels]
      /\ status \in [Requests -> Codes] /\ before \in [Requests -> SUBSET Requests]
      /\ page \in [Requests -> Seq(Entries)] /\ todo \in [Requests -> Seq(Predictions)]
      /\ order \in Seq(Predictions) /\ Len(order) \in Nat
      /\ corrected \in [Predictions -> Answers \cup {NoAnswer}]
  BY LenProperties DEF TypeOK, Typed, Labels, Codes
<1>2. \A q \in Requests : \A p \in before[q] : p \in Requests /\ Told(p)' = Told(p)
  BY <1>1, ToldStays DEF BeforeIsDone, Done
\* A page that stays as it is keeps what the invariant says of it.
<1>3. ASSUME NEW q \in Requests, PageOf(q), op'[q] = op[q], page'[q] = page[q], before'[q] = before[q],
             todo'[q] = todo[q],
             op[q].do = "recent" =>
               /\ pc'[q] = "listing" \/ Did(q, "recent", 200)' => pc[q] = "listing" \/ Did(q, "recent", 200)
               /\ pc'[q] = "done" => status'[q] # 404 /\ (status'[q] = 200 => todo[q] = <<>>)
      PROVE  PageOf(q)'
  <2>. SUFFICES ASSUME op[q].do = "recent" PROVE PageOf(q)'
    BY <1>3 DEF PageOf
  <2>1. pc'[q] = "listing" \/ Did(q, "recent", 200)' => \E n \in 0..Len(order') : Lists(q, n)'
    BY <1>3, ListsStays DEF PageOf, Did
  <2>2. \A k \in DOMAIN page'[q] : Stands(page[q][k])'
    <3>1. \A k \in DOMAIN page[q] : page[q][k] \in Entries /\ Stands(page[q][k])
      BY <1>1, <1>3, ElementOfSeq, LenProperties DEF PageOf
    <3>. QED BY <1>3, <3>1, StandsStays
  <2>3. \A p \in before'[q] : \A e \in Told(p)' : \A k \in DOMAIN page'[q] :
               page'[q][k].id = e.id => e.answer \in {page'[q][k].answer, NoAnswer}
    BY <1>2, <1>3 DEF PageOf
  <2>. QED BY <1>3, <2>1, <2>2, <2>3 DEF PageOf
<1>4. ASSUME NEW q \in Requests, q # r PROVE PageOf(q)'
  <2>1. /\ op'[q] = op[q] /\ page'[q] = page[q] /\ before'[q] = before[q] /\ todo'[q] = todo[q]
        /\ pc'[q] = pc[q] /\ status'[q] = status[q]
    BY <1>4, Frame
  <2>2. PageOf(q)
    BY DEF Pages
  <2>3. op[q].do = "recent" /\ pc[q] = "done" => status[q] # 404 /\ (status[q] = 200 => todo[q] = <<>>)
    BY <2>2 DEF PageOf
  <2>. QED BY <1>3, <2>1, <2>2, <2>3 DEF Did
<1>5. PageOf(r) /\ ShapeOf(r)
  BY DEF Pages, Shape
<1>6. ASSUME \E o \in Ops : Arrive(r, o) PROVE PageOf(r)'
  <2>1. pc'[r] = "arrived" /\ page'[r] = <<>>
    BY <1>1, <1>5, <1>6 DEF Arrive, ShapeOf
  <2>2. DOMAIN page'[r] = {}
    BY <2>1
  <2>. QED BY <2>1, <2>2 DEF PageOf, Did
<1>7. ASSUME op[r].do # "recent", Kinds(r) PROVE PageOf(r)'
  <2>1. op'[r] = op[r]
    <3>1. pc[r] # "new"
      BY <1>7 DEF Kinds, Refuse, MoveOn, AddPrediction, CountOk, SaveTemplate, Retire, Correct, MayCorrect,
         Show, Recent, ListOne, Listed, TakeSlot, AddEvaluation, At
    <3>. QED BY <3>1, Frame
  <2>. QED BY <1>7, <2>1 DEF PageOf
<1>8. ASSUME Refuse(r) PROVE PageOf(r)'
  <2>1. /\ op'[r] = op[r] /\ page'[r] = page[r] /\ before'[r] = before[r] /\ todo'[r] = todo[r]
        /\ pc'[r] = "done" /\ status'[r] # 200 /\ (op[r].do = "recent" => status'[r] # 404)
    BY <1>1, <1>8 DEF Refuse, Respond
  <2>. QED BY <1>3, <1>5, <2>1 DEF Did
<1>9. ASSUME Listed(r) PROVE PageOf(r)'
  <2>1. /\ op'[r] = op[r] /\ page'[r] = page[r] /\ before'[r] = before[r] /\ todo'[r] = todo[r]
        /\ pc[r] = "listing" /\ status'[r] = 200 /\ todo[r] = <<>>
    BY <1>1, <1>9 DEF Listed, Respond
  <2>. QED BY <1>3, <1>5, <2>1
<1>10. ASSUME Recent(r) PROVE PageOf(r)'
  <2>. DEFINE new == Newest(order)
  <2>0. PICK n \in 0..Len(order) : n = Len(order)
    BY <1>1
  <2>1. /\ pc'[r] = "listing" /\ page'[r] = <<>> /\ todo'[r] = new /\ before'[r] = before[r]
        /\ order' = order
    BY <1>1, <1>5, <1>10 DEF Recent, At, Goto, ShapeOf, store
  <2>2. DOMAIN page'[r] = {} /\ Len(page'[r]) = 0
    BY <2>1
  <2>3. /\ Len(new) = IF n < Limit THEN n ELSE Limit
        /\ \A k \in 1..Len(new) : new[k] = order[n - k + 1]
        /\ Len(new) \in Nat /\ n \in Nat /\ Limit \in Nat
    BY <1>1, <2>0, NewestProperties, LenProperties, HandlersAssumption
  <2>4. \A p \in before'[r] : \A e \in Told(p)' : \E m \in 1..n : order[m] = e.id
    <3>. SUFFICES ASSUME NEW p \in before[r], NEW e \in Told(p)
                  PROVE  \E m \in 1..n : order[m] = e.id
      BY <1>2, <2>1
    <3>1. Known(e.id)
      BY <1>2 DEF TruthTold, Stands
    <3>2. DOMAIN order = 1..n
      BY <1>1, <2>0, LenProperties
    <3>. QED BY <3>1, <3>2 DEF Known, Contains
  <2>. HIDE DEF new
  <2>5. \A k \in 1..Len(new) : new[k] = order[n - 0 - k + 1]
    BY <2>3
  <2>6. Lists(r, n)'
    BY <2>1, <2>2, <2>3, <2>4, <2>5 DEF Lists
  <2>7. n \in 0..Len(order')
    BY <2>1
  <2>. QED BY <2>1, <2>2, <2>6, <2>7 DEF PageOf
<1>11. ASSUME ListOne(r) /\ Known(Head(todo[r])) PROVE PageOf(r)'
  <2>. DEFINE i == Head(todo[r])
              new == Shown(i, corrected[i])
              a == Len(page[r])
              b == Len(todo[r])
  <2>1. /\ pc'[r] = "listing" /\ op'[r] = op[r] /\ op[r].do = "recent" /\ pc[r] = "listing"
        /\ page'[r] = Append(page[r], new) /\ todo'[r] = Tail(todo[r]) /\ todo[r] # <<>>
        /\ before'[r] = before[r] /\ order' = order /\ corrected' = corrected /\ Known(i)
    BY <1>1, <1>5, <1>11 DEF ListOne, ShapeOf, store
  <2>2. PICK n \in 0..Len(order) : Lists(r, n)
    BY <1>5, <2>1 DEF PageOf
  <2>3. /\ i = todo[r][1] /\ b \in Nat \ {0} /\ a \in Nat /\ i \in Predictions
        /\ Len(Tail(todo[r])) = b - 1
        /\ \A k \in 1..(b - 1) : Tail(todo[r])[k] = todo[r][k + 1]
    BY <1>1, <2>1, HeadTailProperties, EmptySeq, LenProperties
  <2>4. new.id = i /\ new.answer = corrected[i] /\ new \in Entries
    BY <1>1, <2>3 DEF Shown, Entries
  <2>. HIDE DEF i, new
  <2>5. /\ Len(page'[r]) = a + 1 /\ page'[r][a + 1] = new /\ DOMAIN page'[r] = 1..(a + 1)
        /\ \A k \in 1..a : page'[r][k] = page[r][k]
    BY <1>1, <2>1, <2>4, AppendProperties, LenProperties
  <2>6. /\ a + b = IF n < Limit THEN n ELSE Limit
        /\ \A k \in 1..a : page[r][k].id = order[n - k + 1]
        /\ \A k \in 1..b : todo[r][k] = order[n - a - k + 1]
        /\ \A p \in before[r] : \A e \in Told(p) : \E m \in 1..n : order[m] = e.id
    BY <2>2 DEF Lists
  <2>7. DOMAIN page[r] = 1..a
    BY <1>1, LenProperties
  <2>. HIDE DEF a, b
  <2>8. /\ Len(page'[r]) + Len(todo'[r]) = IF n < Limit THEN n ELSE Limit
        /\ Len(page'[r]) = a + 1 /\ Len(todo'[r]) = b - 1
    <3>1. Len(todo'[r]) = b - 1 /\ Len(page'[r]) = a + 1
      BY <2>1, <2>3, <2>5
    <3>2. (a + 1) + (b - 1) = a + b
      BY <2>3
    <3>. QED BY <2>6, <3>1, <3>2
  <2>9. \A k \in 1..(a + 1) : page'[r][k].id = order[n - k + 1]
    <3>. SUFFICES ASSUME NEW k \in 1..(a + 1) PROVE page'[r][k].id = order[n - k + 1]
      OBVIOUS
    <3>1. CASE k \in 1..a
      BY <2>5, <2>6, <3>1
    <3>2. CASE k = a + 1
      <4>1. n - a - 1 + 1 = n - k + 1 /\ 1 \in 1..b
        BY <2>2, <2>3, <3>2, <1>1
      <4>. QED BY <2>3, <2>4, <2>5, <2>6, <3>2, <4>1
    <3>. QED BY <2>3, <3>1, <3>2
  <2>10. \A k \in 1..(b - 1) : todo'[r][k] = order[n - (a + 1) - k + 1]
    <3>. SUFFICES ASSUME NEW k \in 1..(b - 1) PROVE todo'[r][k] = order[n - (a + 1) - k + 1]
      OBVIOUS
    <3>1. k + 1 \in 1..b /\ n - a - (k + 1) + 1 = n - (a + 1) - k + 1
      BY <1>1, <2>2, <2>3
    <3>. QED BY <2>1, <2>3, <2>6, <3>1
  <2>11. \A p \in before'[r] : \A e \in Told(p)' : \E m \in 1..n : order[m] = e.id
    BY <1>2, <2>1, <2>6
  <2>12. Lists(r, n)'
    BY <2>1, <2>8, <2>9, <2>10, <2>11 DEF Lists
  <2>13. ASSUME NEW k \in DOMAIN page'[r] PROVE page'[r][k] = new \/ (k \in DOMAIN page[r] /\ page'[r][k] = page[r][k])
    <3>1. k = a + 1 \/ k \in 1..a
      BY <2>3, <2>5
    <3>. QED BY <2>5, <2>7, <3>1
  <2>14. \A k \in DOMAIN page'[r] : Stands(page[r][k])'
    <3>1. \A k \in DOMAIN page[r] : page[r][k] \in Entries /\ Stands(page[r][k])
      BY <1>1, <1>5, <2>1, ElementOfSeq, LenProperties DEF PageOf
    <3>2. Stands(new)
      BY <2>1, <2>4 DEF Stands
    <3>. SUFFICES ASSUME NEW k \in DOMAIN page'[r], NEW e, e = page'[r][k] PROVE Stands(e)'
      BY DEF Stands
    <3>. QED BY <2>4, <2>13, <3>1, <3>2, StandsStays
  <2>15. \A p \in before'[r] : \A e \in Told(p)' : \A k \in DOMAIN page'[r] :
               page'[r][k].id = e.id => e.answer \in {page'[r][k].answer, NoAnswer}
    <3>. SUFFICES ASSUME NEW p \in before[r], NEW e \in Told(p), NEW k \in DOMAIN page'[r],
                         page'[r][k].id = e.id
                  PROVE  e.answer \in {page'[r][k].answer, NoAnswer}
      BY <1>2, <2>1
    <3>1. CASE page'[r][k] = new
      <4>1. e.answer \in {NoAnswer, corrected[e.id]}
        BY <1>2 DEF TruthTold, Stands
      <4>. QED BY <2>4, <3>1, <4>1
    <3>2. CASE k \in DOMAIN page[r] /\ page'[r][k] = page[r][k]
      BY <1>5, <2>1, <3>2 DEF PageOf
    <3>. QED BY <2>13, <3>1, <3>2
  <2>16. n \in 0..Len(order')
    BY <2>1, <2>2
  <2>. QED BY <2>1, <2>12, <2>14, <2>15, <2>16 DEF PageOf
<1>12. PageOf(r)'
  <2>1. MoveOn(r) \/ AddPrediction(r) \/ CountOk(r) \/ SaveTemplate(r) \/ Retire(r) \/ Correct(r)
        \/ Show(r) \/ TakeSlot(r) \/ AddEvaluation(r) => op[r].do # "recent"
    BY <1>5 DEF MoveOn, AddPrediction, CountOk, SaveTemplate, Retire, Correct, MayCorrect, Show, TakeSlot,
       AddEvaluation, At, ShapeOf
  <2>. QED BY <1>6, <1>7, <1>8, <1>9, <1>10, <1>11, <2>1 DEF Kinds
<1>. QED BY <1>4, <1>12 DEF Pages

LEMMA TruthToldStep ==
    ASSUME IInv, NEW r \in Requests, Kinds(r) \/ \E o \in Ops : Arrive(r, o)
    PROVE  TruthTold'
<1>. SUFFICES ASSUME NEW q \in Requests, NEW e \in Entries, e \in Told(q)'
              PROVE  Stands(e)'
  BY DEF TruthTold, Told
<1>1. CASE q # r
  <2>1. e \in Told(q)
    BY <1>1, ToldStays
  <2>2. Stands(e)
    BY <2>1 DEF IInv, TruthTold
  <2>. QED BY <2>2, StandsStays
<1>2. CASE q = r
  <2>1. CASE Did(r, "decide", 201)' /\ e = Shown(r, NoAnswer)
    <3>1. Known(r)'
      BY <2>1, WrittenStep DEF Written, WrittenOf
    <3>2. e.id = r /\ e.answer = NoAnswer
      BY <2>1 DEF Shown
    <3>. QED BY <3>1, <3>2 DEF Stands
  <2>2. CASE Did(r, "correct", 201)' /\ e = Shown(op'[r].id, op'[r].answer)
    <3>1. e.id = op'[r].id /\ e.answer = op'[r].answer
      BY <2>2 DEF Shown
    <3>2. op'[r] \in Ops /\ op'[r].do = "correct"
      BY <2>2, Frame DEF Did, NoOp
    <3>3. op'[r].id \in Predictions /\ op'[r].answer \in Answers
      BY <3>2, OpsShape
    <3>4. corrected'[op'[r].id] = op'[r].answer
      BY <2>2, <3>2, CorrectionStep DEF CorrectionStands, Recorded
    <3>5. corrected'[e.id] # NoAnswer /\ e.id \in Predictions
      BY <3>1, <3>3, <3>4, HandlersAssumption
    <3>6. Known(e.id)'
      BY <3>5, CorrectionStep DEF CorrectionStands
    <3>. QED BY <3>1, <3>4, <3>6 DEF Stands
  <2>3. CASE Did(r, "recent", 200)' /\ \E k \in DOMAIN page'[r] : e = page'[r][k]
    <3>1. op'[r].do = "recent"
      BY <2>3 DEF Did
    <3>2. PICK k \in DOMAIN page'[r] : e = page'[r][k]
      BY <2>3
    <3>. QED BY <3>1, <3>2, PagesStep DEF Pages, PageOf, Stands
  <2>. QED BY <1>2, <2>1, <2>2, <2>3 DEF Told
<1>. QED BY <1>1, <1>2

LEMMA TypeOKStep ==
    ASSUME IInv, NEW r \in Requests, Kinds(r) \/ \E o \in Ops : Arrive(r, o)
    PROVE  TypeOK'
<1>1. IsInjective(order') /\ ToSet(order') \subseteq Predictions
  <2>1. order' \in Seq(Predictions) /\ IsInjective(order')
    BY StoreGrows
  <2>2. \A k \in DOMAIN order' : order'[k] \in Predictions
    BY <2>1, ElementOfSeq, LenProperties
  <2>. QED BY <2>1, <2>2 DEF ToSet
<1>2. scoring' \in Requests \cup {NoRequest}
  BY DEF IInv, TypeOK, Kinds, Refuse, MoveOn, AddPrediction, CountOk, SaveTemplate, Retire, Correct,
     Show, Recent, ListOne, Listed, TakeSlot, AddEvaluation, Arrive
<1>3. \A q \in Requests : Len(page'[q]) + Len(todo'[q]) <= Limit \/ Len(page'[q]) = 1
  BY TypedStep
<1>4. /\ op' \in [Requests -> Ops \cup {NoOp}] /\ before' \in [Requests -> SUBSET Requests]
  BY Frame
<1>7. pc' \in [Requests -> {"new", "arrived", "asking", "writing", "counting", "showing",
                            "listing", "scoring", "done"}]
  BY Frame DEF Labels
<1>8. status' \in [Requests -> {0, 200, 201, 400, 404, 409, 410, 422, 424, 429, 500, 502, 503, 504}]
  BY Frame DEF Codes
<1>5. /\ retiredBy' \in [Versions -> Requests \cup {NoRequest}]
      /\ corrected' \in [Predictions -> Answers \cup {NoAnswer}]
  BY StoreGrows
<1>6. versions' \in AtStart..MaxVersion /\ outcomes' \in [Outcomes -> 0..Cardinality(Requests)]
  BY CountsStep
<1>. QED BY <1>1, <1>2, <1>3, <1>4, <1>5, <1>6, <1>7, <1>8, ZenonT(60) DEF TypeOK

LEMMA InitIInv == Init => IInv
<1>. SUFFICES ASSUME Init PROVE IInv
  OBVIOUS
<1>. USE DEF Init
<1>1. /\ Cardinality(Requests) \in Nat /\ AtStart \in Nat /\ Limit \in Nat
      /\ Replayed \in Seq(Stored) /\ Len(Replayed) \in Nat
  BY HandlersAssumption, FS_CardinalityType, LenProperties
<1>2. \A k \in DOMAIN Replayed : Replayed[k] \in Stored
  BY DEF Stored, ToSet
<1>3. \A r \in Requests : ~Known(r)
  BY <1>2, HandlersAssumption DEF Known, Contains
<1>4. Done = {} /\ Counting = {} /\ Cardinality(Done) = 0 /\ Cardinality(Counting) = 0
  <2>1. Done = {} /\ Counting = {}
    BY DEF Done, Counting
  <2>. QED BY <2>1, FS_EmptySet
<1>5. \A r \in Requests : /\ pc[r] = "new" /\ op[r].do = "nothing" /\ op[r] = NoOp
                          /\ page[r] = <<>> /\ todo[r] = <<>>
  BY DEF NoOp
<1>6. TypeOK
  <2>1. \A r \in Requests : Len(page[r]) + Len(todo[r]) <= Limit
    BY <1>1
  <2>2. versions \in AtStart..MaxVersion
    BY <1>1 DEF MaxVersion
  <2>3. IsInjective(order) /\ ToSet(order) \subseteq Predictions
    BY HandlersAssumption DEF Predictions, Stored
  <2>4. outcomes \in [Outcomes -> 0..Cardinality(Requests)]
    BY <1>1
  <2>. QED BY <2>1, <2>2, <2>3, <2>4 DEF TypeOK
<1>7. Typed
  <2>1. order \in Seq(Predictions)
    BY <1>1, SeqMonotonic DEF Predictions
  <2>. QED BY <2>1 DEF Typed
<1>8. Shape /\ BeforeIsDone
  BY <1>5 DEF Shape, ShapeOf, BeforeIsDone
<1>9. Written
  BY <1>3, <1>5 DEF Written, WrittenOf, Did
<1>10. RetirementShown /\ RetirementSeen /\ OneEvaluation
  BY <1>5, HandlersAssumption DEF RetirementShown, RetirementSeen, OneEvaluation, Did
<1>11. CorrectionStands
  BY <1>5 DEF CorrectionStands, Recorded, Did
<1>12. Counts
  BY <1>1, <1>4 DEF Counts, Outcomes
<1>13. TruthTold /\ Pages
  BY <1>5 DEF TruthTold, Told, Did, Pages, PageOf
<1>. QED BY <1>6, <1>7, <1>8, <1>9, <1>10, <1>11, <1>12, <1>13 DEF IInv

LEMMA StutterIInv == IInv /\ UNCHANGED vars => IInv'
<1>. SUFFICES ASSUME IInv, UNCHANGED vars PROVE IInv'
  OBVIOUS
<1>. USE DEF vars, requests, store
<1>1. TypeOK' /\ Typed' /\ BeforeIsDone'
  BY DEF IInv, TypeOK, Typed, BeforeIsDone, Done
<1>2. Shape' /\ OneEvaluation'
  BY DEF IInv, Shape, ShapeOf, OneEvaluation
<1>3. Written' /\ RetirementShown' /\ RetirementSeen'
  BY DEF IInv, Written, WrittenOf, RetirementShown, RetirementSeen, Did, Known, IsRetired
<1>4. CorrectionStands'
  BY DEF IInv, CorrectionStands, Recorded, Did, Known, VersionOf
<1>5. Counts'
  BY DEF IInv, Counts, Done, Counting
<1>6. TruthTold' /\ Pages'
  <2>1. /\ \A q \in Requests : Told(q)' = Told(q)
        /\ \A e : Stands(e)' <=> Stands(e)
        /\ \A q \in Requests : UNCHANGED <<op[q], pc[q], status[q], page[q], todo[q], before[q]>>
    BY DEF Told, Stands, Did, Known
  <2>2. TruthTold'
    BY <2>1 DEF IInv, TruthTold
  <2>3. \A q \in Requests : before[q] \subseteq Requests
    BY DEF IInv, TypeOK
  <2>4. \A q \in Requests : \A n : Lists(q, n)' <=> Lists(q, n)
    <3>. SUFFICES ASSUME NEW q \in Requests, NEW n PROVE Lists(q, n)' <=> Lists(q, n)
      OBVIOUS
    <3>. DEFINE Then == \A p \in before[q] : \A e \in Told(p) : \E m \in 1..n : order[m] = e.id
    <3>1. Then' <=> Then
      BY <2>1, <2>3
    <3>2. /\ Len(page'[q]) = Len(page[q]) /\ Len(todo'[q]) = Len(todo[q])
          /\ page'[q] = page[q] /\ todo'[q] = todo[q] /\ order' = order
      BY <2>1
    <3>. QED BY <3>1, <3>2 DEF Lists
  <2>5. ASSUME NEW q \in Requests PROVE PageOf(q)'
    <3>1. PageOf(q)
      BY DEF IInv, Pages
    <3>. QED BY <2>1, <2>3, <2>4, <3>1 DEF PageOf, Did, Stands, Known
  <2>. QED BY <2>2, <2>5 DEF Pages
<1>. QED BY <1>1, <1>2, <1>3, <1>4, <1>5, <1>6 DEF IInv

LEMMA StepIInv == IInv /\ [Next]_vars => IInv'
<1>1. ASSUME IInv, Next PROVE IInv'
  <2>1. PICK r \in Requests : (\E o \in Ops : Arrive(r, o)) \/ Step(r)
    BY <1>1 DEF Next
  <2>2. Kinds(r) \/ \E o \in Ops : Arrive(r, o)
    BY <1>1, <2>1, StepKinds
  <2>3. TypeOK' /\ Typed'
    BY <1>1, <2>2, TypeOKStep, TypedStep
  <2>4. Shape' /\ BeforeIsDone' /\ Written' /\ OneEvaluation'
    BY <1>1, <2>2, ShapeStep, WrittenStep
  <2>5. RetirementShown' /\ RetirementSeen' /\ CorrectionStands' /\ Counts'
    BY <1>1, <2>2, RetirementStep, CorrectionStep, CountsStep
  <2>6. TruthTold' /\ Pages'
    BY <1>1, <2>2, TruthToldStep, PagesStep
  <2>. QED BY <2>3, <2>4, <2>5, <2>6 DEF IInv
<1>. QED BY <1>1, StutterIInv

\* The inductive invariant, of every behaviour.
THEOREM HandlersInvariant == Spec => []IInv
BY InitIInv, StepIInv, PTL DEF Spec

-------------------------------------------------------------------------------
(***************************************************************************)
(* Sums.  No prover takes an operator, so an induction is over a set: of   *)
(* numbers, or of subsets.                                                 *)
(***************************************************************************)

\* A set of naturals that is not empty has a least member.
LEMMA LeastNumber ==
    ASSUME NEW T \in SUBSET Nat, T # {}
    PROVE  \E m \in T : \A k \in T : m <= k
<1> DEFINE Below(m) == 1..m
           B == {Below(m) : m \in T}
           R == StrictSubsetOrdering(Nat)
           S == FiniteSubsetsOf(Nat)
<1>1. B \subseteq S /\ B # {}
  <2>1. \A m \in T : IsFiniteSet(1..m) /\ 1..m \subseteq Nat
    BY FS_Interval
  <2>. QED BY <2>1 DEF FiniteSubsetsOf
<1>2. IsWellFoundedOn(R, S)
  BY FS_StrictSubsetOrderingWellFounded
<1>3. \E x \in B : \A y \in B : <<y, x>> \notin R
  <2>. HIDE DEF B, R, S
  <2>. QED BY <1>1, <1>2, WFMin
<1>4. PICK m \in T : \A y \in B : <<y, Below(m)>> \notin R
  BY <1>3
<1>5. ASSUME NEW k \in T PROVE m <= k
  <2>1. <<Below(k), Below(m)>> \notin R
    BY <1>4
  <2>2. SUFFICES ASSUME k < m PROVE FALSE
    OBVIOUS
  <2>3. Below(k) \subseteq Below(m) /\ m \in Below(m) /\ m \notin Below(k)
    BY <2>2
  <2>4. Below(k) \in SUBSET Nat /\ Below(m) \in SUBSET Nat
    OBVIOUS
  <2>. HIDE DEF Below
  <2>. QED BY <2>1, <2>3, <2>4 DEF StrictSubsetOrdering
<1>. QED BY <1>5

\* Induction over the naturals, for a set of them.
LEMMA Induction ==
    ASSUME NEW S \in SUBSET Nat, 0 \in S, \A n \in S : n + 1 \in S
    PROVE  S = Nat
<1> DEFINE T == Nat \ S
<1>. SUFFICES ASSUME T # {} PROVE FALSE
  OBVIOUS
<1>1. PICK m \in T : \A k \in T : m <= k
  <2>. HIDE DEF T
  <2>1. T \in SUBSET Nat
    BY DEF T
  <2>. QED BY <2>1, LeastNumber
<1>2. m # 0 /\ m - 1 \in Nat
  OBVIOUS
<1>3. m - 1 \in S
  BY <1>1, <1>2
<1>. QED BY <1>1, <1>2, <1>3

\* h is what a sum of f makes, set by set.
Summing(h, f, D) ==
    h = [s \in SUBSET D |->
            IF s = {} THEN 0 ELSE f[CHOOSE x \in s : TRUE] + h[s \ {CHOOSE x \in s : TRUE}]]

\* A sum over a finite set is defined.
LEMMA SumIsDefined ==
    ASSUME NEW D, IsFiniteSet(D), NEW f \in [D -> Nat]
    PROVE  \E h : Summing(h, f, D)
<1> DEFINE First(s) == CHOOSE x \in s : TRUE
           Of(h, s) == IF s = {} THEN 0 ELSE f[First(s)] + h[s \ {First(s)}]
           Upto(k) == \E h \in [SUBSET D -> Nat] : \A s \in SUBSET D :
                          Cardinality(s) <= k => h[s] = Of(h, s)
           S == {k \in Nat : Upto(k)}
<1>1. ASSUME NEW s \in SUBSET D
      PROVE  /\ Cardinality(s) \in Nat /\ Cardinality(s) <= Cardinality(D)
             /\ Cardinality(s) = 0 <=> s = {}
             /\ s # {} => /\ First(s) \in s /\ First(s) \in D /\ s \ {First(s)} \in SUBSET D
                          /\ Cardinality(s \ {First(s)}) = Cardinality(s) - 1
  <2>1. IsFiniteSet(s)
    BY FS_Subset
  <2>2. s # {} => First(s) \in s
    OBVIOUS
  <2> HIDE DEF First
  <2>3. s # {} => Cardinality(s \ {First(s)}) = Cardinality(s) - 1
    BY <2>1, <2>2, FS_RemoveElement
  <2>. QED BY <2>1, <2>2, <2>3, FS_CardinalityType, FS_EmptySet, FS_Subset
<1>2. 0 \in S
  <2> DEFINE h == [s \in SUBSET D |-> 0]
  <2>1. h \in [SUBSET D -> Nat]
    OBVIOUS
  <2>2. ASSUME NEW s \in SUBSET D, Cardinality(s) <= 0 PROVE h[s] = Of(h, s)
    <3>1. s = {}
      <4> HIDE DEF First
      <4>1. Cardinality(s) \in Nat /\ (Cardinality(s) = 0 <=> s = {})
        BY <1>1
      <4>. QED BY <2>2, <4>1
    <3>. QED BY <3>1
  <2> HIDE DEF h, Of
  <2>. QED BY <2>1, <2>2
<1>3. ASSUME NEW k \in S PROVE k + 1 \in S
  <2>1. k \in Nat
    OBVIOUS
  <2>2. PICK h \in [SUBSET D -> Nat] : \A s \in SUBSET D : Cardinality(s) <= k => h[s] = Of(h, s)
    <3> HIDE DEF Of
    <3>. QED OBVIOUS
  <2> HIDE DEF First
  <2> DEFINE g == [s \in SUBSET D |-> Of(h, s)]
  <2>3. g \in [SUBSET D -> Nat]
    <3>. SUFFICES ASSUME NEW s \in SUBSET D PROVE Of(h, s) \in Nat
      BY DEF Of
    <3>1. CASE s = {}
      BY <3>1
    <3>2. CASE s # {}
      <4>1. First(s) \in D /\ s \ {First(s)} \in SUBSET D
        BY <1>1, <3>2
      <4>. QED BY <3>2, <4>1
    <3>. QED BY <3>1, <3>2
  <2>4. ASSUME NEW s \in SUBSET D, Cardinality(s) <= k + 1 PROVE g[s] = Of(g, s)
    <3>1. CASE s = {}
      BY <3>1
    <3>2. CASE s # {}
      <4> DEFINE rest == s \ {First(s)}
      <4>1. rest \in SUBSET D /\ Cardinality(rest) <= k
        BY <1>1, <2>1, <2>4, <3>2
      <4>2. h[rest] = Of(h, rest)
        BY <2>2, <4>1
      <4>3. g[rest] = h[rest]
        <5> HIDE DEF rest, Of
        <5>. QED BY <4>1, <4>2
      <4>. QED BY <3>2, <4>3
    <3>. QED BY <3>1, <3>2
  <2> HIDE DEF g, Of
  <2>5. Upto(k + 1)
    BY <2>3, <2>4
  <2>. QED BY <2>1, <2>5
<1>4. S = Nat
  <2>. HIDE DEF Upto
  <2>1. S \in SUBSET Nat
    OBVIOUS
  <2> HIDE DEF S
  <2>. QED BY <1>2, <1>3, <2>1, Induction
<1>5. Cardinality(D) \in Nat
  BY FS_CardinalityType
<1>6. Upto(Cardinality(D))
  <2> HIDE DEF Upto
  <2>1. Cardinality(D) \in S
    BY <1>4, <1>5
  <2>. QED BY <2>1
<1>7. PICK h \in [SUBSET D -> Nat] : \A s \in SUBSET D : Cardinality(s) <= Cardinality(D) => h[s] = Of(h, s)
  <2> HIDE DEF Of
  <2>. QED BY <1>6
<1>8. \A s \in SUBSET D : h[s] = Of(h, s)
  <2> HIDE DEF Of
  <2>. QED BY <1>1, <1>7
<1>. QED BY <1>8 DEF Summing

\* FoldFunction sums that way.
LEMMA SumIsFold ==
    ASSUME NEW D, IsFiniteSet(D), NEW f \in [D -> Nat]
    PROVE  \E h : Summing(h, f, D) /\ FoldFunction(+, 0, f) = h[D]
<1>1. DOMAIN f = D
  OBVIOUS
<1> DEFINE OneMore(h, s) == IF s = {} THEN 0
                            ELSE f[CHOOSE x \in s : TRUE] + h[s \ {CHOOSE x \in s : TRUE}]
           iter == CHOOSE h : h = [s \in SUBSET D |-> OneMore(h, s)]
<1>2. FoldFunction(+, 0, f) = iter[D]
  BY <1>1 DEF FoldFunction, FoldFunctionOnSet, MapThenFoldSet
<1>3. PICK h : Summing(h, f, D)
  BY SumIsDefined
<1>4. h = [s \in SUBSET D |-> OneMore(h, s)]
  BY <1>3 DEF Summing
<1> HIDE DEF OneMore
<1>5. iter = [s \in SUBSET D |-> OneMore(iter, s)]
  BY <1>4
<1>. QED BY <1>2, <1>5 DEF Summing, OneMore

\* What holds of a set when it holds of it with any one member less holds of each set.
LEMMA SetsByOne ==
    ASSUME NEW D, IsFiniteSet(D), NEW G,
           \A s \in SUBSET D : (\A x \in s : s \ {x} \in G) => s \in G
    PROVE  \A s \in SUBSET D : s \in G
<1> DEFINE B == (SUBSET D) \ G
           R == StrictSubsetOrdering(D)
           S == FiniteSubsetsOf(D)
<1>. SUFFICES ASSUME B # {} PROVE FALSE
  OBVIOUS
<1>0. \A s \in B : s \in SUBSET D /\ s \notin G
  OBVIOUS
<1>1. B \subseteq S
  BY FS_Subset DEF FiniteSubsetsOf
<1>2. IsWellFoundedOn(R, S)
  BY FS_StrictSubsetOrderingWellFounded
<1>3. PICK s \in B : \A t \in B : <<t, s>> \notin R
  <2>. HIDE DEF B, R, S
  <2>. QED BY <1>1, <1>2, WFMin
<1>4. ASSUME NEW x \in s PROVE s \ {x} \in G
  <2>1. s \ {x} \in SUBSET D /\ s \in SUBSET D /\ s \ {x} \subseteq s /\ s \ {x} # s
    OBVIOUS
  <2>2. <<s \ {x}, s>> \in R
    BY <2>1 DEF StrictSubsetOrdering
  <2>. QED BY <1>3, <2>1, <2>2
<1> HIDE DEF B, R, S
<1>. QED BY <1>0, <1>4

\* A sum of naturals is a natural, and none if there is nothing to sum.
LEMMA SumOfNats ==
    ASSUME NEW D, IsFiniteSet(D), NEW f \in [D -> Nat]
    PROVE  /\ FoldFunction(+, 0, f) \in Nat
           /\ (\A x \in D : f[x] = 0) => FoldFunction(+, 0, f) = 0
<1>1. PICK h : Summing(h, f, D) /\ FoldFunction(+, 0, f) = h[D]
  BY SumIsFold
<1> DEFINE G == {s \in SUBSET D : h[s] \in Nat /\ ((\A x \in D : f[x] = 0) => h[s] = 0)}
<1>2. ASSUME NEW s \in SUBSET D, \A x \in s : s \ {x} \in G PROVE s \in G
  <2>1. CASE s = {}
    <3>1. h[s] = 0
      BY <1>1, <2>1 DEF Summing
    <3>. QED BY <3>1
  <2>2. CASE s # {}
    <3>1. PICK x \in s : h[s] = f[x] + h[s \ {x}]
      BY <1>1, <2>2 DEF Summing
    <3>2. s \ {x} \in G
      BY <1>2
    <3>3. f[x] \in Nat
      OBVIOUS
    <3>. QED BY <3>1, <3>2, <3>3
  <2>. QED BY <2>1, <2>2
<1>3. D \in G
  <2> HIDE DEF G
  <2>1. \A s \in SUBSET D : s \in G
    BY <1>2, SetsByOne
  <2>. QED BY <2>1
<1>. QED BY <1>1, <1>3

\* Who adds one to a summand adds one to the sum.
LEMMA SumOfOneRaised ==
    ASSUME NEW D, IsFiniteSet(D), NEW f \in [D -> Nat], NEW o \in D
    PROVE  FoldFunction(+, 0, [f EXCEPT ![o] = @ + 1]) = FoldFunction(+, 0, f) + 1
<1> DEFINE more == [f EXCEPT ![o] = @ + 1]
<1>1. more \in [D -> Nat] /\ \A x \in D : more[x] = f[x] + IF x = o THEN 1 ELSE 0
  OBVIOUS
<1> HIDE DEF more
<1>2. PICK h : Summing(h, f, D) /\ FoldFunction(+, 0, f) = h[D]
  BY SumIsFold
<1>3. PICK g : Summing(g, more, D) /\ FoldFunction(+, 0, more) = g[D]
  BY <1>1, SumIsFold
<1> DEFINE G == {s \in SUBSET D : h[s] \in Nat /\ g[s] = h[s] + IF o \in s THEN 1 ELSE 0}
<1>4. ASSUME NEW s \in SUBSET D, \A x \in s : s \ {x} \in G PROVE s \in G
  <2>1. CASE s = {}
    <3>1. h[s] = 0
      BY <1>2, <2>1 DEF Summing
    <3>2. g[s] = 0
      BY <1>3, <2>1 DEF Summing
    <3>. QED BY <2>1, <3>1, <3>2
  <2>2. CASE s # {}
    <3>1. PICK x \in s : x = CHOOSE y \in s : TRUE
      BY <2>2
    <3>2. h[s] = f[x] + h[s \ {x}] /\ g[s] = more[x] + g[s \ {x}]
      BY <1>2, <1>3, <2>2, <3>1 DEF Summing
    <3>3. s \ {x} \in G /\ f[x] \in Nat /\ x \in D
      BY <1>4
    <3>4. more[x] = f[x] + IF x = o THEN 1 ELSE 0
      BY <1>1, <3>3
    <3>. QED BY <3>2, <3>3, <3>4
  <2>. QED BY <2>1, <2>2
<1>5. D \in G
  <2> HIDE DEF G
  <2>1. \A s \in SUBSET D : s \in G
    BY <1>4, SetsByOne
  <2>. QED BY <2>1
<1>. QED BY <1>2, <1>3, <1>5 DEF more

-------------------------------------------------------------------------------
(***************************************************************************)
(* The outcomes of /stats, of which each step adds one at most.            *)
(***************************************************************************)

\* The decisions answered, of which each counts one, may count one, or counts none.
Decided == {r \in Requests : op[r].do = "decide" /\ pc[r] = "done"}
Surely == {r \in Decided : status[r] \notin {400, 404, 500}}
Maybe == {r \in Decided : status[r] # 404}

\* A step counts an outcome for a decision that it ends, or ends none that must be counted.
CountsOne(r) ==
    op'[r].do = "decide" /\ pc'[r] = "done" /\ status'[r] # 404 /\ \E o \in Outcomes : Count(o)
CountsNone(r) ==
    UNCHANGED outcomes /\ (op'[r].do = "decide" /\ pc'[r] = "done" => status'[r] \in {400, 404, 500})

LEMMA CountsOneOrNone ==
    ASSUME IInv, NEW r \in Requests, Step(r) \/ \E o \in Ops : Arrive(r, o)
    PROVE  CountsOne(r) \/ CountsNone(r)
<1>0. /\ op \in [Requests -> Ops \cup {NoOp}] /\ pc \in [Requests -> Labels]
      /\ status \in [Requests -> Codes] /\ ShapeOf(r)
  BY DEF IInv, TypeOK, Codes, Labels, Shape
<1>1. \A code : Respond(r, code) => op'[r] = op[r] /\ status'[r] = code /\ pc'[r] = "done"
  BY <1>0 DEF Respond
<1>2. \A label : Goto(r, label) => op'[r] = op[r] /\ pc'[r] = label
  BY <1>0 DEF Goto
<1>3. CASE \E o \in Ops : Arrive(r, o)
  BY <1>0, <1>3 DEF Arrive, CountsNone
<1>4. CASE BadBody(r) \/ StoreFails(r)
  BY <1>1, <1>4 DEF BadBody, StoreFails, CountsNone
<1>5. CASE DecideStep(r)
  <2>1. CASE TextRefused(r) \/ RetiredVersion(r) \/ UnusableVersion(r)
    BY <1>1, <2>1 DEF TextRefused, RetiredVersion, UnusableVersion, At, Outcomes, Refusals, CountsOne
  <2>2. CASE NoSuchVersion(r)
    BY <1>1, <2>2 DEF NoSuchVersion, CountsNone
  <2>3. CASE AskWorker(r) \/ WorkerAnswers(r) \/ AddPrediction(r)
    BY <1>2, <2>3 DEF AskWorker, WorkerAnswers, AddPrediction, CountsNone
  <2>4. CASE WorkerNoUse(r)
    BY <1>0, <1>1, <2>4 DEF WorkerNoUse, ShapeOf, Outcomes, Unreached, CountsOne
  <2>5. CASE CountOk(r)
    BY <1>0, <1>1, <2>5 DEF CountOk, ShapeOf, Outcomes, CountsOne
  <2>6. CASE \E reason \in Unreached : WorkerSilent(r, reason)
    BY <1>0, <1>1, <2>6 DEF WorkerSilent, ShapeOf, Outcomes, CountsOne
  <2>7. CASE \E outcome \in Refusals : WorkerRefuses(r, outcome)
    <3>1. PICK outcome \in Refusals : WorkerRefuses(r, outcome)
      BY <2>7
    <3>2. StatusOf[outcome] # 404 /\ outcome \in Outcomes
      BY DEF StatusOf, Refusals, Outcomes
    <3>. QED BY <1>0, <1>1, <3>1, <3>2 DEF WorkerRefuses, ShapeOf, CountsOne
  <2>. QED BY <1>5, <2>1, <2>2, <2>3, <2>4, <2>5, <2>6, <2>7 DEF DecideStep
<1>6. CASE TemplateStep(r) \/ HistoryStep(r) \/ EvaluateStep(r)
  <2>1. UNCHANGED outcomes /\ op'[r] = op[r]
    BY <1>1, <1>2, <1>6 DEF TemplateStep, SaveTemplate, NothingToRetire, Retire, HistoryStep,
       CorrectRefused, Correct, Show, Recent, ListOne, Listed, EvaluateStep, ScoringBusy, TakeSlot,
       RowsRefused, Scored, AddEvaluation
  <2>2. op[r].do # "decide"
    BY <1>0, <1>6 DEF ShapeOf, TemplateStep, SaveTemplate, NothingToRetire, Retire, HistoryStep,
       CorrectRefused, Correct, MayCorrect, Show, Recent, ListOne, Listed, EvaluateStep, ScoringBusy,
       TakeSlot, RowsRefused, Scored, AddEvaluation, At
  <2>. QED BY <2>1, <2>2 DEF CountsNone
<1>. QED BY <1>3, <1>4, <1>5, <1>6 DEF Step

\* There are finitely many outcomes.
LEMMA OutcomesAreFew == IsFiniteSet(Outcomes)
<1>1. /\ IsFiniteSet({"timeout", "not_running", "busy", "client_gone", "unreachable"})
      /\ IsFiniteSet({"no_model", "busy", "schema_invalid", "engine_refused", "engine_error"})
      /\ IsFiniteSet({"ok", "retired", "bad_reply"})
  <2>1. ASSUME NEW a, NEW b, NEW c PROVE IsFiniteSet({a, b, c})
    <3>1. IsFiniteSet({a})
      BY FS_Singleton
    <3>2. IsFiniteSet({a} \cup {b})
      BY <3>1, FS_AddElement
    <3>3. IsFiniteSet(({a} \cup {b}) \cup {c})
      BY <3>2, FS_AddElement
    <3>4. {a, b, c} = ({a} \cup {b}) \cup {c}
      OBVIOUS
    <3>. QED BY <3>3, <3>4
  <2>2. ASSUME NEW a, NEW b, NEW c, NEW d, NEW e PROVE IsFiniteSet({a, b, c, d, e})
    <3>1. IsFiniteSet({a, b, c} \cup {d})
      BY <2>1, FS_AddElement
    <3>2. IsFiniteSet(({a, b, c} \cup {d}) \cup {e})
      BY <3>1, FS_AddElement
    <3>3. {a, b, c, d, e} = ({a, b, c} \cup {d}) \cup {e}
      OBVIOUS
    <3>. QED BY <3>2, <3>3
  <2>. QED BY <2>1, <2>2
<1>. QED BY <1>1, FS_Union DEF Outcomes, Unreached, Refusals

\* Only the decision that a step ends joins those answered.
LEMMA DecidedGrow ==
    ASSUME IInv, NEW r \in Requests, Step(r) \/ \E o \in Ops : Arrive(r, o)
    PROVE  LET ends == op'[r].do = "decide" /\ pc'[r] = "done" IN
           /\ r \notin Maybe
           /\ Surely' = IF ends /\ status'[r] \notin {400, 404, 500} THEN Surely \cup {r} ELSE Surely
           /\ Maybe' = IF ends /\ status'[r] # 404 THEN Maybe \cup {r} ELSE Maybe
<1>1. pc[r] # "done" /\ \A q \in Requests : q # r =>
         op'[q] = op[q] /\ pc'[q] = pc[q] /\ status'[q] = status[q]
  BY StepKinds, Frame
<1>. QED BY <1>1 DEF Surely, Maybe, Decided

\* The outcomes add up to what counts surely, and no further than to what may count.
LEMMA CountedStep ==
    ASSUME IInv, EachIsCounted, NEW r \in Requests, Step(r) \/ \E o \in Ops : Arrive(r, o)
    PROVE  EachIsCounted'
<1> DEFINE sum == FoldFunction(+, 0, outcomes)
<1>1. Surely \cup {q \in Decided : status[q] \in {400, 500}} = Maybe
  BY DEF Surely, Maybe, Decided
<1>2. (Surely \cup {q \in Decided : status[q] \in {400, 500}} = Maybe)'
  BY DEF Surely, Maybe, Decided
<1>3. sum \in Cardinality(Surely)..Cardinality(Maybe)
  BY <1>1 DEF EachIsCounted, Surely, Maybe, Decided
<1>4. SUFFICES sum' \in Cardinality(Surely')..Cardinality(Maybe')
  BY <1>2 DEF EachIsCounted, Surely, Maybe, Decided
<1>5. /\ IsFiniteSet(Surely) /\ Cardinality(Surely) \in Nat /\ Surely \subseteq Maybe
      /\ IsFiniteSet(Maybe) /\ Cardinality(Maybe) \in Nat
  <2>1. Maybe \subseteq Requests /\ Surely \subseteq Maybe
    BY DEF Surely, Maybe, Decided
  <2>2. IsFiniteSet(Maybe) /\ IsFiniteSet(Surely)
    BY <2>1, FS_Subset, HandlersAssumption
  <2>. QED BY <2>1, <2>2, FS_CardinalityType
<1>6. r \notin Maybe /\ r \notin Surely
  BY <1>5, DecidedGrow
<1>7. /\ Cardinality(Surely \cup {r}) = Cardinality(Surely) + 1
      /\ Cardinality(Maybe \cup {r}) = Cardinality(Maybe) + 1
  BY <1>5, <1>6, FS_AddElement
<1>8. CASE CountsOne(r)
  <2>1. PICK o \in Outcomes : outcomes' = [outcomes EXCEPT ![o] = @ + 1]
    BY <1>8 DEF CountsOne, Count
  <2>2. outcomes \in [Outcomes -> Nat] /\ IsFiniteSet(Outcomes)
    BY OutcomesAreFew DEF IInv, TypeOK
  <2>3. sum' = FoldFunction(+, 0, outcomes')
    BY DEF FoldFunction, FoldFunctionOnSet, MapThenFoldSet
  <2>4. FoldFunction(+, 0, outcomes') = sum + 1
    BY <2>1, <2>2, SumOfOneRaised
  <2>5. /\ Maybe' = Maybe \cup {r}
        /\ Surely' = Surely \/ Surely' = Surely \cup {r}
    BY <1>8, DecidedGrow DEF CountsOne
  <2>6. /\ Cardinality(Maybe') = Cardinality(Maybe) + 1
        /\ Cardinality(Surely') \in {Cardinality(Surely), Cardinality(Surely) + 1}
    BY <1>7, <2>5
  <2>7. sum' = sum + 1
    BY <2>3, <2>4, Zenon
  <2> HIDE DEF sum
  <2>. QED BY <1>3, <1>5, <2>6, <2>7
<1>9. CASE CountsNone(r)
  <2>1. Surely' = Surely /\ (Maybe' = Maybe \/ Maybe' = Maybe \cup {r})
    BY <1>9, DecidedGrow DEF CountsNone
  <2>2. sum' = sum
    BY <1>9 DEF CountsNone, FoldFunction, FoldFunctionOnSet, MapThenFoldSet
  <2>3. /\ Cardinality(Surely') = Cardinality(Surely)
        /\ Cardinality(Maybe') \in {Cardinality(Maybe), Cardinality(Maybe) + 1}
    BY <1>7, <2>1
  <2> HIDE DEF sum
  <2>. QED BY <1>3, <1>5, <2>2, <2>3
<1>. QED BY <1>8, <1>9, CountsOneOrNone

-------------------------------------------------------------------------------
(***************************************************************************)
(* What follows from it.                                                   *)
(***************************************************************************)

\* Every variable keeps to its domain: a request adds one version and one outcome of a
\* kind at most, and no page grows past the limit.
THEOREM HandlersTypeCorrect == Spec => []TypeOK
<1>1. IInv => TypeOK
  BY DEF IInv
<1>. QED BY <1>1, HandlersInvariant, PTL

\* Nothing is written under a version for a decision that arrived after the version's
\* retirement was answered, and its retirements all answer alike (handler.go:111-127,
\* 152-163, 205).
THEOREM RetiredStaysRetiredHolds == Spec => []RetiredStaysRetired
<1>1. IInv => RetiredStaysRetired
  BY DEF IInv, RetirementShown, RetirementSeen, RetiredStaysRetired
<1>. QED BY <1>1, HandlersInvariant, PTL

\* A correction is told to one request, is the one it asked for, and is offered by the
\* version of its prediction (handler.go:247-267, store.go:381-426).
THEOREM CorrectedOnceHolds == Spec => []CorrectedOnce
<1>1. IInv => CorrectedOnce
  <2>1. \A r : Did(r, "correct", 201) => Recorded(r)
    BY DEF Did, Recorded
  <2>. QED BY <2>1 DEF IInv, CorrectionStands, CorrectedOnce
<1>. QED BY <1>1, HandlersInvariant, PTL

\* Whatever was told before the page was asked for is on it, unless newer decisions
\* fill it; the page is read one lock at a time (handler.go:225-245).
THEOREM PageShowsWhatWasToldHolds == Spec => []PageShowsWhatWasTold
<1>1. ASSUME IInv, NEW q \in Requests, NEW r \in Requests, q \in before[r], pc[r] = "done",
             op[r].do = "recent", status[r] = 200, NEW e \in Told(q)
      PROVE  OnPage(r, e.id, e.answer)
  <2>. DEFINE a == Len(page[r])
              L == Len(order)
  <2>1. todo[r] = <<>> /\ \E n \in 0..L : Lists(r, n)
    BY <1>1 DEF IInv, Pages, PageOf, Did
  <2>2. PICK n \in 0..L : Lists(r, n)
    BY <2>1
  <2>3. /\ a \in Nat /\ L \in Nat /\ Limit \in Nat
        /\ DOMAIN page[r] = 1..a /\ DOMAIN order = 1..L
        /\ Len(todo[r]) = 0
    BY <1>1, <2>1, LenProperties, HandlersAssumption DEF IInv, Typed
  <2>4. /\ a = IF n < Limit THEN n ELSE Limit
        /\ \A k \in 1..a : page[r][k].id = order[n - k + 1]
    BY <2>2, <2>3 DEF Lists
  <2>5. PICK p \in 1..n : order[p] = e.id
    BY <1>1, <2>2 DEF Lists
  <2>. HIDE DEF a, L
  \* A place in the order is the place of what is there.
  <2>6. ASSUME NEW k \in 1..L PROVE Position(order[k]) = k
    BY <1>1, <2>3, <2>6 DEF IInv, TypeOK, IsInjective, Position
  <2>7. CASE n - p + 1 <= a
    <3>1. n - p + 1 \in 1..a /\ n - (n - p + 1) + 1 = p
      BY <2>3, <2>7
    <3>2. page[r][n - p + 1].id = e.id /\ n - p + 1 \in DOMAIN page[r]
      BY <2>3, <2>4, <2>5, <3>1
    <3>3. e.answer \in {page[r][n - p + 1].answer, NoAnswer}
      BY <1>1, <3>2 DEF IInv, Pages, PageOf
    <3>. QED BY <3>2, <3>3 DEF OnPage
  <2>8. CASE a < n - p + 1
    <3>1. a = Limit
      BY <2>3, <2>4, <2>8
    <3>2. ASSUME NEW k \in 1..a PROVE Position(page[r][k].id) > Position(e.id)
      <4>1. n - k + 1 \in 1..L /\ p \in 1..L /\ n - k + 1 > p
        BY <2>3, <2>4, <2>8
      <4>. QED BY <2>4, <2>5, <2>6, <4>1
    <3>. QED BY <2>3, <3>1, <3>2 DEF OnPage, a
  <2>. QED BY <2>3, <2>7, <2>8
<1>2. IInv => PageShowsWhatWasTold
  <2>. SUFFICES ASSUME IInv, NEW q \in Requests, NEW r \in Requests, q \in before[r],
                       pc[r] = "done", op[r].do = "recent"
                PROVE  /\ status[r] # 404
                       /\ status[r] = 200 =>
                            /\ Did(q, "decide", 201) => OnPage(r, q, NoAnswer)
                            /\ Did(q, "correct", 201) => OnPage(r, op[q].id, op[q].answer)
                            /\ Did(q, "recent", 200) =>
                                 \A k \in DOMAIN page[q] :
                                    OnPage(r, page[q][k].id, page[q][k].answer)
    BY DEF PageShowsWhatWasTold
  <2>1. status[r] # 404
    BY DEF IInv, Pages, PageOf
  <2>2. ASSUME status[r] = 200, Did(q, "decide", 201) PROVE OnPage(r, q, NoAnswer)
    <3>1. Shown(q, NoAnswer) \in Told(q)
      BY <2>2 DEF Told, Entries, Shown, Predictions
    <3>. QED BY <1>1, <2>2, <3>1 DEF Shown
  <2>3. ASSUME status[r] = 200, Did(q, "correct", 201) PROVE OnPage(r, op[q].id, op[q].answer)
    <3>1. op[q].id \in Predictions /\ op[q].answer \in Answers
      BY <2>3, OpsShape DEF IInv, TypeOK, Did, NoOp
    <3>2. Shown(op[q].id, op[q].answer) \in Told(q)
      BY <2>3, <3>1 DEF Told, Entries, Shown
    <3>. QED BY <1>1, <2>3, <3>2 DEF Shown
  <2>4. ASSUME status[r] = 200, Did(q, "recent", 200), NEW k \in DOMAIN page[q]
        PROVE  OnPage(r, page[q][k].id, page[q][k].answer)
    <3>1. page[q][k] \in Entries
      BY ElementOfSeq, LenProperties DEF IInv, Typed
    <3>2. page[q][k] \in Told(q)
      BY <2>4, <3>1 DEF Told
    <3>. QED BY <1>1, <2>4, <3>2
  <2>. QED BY <2>1, <2>2, <2>3, <2>4
<1>. QED BY <1>2, HandlersInvariant, PTL

\* The outcomes of /stats account for every decision: each one that was refused, unlucky
\* or answered is counted once, and "ok" is the number of predictions written since the
\* start, but for those about to be counted (handler.go:137-212).
THEOREM OutcomesAddUpHolds == Spec => []OutcomesAddUp
<1>1. Init => EachIsCounted
  <2>. SUFFICES ASSUME Init PROVE EachIsCounted
    OBVIOUS
  <2> DEFINE either == Surely \cup {q \in Decided : status[q] \in {400, 500}}
  <2>1. Surely = {} /\ either = {}
    BY DEF Init, Decided, Surely
  <2>2. FoldFunction(+, 0, outcomes) = 0
    <3>1. outcomes \in [Outcomes -> Nat] /\ \A o \in Outcomes : outcomes[o] = 0
      BY DEF Init
    <3>. QED BY <3>1, OutcomesAreFew, SumOfNats
  <2>3. Cardinality({}) = 0 /\ 0 \in 0..0
    BY FS_EmptySet
  <2>4. FoldFunction(+, 0, outcomes) \in Cardinality(Surely)..Cardinality(either)
    <3> HIDE DEF either
    <3>. QED BY <2>1, <2>2, <2>3
  <2>. QED BY <2>4 DEF EachIsCounted, Surely, Decided
<1>2. IInv /\ EachIsCounted /\ [Next]_vars => EachIsCounted'
  <2>1. IInv /\ EachIsCounted /\ Next => EachIsCounted'
    BY CountedStep DEF Next
  <2>2. EachIsCounted /\ UNCHANGED vars => EachIsCounted'
    BY DEF EachIsCounted, vars, requests, FoldFunction, FoldFunctionOnSet, MapThenFoldSet
  <2>. QED BY <2>1, <2>2
<1>3. IInv /\ EachIsCounted => OutcomesAddUp
  BY DEF IInv, Counts, Counting, OkIsWritten, OutcomesAddUp
<1>. QED BY <1>1, <1>2, <1>3, HandlersInvariant, PTL DEF Spec

\* The scoring slot is held by an evaluation that runs, and by one at most
\* (handler.go:269-290).
THEOREM OneEvaluationHolds == Spec => []OneEvaluation
<1>1. IInv => OneEvaluation
  BY DEF IInv
<1>. QED BY <1>1, HandlersInvariant, PTL
===============================================================================
