---------------------------- MODULE DecideContract ----------------------------
(***************************************************************************)
(* What the orchestrator and the system-one worker have agreed on for a    *)
(* decision: which questions may be asked (worker.go:CheckQuestions before *)
(* the call, decide.py:parse_decide on arrival) and which answers are of   *)
(* use (decide.py:reply, worker.go:ParseReply).                            *)
(*                                                                         *)
(* A question is a record with the fields of the JSON object.  A fault is  *)
(* the path of the field it is in, which is what both sides report.        *)
(***************************************************************************)
EXTENDS Integers, Sequences

CONSTANTS
    Blank,          \* the options that are blank
    Value,          \* the number that an option spells, for the options that spell one
    None,           \* a field that is left out, and the absence of a fault
    Other,          \* a field that holds a value of another type
    MaxQuestions, MinOptions, MaxOptions

\* The field of a question that a fault is in; "" is the question itself.
Paths == {"", "name", "type", "options", "criteria", "range"}

ASSUME ContractAssumption ==
    /\ MinOptions \in Nat /\ MaxOptions \in Nat /\ MinOptions > 0
    /\ None # Other /\ None \notin Paths

Types == {"choice", "score", "noul"}

Repeats(s) == \E j, k \in DOMAIN s : j < k /\ s[j] = s[k]

\* Every option spells a number, and they do not rise within the range.
Contradicts(options, range) ==
    /\ \A k \in DOMAIN options : options[k] \in DOMAIN Value
    /\ \/ \E j, k \in DOMAIN options : j < k /\ Value[options[j]] > Value[options[k]]
       \/ Value[options[1]] < range.min
       \/ Value[options[Len(options)]] > range.max

-------------------------------------------------------------------------------
(***************************************************************************)
(* The worker: decide.py.                                                  *)
(***************************************************************************)
BadOptions(q) ==
    \/ ~(Len(q.options) \in MinOptions..MaxOptions)
    \/ \E k \in DOMAIN q.options : q.options[k] \in Blank
    \/ Repeats(q.options)
    \/ /\ q.type = "noul"
       /\ ~(Len(q.options) = 2 /\ {q.options[1], q.options[2]} = {"false", "true"})

BadRange(q) ==
    /\ q.range # None
    /\ \/ q.type # "score"
       \/ q.range = Other
       \/ ~(q.range.min < q.range.max)
       \/ Contradicts(q.options, q.range)

\* The first fault of a question, of the right shape or not.
WorkerFault(q) ==
    IF q.shape # "question" THEN ""
    ELSE IF q.name = "" THEN "name"
    ELSE IF q.type \notin Types THEN "type"
    ELSE IF BadOptions(q) THEN "options"
    ELSE IF q.criteria = Other THEN "criteria"
    ELSE IF BadRange(q) THEN "range" ELSE None

NamedBefore(qs, i) == \E j \in DOMAIN qs : j < i /\ qs[j].name = qs[i].name

FaultAt(qs, i) ==
    IF WorkerFault(qs[i]) # None THEN WorkerFault(qs[i])
    ELSE IF NamedBefore(qs, i) THEN "name" ELSE None

\* parse_decide raises for question i, at this path; no question is looked at after it.
Refuses(qs, i, path) ==
    /\ Len(qs) \in 1..MaxQuestions
    /\ i \in DOMAIN qs /\ path # None /\ FaultAt(qs, i) = path
    /\ \A j \in DOMAIN qs : j < i => FaultAt(qs, j) = None

Accepts(qs) ==
    Len(qs) \in 1..MaxQuestions /\ \A i \in DOMAIN qs : FaultAt(qs, i) = None

\* The options as the model is given them, and so the order of its probabilities: a noul is
\* always asked as false, then true (engines/decision.py:render_options).
Rendered(q) == IF q.type = "noul" THEN <<"false", "true">> ELSE q.options

\* What a bug would do instead: take the options in the order they were sent in.
LabelsAsSent(q) == q.options

\* The option that each probability is sent under.
Labels(q) == IF q.type = "noul" THEN <<"false", "true">> ELSE q.options

\* decisions[i] has a probability for each option of question i, as the model was given them.
WorkerAnswer(q, d) ==
    [name |-> q.name, confidence |-> d.confidence, act_probability |-> d.act_probability,
     probabilities |-> [o \in {Labels(q)[k] : k \in DOMAIN Labels(q)} |->
                            d.probabilities[CHOOSE k \in DOMAIN Labels(q) : Labels(q)[k] = o]]]

WorkerReply(revision, qs, decisions) ==
    [model_revision |-> revision,
     answers |-> [i \in DOMAIN qs |-> WorkerAnswer(qs[i], decisions[i])]]

-------------------------------------------------------------------------------
(***************************************************************************)
(* The orchestrator: decisions/worker.go.                                  *)
(***************************************************************************)
optionsFault(q) ==
    \/ Len(q.options) < MinOptions \/ Len(q.options) > MaxOptions
    \/ \E k \in DOMAIN q.options : q.options[k] \in Blank
    \/ Repeats(q.options)
    \/ q.type = "noul" /\ q.options \notin {<<"false", "true">>, <<"true", "false">>}

\* What a bug would do instead: read the range of a question of any type.
rangeFaultOfAnyType(q) ==
    q.range # None /\ (~(q.range.min < q.range.max) \/ Contradicts(q.options, q.range))

rangeFault(q) ==
    /\ q.range # None
    /\ \/ q.type # "score"
       \/ ~(q.range.min < q.range.max)
       \/ Contradicts(q.options, q.range)

checkQuestion(q) ==
    IF q.name = "" THEN "name"
    ELSE IF q.type \notin Types THEN "type"
    ELSE IF optionsFault(q) THEN "options"
    ELSE IF rangeFault(q) THEN "range" ELSE None

\* The issue of question i.  CheckQuestions lists those that are not None, in order.
CheckQuestions(qs) ==
    [i \in DOMAIN qs |->
        IF checkQuestion(qs[i]) # None THEN checkQuestion(qs[i])
        ELSE IF NamedBefore(qs, i) THEN "name" ELSE None]

\* The first issue is at this path of question i.
FirstIssue(qs, i, path) ==
    /\ Len(qs) \in 1..MaxQuestions
    /\ i \in DOMAIN qs /\ path # None /\ CheckQuestions(qs)[i] = path
    /\ \A j \in DOMAIN qs : j < i => CheckQuestions(qs)[j] = None

Usable(qs) ==
    Len(qs) \in 1..MaxQuestions /\ \A i \in DOMAIN qs : CheckQuestions(qs)[i] = None

AnswerTo(reply, name) ==
    reply.answers[CHOOSE j \in DOMAIN reply.answers : reply.answers[j].name = name]

\* ParseReply returns an answer to every question.  Unit is the set of numbers in [0, 1];
\* a NaN is not one of them, and the body that has it is not even JSON.
ParseReply(reply, qs, Unit) ==
    /\ reply.model_revision # ""
    /\ \A j, k \in DOMAIN reply.answers :
          j < k => reply.answers[j].name # reply.answers[k].name
    /\ Len(reply.answers) = Len(qs)
    /\ \A i \in DOMAIN qs :
          /\ \E j \in DOMAIN reply.answers : reply.answers[j].name = qs[i].name
          /\ LET a == AnswerTo(reply, qs[i].name) IN
             /\ a.confidence \in Unit /\ a.act_probability \in Unit
             /\ DOMAIN a.probabilities = {qs[i].options[k] : k \in DOMAIN qs[i].options}
             /\ \A o \in DOMAIN a.probabilities : a.probabilities[o] \in Unit

-------------------------------------------------------------------------------
\* A question as the orchestrator can send it: its Go type leaves out the other shapes.
Typed(q) ==
    /\ q.shape = "question" /\ q.criteria # Other
    /\ q.name \in STRING /\ q.options \in Seq(STRING)
    /\ q.range = None \/ (q.range # Other /\ q.range.min \in Int /\ q.range.max \in Int)

\* A decision for a question, made only of numbers in [0, 1].
InUnit(q, d, Unit) ==
    /\ d.confidence \in Unit /\ d.act_probability \in Unit
    /\ \A k \in DOMAIN Rendered(q) : d.probabilities[k] \in Unit

\* A reply names the revision of its model, and its decisions are made of such numbers.
Readable(revision, qs, decisions, Unit) ==
    revision # "" /\ \A i \in DOMAIN qs : InUnit(qs[i], decisions[i], Unit)

\* Every question is read with the confidence of its own decision, and every option with
\* the probability that the model gave to it.
ReadAsDecided(reply, qs, decisions) ==
    \A i \in DOMAIN qs :
        LET a == AnswerTo(reply, qs[i].name) IN
        /\ a.confidence = decisions[i].confidence
        /\ \A k \in DOMAIN Rendered(qs[i]) :
              a.probabilities[Rendered(qs[i])[k]] = decisions[i].probabilities[k]

\* Both sides name the same first fault, or find none.
SameVerdict(qs) ==
    /\ Accepts(qs) <=> Usable(qs)
    /\ \A i \in DOMAIN qs, path \in Paths :
          Refuses(qs, i, path) <=> FirstIssue(qs, i, path)
===============================================================================
