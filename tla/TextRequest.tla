------------------------------ MODULE TextRequest ------------------------------
(***************************************************************************)
(* One request to a text worker, on /embed, /rerank or /decide: parsed,    *)
(* admitted, run in batches in the model that is resident by then, and     *)
(* answered (embedding_worker/tei.py, reranker_worker/tei.py,              *)
(* system_one_worker/decide.py and their engines).  Meanwhile other        *)
(* requests hold the manager's lock, models come and go, and the caller's  *)
(* patience runs out.                                                      *)
(***************************************************************************)
EXTENDS DecideContract, TextInference

CONSTANTS
    Models,         \* the configurations in the registry, and the route each serves
    Bodies,         \* the requests
    NoModel,
    Unit,           \* the numbers in [0, 1]
    MaxPlanned,     \* max_planned_tokens
    Deadline,       \* deadline_s
    Patience,       \* how long the caller waits (INFERENCES_TIMEOUT)
    Delay,          \* how long a request may take to reach its route
    MaxClock        \* bound: the clock stops here

ASSUME TimesAssumption ==
    /\ Deadline \in Nat /\ Patience \in Nat /\ Delay \in Nat /\ MaxClock \in Nat
    /\ Delay + Deadline < Patience  \* CheckWorkerDeadline, and room for the way there
    /\ NoModel \notin Models

\* What the configurations hold that an engine reads: RerankerConfig and the others take
\* nothing else.
ASSUME ModelsAssumption ==
    /\ MaxPlanned \in Nat
    /\ \A m \in Models :
          /\ m.route \in {"embed", "rerank", "decide"} /\ m.maxBatch \in Nat
          /\ m.route # "decide" => m.maxInput \in Nat
          /\ m.route = "embed" => m.prompts \in [DOMAIN m.prompts -> Nat] /\ m.dimensions \in Nat
          /\ m.route = "rerank" => m.prompt \in Nat /\ m.autoTruncate \in BOOLEAN
          /\ m.route = "decide" => m.maxLen \in Nat \ {0} /\ m.headMaxLen \in Nat

\* A text has a token once the special ones are in, and a document has one around it; a
\* question's weights are the tokens of its options.
ASSUME BodiesAssumption ==
    LET asked == UNION {Range(b.questions) : b \in {c \in Bodies : c.route = "decide"}} IN
    \A b \in Bodies :
       /\ b.route \in {"embed", "rerank", "decide"}
       /\ b.route # "decide" => b.truncate \in BOOLEAN \cup {None}
       /\ b.route = "embed" => b.texts \in Seq(Nat \ {0}) /\ b.dimensions \in Nat
       /\ b.route = "rerank" =>
             /\ b.texts \in Seq(Nat)
             /\ b.before \in Nat /\ b.after \in Nat /\ b.before + b.after > 0
       /\ b.route = "decide" =>
             /\ b.questions \in Seq(asked) /\ b.state \in Nat
             /\ \A i \in DOMAIN b.questions :
                   LET q == b.questions[i] IN
                   /\ q.ins \in Nat /\ q.weights \in Seq(Nat)
                   /\ DOMAIN q.weights = DOMAIN q.options

VARIABLES
    body,       \* the request
    resident,   \* the resident model
    stage,      \* "sent", "parsing", "admission", "waiting" (for the lock), "running",
                \* "forward" (in the graph), "ran", "answered"
    clock,      \* since the caller sent the request
    deadline,
    truncate,   \* whether too long a text may be cut
    offered,    \* a model resident since the request was sent truncates by itself
    job,        \* the model that runs it, the lengths of its sequences, its batches
    done,       \* batches run
    results,    \* results[i]: for which input, by which model, its score
    reply,
    told        \* what /health or /info said of a model that is resident ever since

vars == <<told, body, resident, stage, clock, deadline, truncate, offered, job, done, results, reply>>

Loads(m) ==
    \/ m.route = "embed"  /\ OnnxEmbedderLoads(m)
    \/ m.route = "rerank" /\ RerankerLoads(m)
    \/ m.route = "decide" /\ OnnxDecisionLoads(m)

Residents == {m \in Models : m.route = body.route /\ Loads(m)} \cup {NoModel}

AutoTruncate(m) == m # NoModel /\ m.route = "rerank" /\ m.autoTruncate

Status == [Unhealthy |-> 503, Backend |-> 424, Overloaded |-> 429, Validation |-> 422,
           Empty |-> 400, Refusal |-> 400, TooMuchWork |-> 413, Timeout |-> 504, OK |-> 200,
           MethodNotAllowed |-> 405]

\* An absent field is neither the kind of an answer nor the path of a fault.
ASSUME NoneAssumption == None \notin DOMAIN Status /\ None # <<0, "questions">>

NoReply == [kind |-> None, path |-> None, model |-> NoModel, dimensions |-> 0, answers |-> <<>>,
            decided |-> <<>>]
Refused(kind) == [NoReply EXCEPT !.kind = kind]

Init ==
    /\ body \in Bodies /\ resident \in Residents
    /\ stage = "sent" /\ clock = 0 /\ deadline = 0 /\ truncate = FALSE
    /\ offered = AutoTruncate(resident)
    /\ job = [model |-> NoModel, lengths |-> <<>>, batches |-> <<>>]
    /\ done = 0 /\ results = <<>> /\ reply = NoReply /\ told = None

Answer(r) ==
    /\ reply' = r /\ stage' = "answered"
    /\ UNCHANGED <<told, body, resident, clock, deadline, truncate, offered, job, done, results>>

-------------------------------------------------------------------------------
(***************************************************************************)
(* The surroundings.                                                       *)
(***************************************************************************)
\* Time passes on the way, while another thread holds the lock, and in the graph; only
\* a decision looks at it.
Tick ==
    /\ stage \in {"sent", "waiting", "forward"} /\ clock < MaxClock /\ body.route = "decide"
    /\ stage = "sent" => clock < Delay
    /\ clock' = clock + 1
    /\ UNCHANGED <<told, body, resident, stage, deadline, truncate, offered, job, done, results, reply>>

\* A load or an unload, under the lock that running the request takes: before it is
\* parsed, before it gets the lock, or after it gave it back.
Swap ==
    /\ stage \in {"sent", "waiting", "ran"}
    /\ resident' \in Residents \ {resident}
    /\ offered' = (offered \/ AutoTruncate(resident'))
    /\ told' = None
    /\ UNCHANGED <<body, stage, clock, deadline, truncate, job, done, results, reply>>

-------------------------------------------------------------------------------
(***************************************************************************)
(* GET /health and GET /info, before the request is sent.  They read the   *)
(* resident model once, without the manager's lock; all that they say of   *)
(* it is the registry's.                                                   *)
(***************************************************************************)
EmbedInfo(m) ==
    [model |-> m, max_input_length |-> m.maxInput, auto_truncate |-> FALSE,
     dimensions |-> m.dimensions, prompt_names |-> DOMAIN m.prompts]

RerankInfo(m) ==
    [model |-> m, max_input_length |-> m.maxInput, auto_truncate |-> m.autoTruncate]

DecideInfo(m) ==
    [model |-> m, max_questions |-> MaxQuestions, max_planned_tokens |-> MaxPlanned,
     deadline_s |-> Deadline]

InfoOf(m) == CASE m.route = "embed"  -> EmbedInfo(m)
               [] m.route = "rerank" -> RerankInfo(m)
               [] m.route = "decide" -> DecideInfo(m)

Health ==
    /\ stage = "sent" /\ clock = 0 /\ told = None
    /\ told' = [healthy |-> resident # NoModel, info |-> None]
    /\ UNCHANGED <<body, resident, stage, clock, deadline, truncate, offered, job, done, results, reply>>

Info ==
    /\ stage = "sent" /\ clock = 0 /\ told = None
    /\ resident # NoModel      \* else it says what /health says
    /\ told' = [healthy |-> TRUE, info |-> InfoOf(resident)]
    /\ UNCHANGED <<body, resident, stage, clock, deadline, truncate, offered, job, done, results, reply>>

-------------------------------------------------------------------------------
(***************************************************************************)
(* Parsing.  A body has a set of faults; the first to be looked for is the *)
(* one that is answered.                                                   *)
(***************************************************************************)
EmbedChecks == <<"method", "json", "object", "unknown", "missing", "inputs", "empty", "many",
                 "direction", "dimensions", "prompt_name", "normalize", "truncate">>

RerankChecks == <<"method", "json", "object", "unknown", "missing", "query", "texts", "empty", "many",
                  "raw_scores", "return_text", "truncate", "direction">>

DecideChecks == <<"method", "json", "object", "unknown", "text">>

Checks == CASE body.route = "embed"  -> EmbedChecks
            [] body.route = "rerank" -> RerankChecks
            [] body.route = "decide" -> DecideChecks

FirstFault == SelectInSeq(Checks, LAMBDA check : check \in body.faults)

\* What a bug would do instead: an explicit FALSE is taken for nothing.
FlagOr(value, default) == IF value = TRUE THEN TRUE ELSE default

Flag(value, default) == IF value = None THEN default ELSE value

\* The deadline of a decision is set before anything else is done.
Arrive ==
    /\ stage = "sent"
    /\ deadline' = clock + Deadline
    /\ stage' = "parsing"
    /\ UNCHANGED <<told, body, resident, clock, truncate, offered, job, done, results, reply>>

FaultKind(check) == CASE check = "method" -> "MethodNotAllowed"
                      [] check # "method" /\ body.route = "decide" -> "Refusal"
                      [] check = "empty" /\ body.route # "decide" -> "Empty"
                      [] OTHER -> "Validation"

ParseFails ==
    /\ stage = "parsing" /\ FirstFault # 0
    /\ Answer(Refused(FaultKind(Checks[FirstFault])))

QuestionsFail ==
    /\ stage = "parsing" /\ FirstFault = 0 /\ body.route = "decide"
    /\ \/ /\ ~(Len(body.questions) \in 1..MaxQuestions)
          /\ Answer([Refused("Refusal") EXCEPT !.path = <<0, "questions">>])
       \/ \E i \in DOMAIN body.questions, path \in Paths :
             /\ Refuses(body.questions, i, path)
             /\ Answer([Refused("Refusal") EXCEPT !.path = <<i, path>>])

\* /rerank takes its default from the model that is resident now, which may not be the
\* one that will run it.
Parse ==
    /\ stage = "parsing" /\ FirstFault = 0
    /\ body.route = "decide" => Accepts(body.questions)
    /\ truncate' = (body.route # "decide" /\ Flag(body.truncate, AutoTruncate(resident)))
    /\ stage' = "admission"
    /\ UNCHANGED <<told, body, resident, clock, deadline, offered, job, done, results, reply>>

-------------------------------------------------------------------------------
(***************************************************************************)
(* Admission.run and ModelManager.run.                                     *)
(***************************************************************************)
Overloaded == stage = "admission" /\ Answer(Refused("Overloaded"))

Admit ==
    /\ stage = "admission" /\ stage' = "waiting"
    /\ UNCHANGED <<told, body, resident, clock, deadline, truncate, offered, job, done, results, reply>>

NoModelLoaded == stage = "waiting" /\ resident = NoModel /\ Answer(Refused("Unhealthy"))

EngineRefuses ==
    CASE body.route = "embed"  -> EmbedRefuses(resident, body, truncate)
      [] body.route = "rerank" -> RerankRefuses(resident, body, truncate)
      [] body.route = "decide" -> DecideRefuses(resident, body.questions)

Lengths ==
    CASE body.route = "embed"  -> EmbedLengths(resident, body)
      [] body.route = "rerank" -> RerankLengths(resident, body)
      [] body.route = "decide" -> DecideLengths(resident, body)

\* InvalidRequest: the caller's fault, so 422.
InvalidRequest ==
    /\ stage = "waiting" /\ resident # NoModel /\ EngineRefuses
    /\ Answer(Refused("Validation"))

\* Begin to run, with the deadline as it stands then; a decision that plans too many
\* tokens is told so.
RunUntil(newDeadline) ==
    LET lengths == Lengths
        batches == PlanBatches(lengths, resident.maxBatch) IN
    /\ stage = "waiting" /\ resident # NoModel /\ ~EngineRefuses
    /\ IF body.route = "decide" /\ Planned(lengths, batches) > MaxPlanned
       THEN Answer(Refused("TooMuchWork"))
       ELSE /\ job' = [model |-> resident, lengths |-> lengths, batches |-> batches]
            /\ results' = [i \in DOMAIN lengths |-> None]
            /\ deadline' = newDeadline
            /\ stage' = "running"
            /\ UNCHANGED <<told, body, resident, clock, truncate, offered, done, reply>>

\* What a bug would do instead: count the time from here, when the lock was got.
EnterAnew == RunUntil(clock + Deadline)

Enter == RunUntil(deadline)

DeadlineExceeded ==
    /\ stage = "running" /\ done < Len(job.batches)
    /\ body.route = "decide" /\ clock > deadline
    /\ Answer(Refused("Timeout"))

StartBatch ==
    /\ stage = "running" /\ done < Len(job.batches)
    /\ body.route = "decide" => clock <= deadline
    /\ stage' = "forward"
    /\ UNCHANGED <<told, body, resident, clock, deadline, truncate, offered, job, done, results, reply>>

\* What comes of the row of input i: a score between others, or no number at all; of a
\* question's, its decision.
Scores(i) == CASE body.route = "embed"  -> {0, NaN}
               [] body.route = "rerank" -> {0, 1, NaN}
               [] body.route = "decide" -> Decisions(Len(body.questions[i].options))

ScoresOf(group) == {score \in [group -> UNION {Scores(i) : i \in group}] :
                       \A i \in group : score[i] \in Scores(i)}

Row(i, score) == [index |-> i, of |-> i, by |-> job.model, score |-> score]

\* What a bug would do instead: keep the rows in the order they were run in.
EndBatchInOrder ==
    LET group == job.batches[done + 1]
        before == Total([k \in 1..done |-> Len(job.batches[k])]) IN
    /\ stage = "forward"
    /\ \E score \in ScoresOf(Range(group)) :
          results' = [i \in DOMAIN results |->
                        IF i - before \in DOMAIN group
                        THEN [Row(group[i - before], score[group[i - before]]) EXCEPT !.index = i]
                        ELSE results[i]]
    /\ done' = done + 1 /\ stage' = "running"
    /\ UNCHANGED <<told, body, resident, clock, deadline, truncate, offered, job, reply>>

\* Row r of a batch belongs to the input the batch names there.
EndBatch ==
    LET group == Range(job.batches[done + 1]) IN
    /\ stage = "forward"
    /\ \E score \in ScoresOf(group) :
          results' = [i \in DOMAIN results |->
                        IF i \in group THEN Row(i, score[i]) ELSE results[i]]
    /\ done' = done + 1 /\ stage' = "running"
    /\ UNCHANGED <<told, body, resident, clock, deadline, truncate, offered, job, reply>>

ForwardFails == stage = "forward" /\ Answer(Refused("Backend"))

\* The lock is given back; what follows uses only what the run returned.
Leave ==
    /\ stage = "running" /\ done = Len(job.batches)
    /\ stage' = "ran"
    /\ UNCHANGED <<told, body, resident, clock, deadline, truncate, offered, job, done, results, reply>>

\* Vectors and scores are looked over before they are sent; decisions are not.
NotANumber == body.route # "decide" /\ \E i \in DOMAIN results : results[i].score = NaN

\* What /decide sends besides its status.
DecisionsSent == WorkerReply(job.model.revision, body.questions,
                             [i \in DOMAIN results |-> results[i].score])

\* rank() reads the two flags of /rerank once more.
BadFlag == body.route = "rerank" /\ body.faults # {}

RespondRefused ==
    /\ stage = "ran" /\ (BadFlag \/ NotANumber)
    /\ Answer(Refused(IF BadFlag THEN "Validation" ELSE "Backend"))

Respond ==
    /\ stage = "ran" /\ ~BadFlag /\ ~NotANumber
    /\ LET order == IF body.route = "rerank"
                    THEN Ranked([i \in DOMAIN results |-> results[i].score])
                    ELSE [i \in DOMAIN results |-> i] IN
       Answer([Refused("OK") EXCEPT !.model = job.model,
                                    !.dimensions = IF body.route = "embed"
                                                   THEN Dimensions(job.model, body) ELSE 0,
                                    !.decided = IF body.route = "decide"
                                                THEN DecisionsSent ELSE <<>>,
                                    !.answers = [k \in DOMAIN order |-> results[order[k]]]])

Next ==
    \/ Tick \/ Swap \/ Health \/ Info
    \/ Arrive \/ ParseFails \/ QuestionsFail \/ Parse
    \/ Overloaded \/ Admit \/ NoModelLoaded \/ InvalidRequest \/ Enter
    \/ DeadlineExceeded \/ StartBatch \/ EndBatch \/ ForwardFails \/ Leave
    \/ RespondRefused \/ Respond

Spec == Init /\ [][Next]_vars
-------------------------------------------------------------------------------
InModel == stage \in {"running", "forward", "ran"}
Inputs == IF body.route = "decide" THEN body.questions ELSE body.texts
Limit(m) == IF m.route = "decide" THEN m.maxLen ELSE m.maxInput

\* Every variable keeps to its domain; a sequence is never longer than its model reads
\* (onnx_embedder.py:136-151, cross_encoder.py:148-165, decision.py:184-208).
TypeOK ==
    /\ resident \in Residents
    /\ stage \in {"sent", "parsing", "admission", "waiting", "running", "forward", "ran", "answered"}
    /\ clock \in 0..MaxClock /\ deadline \in 0..(MaxClock + Deadline)
    /\ truncate \in BOOLEAN /\ offered \in BOOLEAN
    /\ reply.kind \in DOMAIN Status \cup {None}
    /\ done \in 0..Len(job.batches)
    /\ job.model # NoModel => \A i \in DOMAIN Inputs : job.lengths[i] \in 1..Limit(job.model)

\* Every input is in exactly one batch, and no batch costs more than the model's
\* max_batch_tokens once it is padded (batching.py:28-38).
BatchesFit ==
    InModel =>
        /\ \A k \in DOMAIN job.batches : Padded(job.lengths, job.batches[k]) <= job.model.maxBatch
        /\ UNION {Range(job.batches[k]) : k \in DOMAIN job.batches} = DOMAIN Inputs
        /\ Total([k \in DOMAIN job.batches |-> Len(job.batches[k])]) = Len(Inputs)

\* An answer that is given answers every input, each from its own sequence and by the
\* model it names, whatever became of that model since; a ranking has the best first
\* and equal ones in request order (tei.py:108-120 of the reranker, decision.py:269-308).
AnswersItsInput ==
    reply.kind = "OK" =>
        LET answers == reply.answers IN
        /\ Len(answers) = Len(Inputs)
        /\ {answers[k].index : k \in DOMAIN answers} = DOMAIN Inputs
        /\ \A k \in DOMAIN answers :
              /\ answers[k].of = answers[k].index
              /\ answers[k].by = reply.model /\ reply.model.route = body.route
              /\ body.route # "rerank" => answers[k].index = k
        /\ body.route = "rerank" =>
              \A j, k \in DOMAIN answers : j < k =>
                  \/ answers[j].score > answers[k].score
                  \/ answers[j].score = answers[k].score /\ answers[j].index < answers[k].index

\* A text is cut only if its caller asked for it, or left it to the worker while a model
\* that truncates by itself was resident (the reranker's tei.py:81-105 and 133-137).
CutOnlyWhenAllowed ==
    InModel /\ body.route # "decide" =>
        LET full(i) == IF body.route = "embed" THEN Prompted(job.model, body, i)
                       ELSE job.model.prompt + Around(body) + body.texts[i] IN
        (\E i \in DOMAIN Inputs : job.lengths[i] < full(i)) =>
            body.truncate = TRUE \/ (body.truncate = None /\ body.route = "rerank" /\ offered)

\* While the model stays that /health or /info spoke of, a well-formed request is treated
\* as they said: it has a model or none, the one that was named, and is refused for its
\* length, its dimensions, its prompt, its number of questions or its deadline only past
\* the limit that /info gave (tei.py:44-75 of the embedder and 47-76 of the reranker,
\* decide.py:89-103).
InfoIsHonoured ==
    stage = "answered" /\ body.faults = {} /\ told # None =>
        /\ reply.kind = "Unhealthy" => ~told.healthy
        /\ reply.kind = "OK" => told.healthy
        /\ told.info # None =>
            LET said == told.info
                truncates == body.route # "decide" /\ Flag(body.truncate, said.auto_truncate) IN
            /\ reply.kind = "OK" =>
                  /\ reply.model = said.model
                  /\ body.route = "embed" =>
                        reply.dimensions = IF body.dimensions = 0 THEN said.dimensions ELSE body.dimensions
            /\ reply.kind = "Validation" /\ body.route = "embed" =>
                  \/ body.dimensions > said.dimensions
                  \/ body.prompt \notin said.prompt_names
                  \/ ~truncates /\ \E i \in DOMAIN Inputs :
                        Prompted(said.model, body, i) > said.max_input_length
            /\ reply.kind = "Validation" /\ body.route = "rerank" =>
                  \E i \in DOMAIN Inputs :
                     LET around == said.model.prompt + Around(body) IN
                     IF truncates THEN around >= said.max_input_length
                     ELSE around + Inputs[i] > said.max_input_length
            /\ body.route = "decide" =>
                  /\ ~(Len(Inputs) \in 1..said.max_questions) <=> reply.path = <<0, "questions">>
                  /\ reply.kind = "TooMuchWork" =>
                        Len(Inputs) * Max(Range(DecideLengths(said.model, body))) > said.max_planned_tokens
                  /\ reply.kind = "Timeout" => clock > said.deadline_s

\* The limits that the worker keeps are the ones it may and the ones it tells.
LimitsAreKept == CutOnlyWhenAllowed /\ InfoIsHonoured

\* The decision that the graph made of question i's own row.
DecisionOn(i) == reply.answers[CHOOSE k \in DOMAIN reply.answers : reply.answers[k].of = i].score

\* What the orchestrator would send, the worker does not refuse for its questions; what
\* it would not, the worker refuses at the same path.  Of the answers, ParseReply reads
\* those that name a revision and hold numbers in [0, 1] only: an even choice whose
\* confidence was rounded below 0, a number that was lost in the graph and a model with
\* no pinned files are answered with 200 and not read (decision.py:112-118, decide.py:85-87
\* and 108-109, worker.go:140-172).  What is read is what was decided: every option has
\* the probability, and every question the confidence, of its own row.
ContractHolds ==
    stage = "answered" /\ body.route = "decide" /\ body.faults = {}
        /\ (\A i \in DOMAIN body.questions : Typed(body.questions[i])) =>
        LET qs == body.questions
            decisions == [i \in DOMAIN qs |-> DecisionOn(i)] IN
        /\ Usable(qs) <=> reply.kind # "Refusal"
        /\ reply.path # None =>
              \/ reply.path = <<0, "questions">> /\ ~(Len(qs) \in 1..MaxQuestions)
              \/ FirstIssue(qs, reply.path[1], reply.path[2])
        /\ reply.kind = "OK" =>
              /\ ParseReply(reply.decided, qs, Unit) <=>
                    Readable(reply.model.revision, qs, decisions, Unit)
              /\ ReadAsDecided(reply.decided, qs, decisions)

\* No batch of a decision begins once its caller has given up, however long the request
\* waited for the model (decide.py:24-29, decision.py:285-289, workers.go:83-108).
NoBatchForTheGone ==
    [][body.route = "decide" /\ stage # "forward" /\ stage' = "forward" => clock < Patience]_vars
===============================================================================
