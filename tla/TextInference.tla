----------------------------- MODULE TextInference -----------------------------
(***************************************************************************)
(* What the three text engines do to a request between its tokens and its  *)
(* graph: the embedder (embedding_worker/engines/onnx_embedder.py), the    *)
(* cross-encoder (reranker_worker/engines/cross_encoder.py), the decider   *)
(* (system_one_worker/engines/decision.py), and the batches they share     *)
(* (textinfer/batching.py).  A text is its number of tokens.               *)
(***************************************************************************)
EXTENDS Integers, SequencesExt

CONSTANTS
    NaN,            \* what a graph may put out instead of a number
    Below,          \* what rounding may leave of a confidence of 0: a number below it
    Distributions   \* what softmax makes of a question's logits: probabilities that add up
                    \* to 1, or NaN in every place

Total(s) == FoldLeft(LAMBDA a, b : a + b, 0, s)

AtMost(n, limit) == Min({n, limit})
AtLeast(n, floor) == Max({n, floor})

-------------------------------------------------------------------------------
(***************************************************************************)
(* Orders.  sorted() is stable, so the one it returns is determined.       *)
(***************************************************************************)
Higher(values, i, j) == values[i] > values[j] \/ (values[i] = values[j] /\ i < j)

\* The indices of values, those of the highest first and of equal ones in their order.
Descending(values) ==
    CHOOSE order \in [DOMAIN values -> DOMAIN values] :
        \A j, k \in DOMAIN values : j < k => Higher(values, order[j], order[k])

(***************************************************************************)
(* Batches, of the longest first.                                          *)
(***************************************************************************)
LongestFirst(lengths) == Descending(lengths)

\* What a bug would do instead: ask whether the batch fits before this input is in it.
PlaceOffByOne(lengths, ceiling, batches, i) ==
    LET n == Len(batches) IN
    IF n > 0 /\ Len(batches[n]) * lengths[batches[n][1]] <= ceiling
    THEN [batches EXCEPT ![n] = Append(@, i)] ELSE Append(batches, <<i>>)

\* The last batch takes one more input, or the input begins another.
Place(lengths, ceiling, batches, i) ==
    LET n == Len(batches) IN
    IF n > 0 /\ (Len(batches[n]) + 1) * lengths[batches[n][1]] <= ceiling
    THEN [batches EXCEPT ![n] = Append(@, i)] ELSE Append(batches, <<i>>)

PlanBatches(lengths, ceiling) ==
    FoldLeft(LAMBDA batches, i : Place(lengths, ceiling, batches, i), <<>>, LongestFirst(lengths))

\* What pad() makes of a batch: rows times the width of its longest.
Padded(lengths, batch) == Len(batch) * Max({lengths[i] : i \in Range(batch)})

Planned(lengths, batches) == Total([k \in DOMAIN batches |-> Len(batches[k]) * lengths[batches[k][1]]])

-------------------------------------------------------------------------------
(***************************************************************************)
(* Which configurations an engine is built from.  An engine that refuses   *)
(* its own is never resident.                                              *)
(***************************************************************************)
FeedableInputs == {"input_ids", "attention_mask", "token_type_ids", "position_ids", "past_key_values"}

\* Whatever the graph asks for, the adapter has something to feed it.
Feedable(m) == m.inputs \subseteq FeedableInputs

\* Every special token that the model's files name is in its tokenizer.
TokensKnown(m) == m.unknownTokens = {}

\* max_sequence_length, where the model's card states one, is `card`.
EmbedderConfigReads(m) ==
    m.maxInput \in 1..m.maxBatch /\ m.maxInput <= m.card

EmbedderBuilds(m) == TokensKnown(m) /\ Feedable(m)

OnnxEmbedderLoads(m) == EmbedderConfigReads(m) /\ EmbedderBuilds(m)

RerankerLoads(m) ==
    /\ m.maxInput \in 1..m.maxBatch /\ m.maxInput <= m.card
    /\ TokensKnown(m) /\ Feedable(m)
    /\ m.prompt < m.maxInput

\* The stamp beside the encoder names the weights that models.yaml pins.
SameCheckpoint(m) == m.encoderFrom = m.weights

\* The temperatures of the configuration are those of the checkpoint, if it has any.
Calibrated(m) == m.buffer \in {<<>>, m.temperature}

HeadsAgree(m) == m.heads = AtLeast(m.width \div 64, 1)

DeciderLoads(m) ==
    /\ m.layers = m.headLayers
    /\ m.heads >= 1 /\ m.width % m.heads = 0
    /\ m.maxLen <= m.maxBatch

OnnxDecisionLoads(m) ==
    SameCheckpoint(m) /\ Calibrated(m) /\ HeadsAgree(m) /\ TokensKnown(m) /\ DeciderLoads(m)

-------------------------------------------------------------------------------
(***************************************************************************)
(* Embedder.embed: the lengths of the sequences it runs, or its refusal.   *)
(***************************************************************************)
\* A text and the prompt that goes before it, "" for none, are one sequence.
Prompted(m, body, i) == m.prompts[body.prompt] + body.texts[i]

EmbedRefuses(m, body, truncate) ==
    body.prompt \in DOMAIN m.prompts /\ body.dimensions <= m.dimensions =>
        ~truncate /\ \E i \in DOMAIN body.texts : Prompted(m, body, i) > m.maxInput

\* finish(): a vector is cut to what was asked for, or left as long as the model makes it.
Dimensions(m, body) == IF body.dimensions = 0 THEN m.dimensions ELSE body.dimensions

EmbedLengths(m, body) == [i \in DOMAIN body.texts |-> AtMost(Prompted(m, body, i), m.maxInput)]

(***************************************************************************)
(* Reranker.sequences: a pair is the tokens around the document (the query *)
(* before it, the rest of the template after it) and the document, which   *)
(* alone is cut.                                                           *)
(***************************************************************************)
Around(body) == body.before + body.after

Budget(m) == m.maxInput - m.prompt

TooLong(m, body, i) == Around(body) + body.texts[i] > Budget(m)

RerankRefuses(m, body, truncate) ==
    \E i \in DOMAIN body.texts : TooLong(m, body, i) /\ (~truncate \/ Around(body) >= Budget(m))

\* What a bug would do instead: forget the prompt that goes around every pair.
RerankLengthsBare(m, body) ==
    [i \in DOMAIN body.texts |-> m.prompt + AtMost(Around(body) + body.texts[i], m.maxInput)]

RerankLengths(m, body) ==
    [i \in DOMAIN body.texts |-> m.prompt + AtMost(Around(body) + body.texts[i], Budget(m))]

-------------------------------------------------------------------------------
(***************************************************************************)
(* Decider.build_sequence:                                                 *)
(*   [CLS] question [SEP] [MASK] option ... [MASK] option [SEP] state [SEP]*)
(* with options cut to 48 tokens, cut again when they leave the question   *)
(* fewer than 16, and the state cut to what is left.                       *)
(***************************************************************************)
OptionTokens(m, q) ==
    LET first == [k \in DOMAIN q.weights |-> 1 + AtMost(q.weights[k], 48)]
        per   == AtLeast((m.headMaxLen - 16) \div AtLeast(Len(q.weights), 1), 4) IN
    IF m.headMaxLen - Total(first) < 16
    THEN [k \in DOMAIN first |-> AtMost(first[k], per)] ELSE first

HeadTokens(m, q) == AtMost(q.ins, AtLeast(m.headMaxLen - Total(OptionTokens(m, q)), 8))

\* The place of each option's [MASK], counted from 0, before the sequence is cut.
Marker(m, q, k) == 1 + HeadTokens(m, q) + 1 + Total(SubSeq(OptionTokens(m, q), 1, k - 1))

BeforeState(m, q) == 1 + HeadTokens(m, q) + 1 + Total(OptionTokens(m, q)) + 1

SequenceLength(m, q, state) ==
    AtMost(BeforeState(m, q) + AtMost(state, AtLeast(m.maxLen - BeforeState(m, q) - 1, 0)) + 1,
           m.maxLen)

\* A question whose options do not all keep their [MASK].
DecideRefuses(m, questions) ==
    \E i \in DOMAIN questions : \E k \in DOMAIN questions[i].weights :
        Marker(m, questions[i], k) >= m.maxLen

DecideLengths(m, body) ==
    [i \in DOMAIN body.questions |-> SequenceLength(m, body.questions[i], body.state)]

(***************************************************************************)
(* Decision: the answer to one question, from the logits of its options.   *)
(* Nobody asks whether the numbers are numbers.                            *)
(***************************************************************************)
Lost(p) == NaN \in Range(p)

\* 1 - the entropy over its maximum: of equal probabilities 0, but for the rounding; of
\* others a number that rises with the highest, which stands for it.
Confidences(p) ==
    IF Lost(p) THEN {NaN}
    ELSE IF \A j, k \in DOMAIN p : p[j] = p[k] THEN {0, Below} ELSE {Max(Range(p))}

\* The act head reads the logits beside the first row, which may be lost by itself.
ActProbabilities(p) == IF Lost(p) THEN {NaN} ELSE {0, NaN}

Decisions(n) ==
    UNION {[probabilities : {p}, confidence : Confidences(p), act_probability : ActProbabilities(p)] :
               p \in {d \in Distributions : Len(d) = n}}

-------------------------------------------------------------------------------
(***************************************************************************)
(* TEI's ranking: every text once, best first, ties in request order.      *)
(***************************************************************************)
Ranked(scores) == Descending(scores)
===============================================================================
