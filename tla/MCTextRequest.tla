----------------------------- MODULE MCTextRequest -----------------------------
(***************************************************************************)
(* Requests for the three routes: texts around the limits of the models,   *)
(* one or two faults at a time, and the questions on which the two sides   *)
(* of /decide could disagree.                                              *)
(***************************************************************************)
EXTENDS TextRequest

\* Some are refused by their engine, and some rerankers truncate by themselves.
Decider ==
    [route |-> "decide", maxLen |-> 1024, headMaxLen |-> 256, maxBatch |-> 2048, unknownTokens |-> {},
     encoderFrom |-> "c1", weights |-> "c1", temperature |-> <<1, 1, 1>>, buffer |-> <<1, 1, 1>>,
     width |-> 128, heads |-> 2, layers |-> 2, headLayers |-> 2, revision |-> "main"]

Embedder ==
    [route |-> "embed", maxInput |-> 4, maxBatch |-> 9, card |-> 8, dimensions |-> 2,
     prompts |-> [name \in {"", "query"} |-> IF name = "" THEN 0 ELSE 2],
     unknownTokens |-> {}, inputs |-> {"input_ids", "attention_mask"}]

Reranker(prompt, batch, auto) ==
    [route |-> "rerank", maxInput |-> 8, maxBatch |-> batch, card |-> 8, prompt |-> prompt, autoTruncate |-> auto,
     unknownTokens |-> {}, inputs |-> {"input_ids", "past_key_values"}]

MCModels ==
    {Embedder, [Embedder EXCEPT !.maxBatch = 4], [Embedder EXCEPT !.maxBatch = 3], [Embedder EXCEPT !.card = 3],
     [Embedder EXCEPT !.unknownTokens = {"pad"}], [Embedder EXCEPT !.inputs = {"pixel_values"}]}
    \cup {Reranker(p, b, t) : p \in {2, 8}, b \in {8, 16}, t \in BOOLEAN}
    \cup {Decider, [Decider EXCEPT !.maxLen = 64, !.maxBatch = 128, !.buffer = <<>>, !.revision = ""],
          [Decider EXCEPT !.encoderFrom = "c2"], [Decider EXCEPT !.buffer = <<2, 1, 1>>],
          [Decider EXCEPT !.unknownTokens = {"mask"}], [Decider EXCEPT !.heads = 4],
          [Decider EXCEPT !.layers = 1], [Decider EXCEPT !.maxBatch = 1023]}

Lengthwise == UNION {[1..n -> {1, 3, 4, 6}] : n \in 1..2} \cup {<<2, 4, 1>>, <<1, 2, 4>>, <<3, 3, 3>>}

AtMostTwo(kinds) == {s \in SUBSET kinds : \E a, b \in kinds : s \subseteq {a, b}}

EmbedBodies ==
    {[route |-> "embed", faults |-> {}, texts |-> t, truncate |-> c, dimensions |-> d, prompt |-> p] :
        t \in Lengthwise, c \in {TRUE, FALSE, None}, d \in {0, 1, 3}, p \in {"", "query", "passage"}}
    \cup {[route |-> "embed", faults |-> f, texts |-> <<1>>, truncate |-> None, dimensions |-> 0,
           prompt |-> ""] : f \in AtMostTwo({"method", "json", "unknown", "empty", "direction", "truncate"})}

RerankBodies ==
    {[route |-> "rerank", faults |-> {}, texts |-> t, truncate |-> c, before |-> q, after |-> 1] :
        t \in Lengthwise, c \in {TRUE, FALSE, None}, q \in {1, 5}}
    \cup {[route |-> "rerank", faults |-> f, texts |-> <<1>>, truncate |-> None, before |-> 1, after |-> 1] :
             f \in AtMostTwo({"object", "query", "empty", "raw_scores", "return_text"})}

Question(name, type, options, range) ==
    [shape |-> "question", name |-> name, type |-> type, options |-> options, criteria |-> None,
     range |-> range, ins |-> 9, weights |-> [k \in DOMAIN options |-> 3]]

Between(low, high) == [min |-> low, max |-> high]

OptionLists ==
    UNION {[1..n -> {"false", "true", "1", "2", "one", " "}] : n \in 0..2}
    \cup {<<"1", "2", "3">>, <<"1", "3", "2">>, <<"1", "2", "one">>, <<"true", "false", "true">>,
          <<"false", "true", "one">>, <<"3", "2", "1">>, <<"1", "2", "3", "one">>}

Singles ==
    {Question("q", t, o, r) : t \in {"choice", "score", "noul"}, o \in OptionLists,
        r \in {None, Between(1, 2), Between(2, 3), Between(2, 1)}}

Some ==
    {Question(n, "choice", <<"1", "2">>, None) : n \in {"", "q", "r"}}
    \cup {Question("q", "noul", <<"true", "false">>, None), Question("r", "score", <<"2", "1">>, Between(1, 2)),
          Question("q", "other", <<"1", "2">>, None), Question("q", "score", <<"1">>, Between(2, 1))}

Untyped ==
    {[Question("q", "score", <<"1", "2">>, None) EXCEPT !.shape = "other"],
     [Question("q", "score", <<"1", "2">>, None) EXCEPT !.criteria = Other],
     Question("q", "score", <<"1", "2">>, Other), Question("q", "choice", <<"1", "2">>, Other)}

Sized(name, ins, weight, n) ==
    [Question(name, "score", <<"1", "2", "3">>, None) EXCEPT !.ins = ins, !.weights = [k \in 1..n |-> weight]]

Long == {Sized(n, 300, w, 3) : n \in {"q", "r"}, w \in {3, 60}} \cup {Sized("s", 9, 3, 3)}

Small == <<Sized("q", 9, 3, 3), Sized("r", 9, 3, 3), Sized("s", 9, 3, 3), Sized("t", 9, 3, 3)>>

QuestionLists ==
    {<<q>> : q \in Singles \cup Untyped} \cup {SubSeq(Small, 1, n) : n \in 0..4}
    \cup {<<p, q>> : p, q \in Some} \cup {<<p, q>> : p, q \in Long} \cup {<<p, q, q>> : p, q \in Some}
    \cup {<<p, q, Sized("s", 9, 3, 3)>> : p, q \in Long}

DecideBodies ==
    {[route |-> "decide", faults |-> {}, questions |-> qs, state |-> 300] : qs \in QuestionLists}
    \cup {[route |-> "decide", faults |-> {}, questions |-> qs, state |-> 5000] :
             qs \in {<<p, q>> : p, q \in Long} \cup {SubSeq(Small, 1, n) : n \in 1..3}}
    \cup {[route |-> "decide", faults |-> {f}, questions |-> <<Sized("q", 9, 3, 3)>>, state |-> 1] :
             f \in {"method", "json", "unknown", "text"}}

MCBodies == EmbedBodies \cup RerankBodies \cup DecideBodies

\* The numbers in [0, 1] are counted in twelfths.
MCUnit == 0..12
MCDistributions == {<<9, 3>>, <<6, 6>>, <<NaN, NaN>>, <<8, 3, 1>>, <<4, 4, 4>>, <<NaN, NaN, NaN>>}

MCBlank == {" ", ""}
MCValue == [o \in {"1", "2", "3"} |-> IF o = "1" THEN 1 ELSE IF o = "2" THEN 2 ELSE 3]
===============================================================================
