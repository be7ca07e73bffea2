-------------------------- MODULE TextRequestProofs --------------------------
(***************************************************************************)
(* What TextRequest's runs check, for every registry of models and every   *)
(* set of requests: the two sides of /decide agree, every batch fits, the  *)
(* answer is that of its input, the limits kept are those told, and no     *)
(* batch of a decision starts for a caller who has given up.               *)
(*                                                                         *)
(*   the contract of /decide                   ContractAgrees, ReplyIsRead *)
(*   numbers, folds and sums                   Induction, FoldingRuns      *)
(*   orders, batches and lengths               DescendingSorts, PlanFits,  *)
(*                                             LengthsFit                  *)
(*   the inductive invariant, step by step     IInv, NextKeeps             *)
(*   the theorems                              Invariance and after it     *)
(***************************************************************************)
EXTENDS TextRequest, FiniteSetTheorems, SequenceTheorems, TLAPS

-------------------------------------------------------------------------------
(***************************************************************************)
(* The contract of /decide.                                                *)
(***************************************************************************)

\* The two orders of a noul's options are the two that the worker accepts.
LEMMA NoulOptions ==
    ASSUME NEW s \in Seq(STRING)
    PROVE  s \in {<<"false", "true">>, <<"true", "false">>}
              <=> Len(s) = 2 /\ {s[1], s[2]} = {"false", "true"}
<1>1. ASSUME Len(s) = 2, {s[1], s[2]} = {"false", "true"}
      PROVE  s \in {<<"false", "true">>, <<"true", "false">>}
  <2>1. s = <<s[1], s[2]>>
    BY <1>1
  <2>2. (s[1] = "false" /\ s[2] = "true") \/ (s[1] = "true" /\ s[2] = "false")
    BY <1>1
  <2>3. CASE s[1] = "false" /\ s[2] = "true"
    BY <2>1, <2>3, Zenon
  <2>4. CASE s[1] = "true" /\ s[2] = "false"
    BY <2>1, <2>4, Zenon
  <2>. QED BY <2>2, <2>3, <2>4
<1>2. ASSUME s = <<"false", "true">>
      PROVE  Len(s) = 2 /\ {s[1], s[2]} = {"false", "true"}
  BY <1>2
<1>3. ASSUME s = <<"true", "false">>
      PROVE  Len(s) = 2 /\ {s[1], s[2]} = {"false", "true"}
  BY <1>3
<1>. QED BY <1>1, <1>2, <1>3, Zenon

\* One question: both sides find the same first fault.
LEMMA SameFault ==
    ASSUME NEW q, Typed(q)
    PROVE  WorkerFault(q) = checkQuestion(q)
<1>1. q.options \in Seq(STRING) /\ Len(q.options) \in Nat
  BY DEF Typed
<1>2. BadOptions(q) <=> optionsFault(q)
  <2>1. q.options \notin {<<"false", "true">>, <<"true", "false">>}
           <=> ~(Len(q.options) = 2 /\ {q.options[1], q.options[2]} = {"false", "true"})
    BY <1>1, NoulOptions, Zenon
  <2>2. ~(Len(q.options) \in MinOptions..MaxOptions)
           <=> Len(q.options) < MinOptions \/ Len(q.options) > MaxOptions
    BY <1>1, ContractAssumption
  <2>. QED BY <2>1, <2>2, Zenon DEF BadOptions, optionsFault
<1>3. BadRange(q) <=> rangeFault(q)
  BY Zenon DEF BadRange, rangeFault, Typed
<1>4. q.shape = "question" /\ q.criteria # Other
  BY DEF Typed
<1>. QED BY <1>2, <1>3, <1>4, Zenon DEF WorkerFault, checkQuestion

\* The verdict of CheckQuestions on the way out is the verdict of parse_decide on the way
\* in: the same questions pass, and for the others both name the same first fault
\* (worker.go:29-71, decide.py:125-134).
THEOREM ContractAgrees ==
    ASSUME NEW qs, \A i \in DOMAIN qs : Typed(qs[i])
    PROVE  SameVerdict(qs)
<1>1. \A i \in DOMAIN qs : CheckQuestions(qs)[i] = FaultAt(qs, i)
  BY SameFault DEF CheckQuestions, FaultAt
<1>. QED BY <1>1 DEF SameVerdict, Accepts, Usable, Refuses, FirstIssue

\* The length of a sequence is told by its domain.
LEMMA LengthOfDomain ==
    ASSUME NEW T, NEW f \in Seq(T), NEW n \in Nat, DOMAIN f = 1..n PROVE Len(f) = n
<1>1. 1..Len(f) = 1..n /\ Len(f) \in Nat
  BY LenProperties
<1>. QED BY <1>1

\* The labels of an accepted question are its options, each once.
LEMMA LabelsAreOptions ==
    ASSUME NEW q, Typed(q), WorkerFault(q) = None
    PROVE  /\ {Labels(q)[k] : k \in DOMAIN Labels(q)} = {q.options[k] : k \in DOMAIN q.options}
           /\ \A j, k \in DOMAIN Labels(q) : Labels(q)[j] = Labels(q)[k] => j = k
<1>1. ~BadOptions(q)
  BY ContractAssumption DEF WorkerFault, Paths
<1>2. q.options \in Seq(STRING) /\ ~Repeats(q.options)
  BY <1>1 DEF BadOptions, Typed
<1>3. CASE q.type = "noul"
  <2>1. Len(q.options) = 2 /\ {q.options[1], q.options[2]} = {"false", "true"}
    BY <1>1, <1>3 DEF BadOptions
  <2>2. DOMAIN q.options = {1, 2}
    BY <1>2, <2>1
  <2>3. {q.options[k] : k \in DOMAIN q.options} = {"false", "true"}
    BY <2>1, <2>2
  <2>4. Labels(q) = <<"false", "true">>
    BY <1>3 DEF Labels
  <2>5. DOMAIN Labels(q) = {1, 2} /\ Labels(q)[1] = "false" /\ Labels(q)[2] = "true"
    BY <2>4
  <2>6. {Labels(q)[k] : k \in DOMAIN Labels(q)} = {"false", "true"}
    BY <2>5
  <2>. QED BY <2>3, <2>5, <2>6
<1>4. CASE q.type # "noul"
  <2>1. Labels(q) = q.options
    BY <1>4 DEF Labels
  <2>2. \A j, k \in DOMAIN q.options : q.options[j] = q.options[k] => j = k
    BY <1>2 DEF Repeats
  <2>. QED BY <2>1, <2>2
<1>. QED BY <1>3, <1>4

\* ParseReply finds the answer to a question by its name.
LEMMA FoundByName ==
    ASSUME NEW S, NEW qs \in Seq(S), \A i \in DOMAIN qs : Typed(qs[i]), Accepts(qs),
           NEW decisions, NEW revision, NEW i \in DOMAIN qs
    PROVE  AnswerTo(WorkerReply(revision, qs, decisions), qs[i].name)
               = WorkerAnswer(qs[i], decisions[i])
<1> DEFINE answers == [j \in DOMAIN qs |-> WorkerAnswer(qs[j], decisions[j])]
<1>1. \A j \in DOMAIN qs : ~NamedBefore(qs, j)
  BY ContractAssumption DEF Accepts, FaultAt, Paths
<1>2. \A j, k \in DOMAIN qs : qs[j].name = qs[k].name => j = k
  BY <1>1 DEF NamedBefore
<1>3. \A j \in DOMAIN answers : answers[j].name = qs[j].name
  BY DEF WorkerAnswer
<1>4. DOMAIN answers = DOMAIN qs
  OBVIOUS
<1> HIDE DEF answers
<1>5. (CHOOSE j \in DOMAIN answers : answers[j].name = qs[i].name) = i
  BY <1>2, <1>3, <1>4
<1>6. WorkerReply(revision, qs, decisions).answers = answers
  BY DEF WorkerReply, answers
<1>7. AnswerTo(WorkerReply(revision, qs, decisions), qs[i].name) = answers[i]
  BY <1>5, <1>6 DEF AnswerTo
<1>. QED BY <1>7 DEF answers

\* Of the worker's answers to questions it accepted, whatever the model made of them,
\* ParseReply reads exactly those that name a revision and hold numbers in [0, 1] only; and
\* in each of them every option has the probability the model gave to it, also when a noul
\* lists its options the other way round, and every question its own confidence
\* (decision.py:65-74, decide.py:184-210, worker.go:135-180).
THEOREM ReplyIsRead ==
    ASSUME NEW S, NEW qs \in Seq(S), \A i \in DOMAIN qs : Typed(qs[i]), Accepts(qs),
           NEW U, NEW decisions, NEW revision
    PROVE  LET given == WorkerReply(revision, qs, decisions) IN
           /\ ParseReply(given, qs, U) <=> Readable(revision, qs, decisions, U)
           /\ ReadAsDecided(given, qs, decisions)
<1> DEFINE given == WorkerReply(revision, qs, decisions)
<1>1. \A i \in DOMAIN qs : ~NamedBefore(qs, i) /\ WorkerFault(qs[i]) = None
  BY ContractAssumption DEF Accepts, FaultAt, Paths
<1>2. /\ given.model_revision = revision /\ DOMAIN given.answers = DOMAIN qs
      /\ \A i \in DOMAIN qs : given.answers[i] = WorkerAnswer(qs[i], decisions[i])
      /\ Len(given.answers) = Len(qs)
  <2> DEFINE A == {WorkerAnswer(qs[i], decisions[i]) : i \in DOMAIN qs}
             answers == [i \in DOMAIN qs |-> WorkerAnswer(qs[i], decisions[i])]
  <2>1. DOMAIN qs = 1..Len(qs) /\ Len(qs) \in Nat
    BY LenProperties
  <2>2. answers \in [1..Len(qs) -> A]
    BY <2>1
  <2> HIDE DEF A, answers, given
  <2>3. answers \in Seq(A)
    BY <2>1, <2>2, SeqDef
  <2>4. Len(answers) = Len(qs)
    <3>1. DOMAIN answers = 1..Len(qs)
      BY <2>1, <2>2
    <3>. QED BY <2>1, <2>3, <3>1, LengthOfDomain
  <2>5. given.answers = answers /\ given.model_revision = revision
    BY DEF WorkerReply, given, answers
  <2>. QED BY <2>4, <2>5 DEF answers
<1>3. \A i \in DOMAIN qs : given.answers[i].name = qs[i].name
  <2> SUFFICES ASSUME NEW i \in DOMAIN qs PROVE given.answers[i].name = qs[i].name
    OBVIOUS
  <2>1. given.answers[i] = WorkerAnswer(qs[i], decisions[i])
    BY <1>2
  <2>2. WorkerAnswer(qs[i], decisions[i]).name = qs[i].name
    BY DEF WorkerAnswer
  <2> HIDE DEF given
  <2>. QED BY <2>1, <2>2
<1>4. \A j, k \in DOMAIN qs : j < k => qs[j].name # qs[k].name
  BY <1>1 DEF NamedBefore
<1>5. ASSUME NEW i \in DOMAIN qs
      PROVE  /\ Rendered(qs[i]) = Labels(qs[i])
             /\ \A k \in DOMAIN Rendered(qs[i]) :
                   WorkerAnswer(qs[i], decisions[i]).probabilities[Rendered(qs[i])[k]]
                       = decisions[i].probabilities[k]
  <2>1. Rendered(qs[i]) = Labels(qs[i])
    BY DEF Rendered, Labels
  <2>2. ASSUME NEW k \in DOMAIN Labels(qs[i])
        PROVE  WorkerAnswer(qs[i], decisions[i]).probabilities[Labels(qs[i])[k]]
                   = decisions[i].probabilities[k]
    <3>1. (CHOOSE j \in DOMAIN Labels(qs[i]) : Labels(qs[i])[j] = Labels(qs[i])[k]) = k
      BY <1>1, LabelsAreOptions
    <3>. QED BY <3>1 DEF WorkerAnswer
  <2>. QED BY <2>1, <2>2
<1>6. ASSUME NEW i \in DOMAIN qs
      PROVE  LET a == WorkerAnswer(qs[i], decisions[i]) IN
             /\ DOMAIN a.probabilities = {qs[i].options[k] : k \in DOMAIN qs[i].options}
             /\ a.confidence = decisions[i].confidence
             /\ InUnit(qs[i], decisions[i], U) <=>
                   /\ a.confidence \in U /\ a.act_probability \in U
                   /\ \A o \in DOMAIN a.probabilities : a.probabilities[o] \in U
  <2> DEFINE a == WorkerAnswer(qs[i], decisions[i])
             d == decisions[i]
             labels == {Labels(qs[i])[k] : k \in DOMAIN Labels(qs[i])}
  <2>1. /\ a.confidence = d.confidence /\ a.act_probability = d.act_probability
        /\ DOMAIN a.probabilities = labels
    BY DEF WorkerAnswer
  <2>2. labels = {qs[i].options[k] : k \in DOMAIN qs[i].options}
    BY <1>1, LabelsAreOptions
  <2>3. \A k \in DOMAIN Rendered(qs[i]) :
           Rendered(qs[i])[k] \in labels /\ a.probabilities[Rendered(qs[i])[k]] = d.probabilities[k]
    BY <1>5
  <2>4. \A o \in labels : \E k \in DOMAIN Rendered(qs[i]) : o = Rendered(qs[i])[k]
    BY <1>5
  <2> HIDE DEF a, d, labels
  <2>5. InUnit(qs[i], d, U) <=>
           /\ d.confidence \in U /\ d.act_probability \in U
           /\ \A k \in DOMAIN Rendered(qs[i]) : d.probabilities[k] \in U
    BY Zenon DEF InUnit
  <2>6. (\A k \in DOMAIN Rendered(qs[i]) : d.probabilities[k] \in U)
            <=> \A o \in labels : a.probabilities[o] \in U
    BY <2>3, <2>4
  <2>7. QED BY <2>1, <2>2, <2>5, <2>6 DEF a, d
<1>7. \A i \in DOMAIN qs : AnswerTo(given, qs[i].name) = WorkerAnswer(qs[i], decisions[i])
  BY FoundByName
<1> HIDE DEF given
<1>8. ParseReply(given, qs, U) <=> Readable(revision, qs, decisions, U)
  <2> DEFINE Reads(i) ==
                 LET a == WorkerAnswer(qs[i], decisions[i]) IN
                 /\ a.confidence \in U /\ a.act_probability \in U
                 /\ DOMAIN a.probabilities = {qs[i].options[k] : k \in DOMAIN qs[i].options}
                 /\ \A o \in DOMAIN a.probabilities : a.probabilities[o] \in U
  <2>1. \A i \in DOMAIN qs : Reads(i) <=> InUnit(qs[i], decisions[i], U)
    BY <1>6, Zenon
  <2>2. \A i \in DOMAIN qs : \E j \in DOMAIN given.answers : given.answers[j].name = qs[i].name
    BY <1>2, <1>3, Zenon
  <2>3. \A j, k \in DOMAIN given.answers : j < k => given.answers[j].name # given.answers[k].name
    BY <1>2, <1>3, <1>4
  <2>4. ParseReply(given, qs, U) <=> revision # "" /\ \A i \in DOMAIN qs : Reads(i)
    BY <1>2, <1>7, <2>2, <2>3, Zenon DEF ParseReply
  <2> HIDE DEF Reads
  <2>. QED BY <2>1, <2>4, Zenon DEF Readable
<1>9. ReadAsDecided(given, qs, decisions)
  BY <1>5, <1>6, <1>7 DEF ReadAsDecided
<1>. QED BY <1>8, <1>9 DEF given

-------------------------------------------------------------------------------
(***************************************************************************)
(* Numbers, folds and sums.                                                *)
(***************************************************************************)

\* A set of naturals that is not empty has a least member.
LEMMA LeastNumber ==
    ASSUME NEW T \in SUBSET Nat, T # {}
    PROVE  \E m \in T : \A k \in T : m <= k
<1> DEFINE UpTo(m) == 1..m
           B == {UpTo(m) : m \in T}
           R == StrictSubsetOrdering(Nat)
           S == FiniteSubsetsOf(Nat)
<1>1. B \subseteq S /\ B # {}
  <2>1. \A m \in T : IsFiniteSet(1..m) /\ 1..m \subseteq Nat
    BY FS_Interval
  <2>. QED BY <2>1 DEF FiniteSubsetsOf
<1>2. IsWellFoundedOn(R, S)
  BY FS_StrictSubsetOrderingWellFounded
<1>3. \E x \in B : \A y \in B : <<y, x>> \notin R
  <2>. HIDE DEF B, R, S
  <2>. QED BY <1>1, <1>2, WFMin
<1>4. PICK m \in T : \A y \in B : <<y, UpTo(m)>> \notin R
  BY <1>3
<1>5. ASSUME NEW k \in T PROVE m <= k
  <2>1. <<UpTo(k), UpTo(m)>> \notin R
    BY <1>4
  <2>2. SUFFICES ASSUME k < m PROVE FALSE
    OBVIOUS
  <2>3. UpTo(k) \subseteq UpTo(m) /\ m \in UpTo(m) /\ m \notin UpTo(k)
    BY <2>2
  <2>4. UpTo(k) \in SUBSET Nat /\ UpTo(m) \in SUBSET Nat
    OBVIOUS
  <2>. HIDE DEF UpTo
  <2>. QED BY <2>1, <2>3, <2>4 DEF StrictSubsetOrdering
<1>. QED BY <1>5

\* Induction over the naturals, for a set of them.
LEMMA Induction ==
    ASSUME NEW S \in SUBSET Nat, 0 \in S, \A n \in S : n + 1 \in S
    PROVE  S = Nat
<1> DEFINE T == Nat \ S
<1>. SUFFICES ASSUME T # {} PROVE FALSE
  OBVIOUS
<1>1. PICK m \in T : \A k \in T : m <= k
  <2>. HIDE DEF T
  <2>1. T \in SUBSET Nat
    BY DEF T
  <2>. QED BY <2>1, LeastNumber
<1>2. m # 0 /\ m - 1 \in Nat
  OBVIOUS
<1>3. m - 1 \in S
  BY <1>1, <1>2
<1>. QED BY <1>1, <1>2, <1>3

\* The greatest member of a set of naturals that has a bound.
LEMMA GreatestNumber ==
    ASSUME NEW n \in Nat, NEW T \in SUBSET (0..n), T # {}
    PROVE  Max(T) \in T /\ \A k \in T : k <= Max(T)
<1> DEFINE U == {u \in Nat : n - u \in T}
<1>1. U \in SUBSET Nat /\ U # {}
  <2>1. PICK k \in T : TRUE
    OBVIOUS
  <2>2. k \in 0..n
    OBVIOUS
  <2>3. n - k \in Nat /\ n - (n - k) = k
    BY <2>2
  <2>4. n - k \in U
    BY <2>3
  <2>. QED BY <2>4
<1>2. PICK u \in U : \A k \in U : u <= k
  <2>. HIDE DEF U
  <2>. QED BY <1>1, LeastNumber
<1>3. ASSUME NEW k \in T PROVE k <= n - u
  <2>1. k \in 0..n /\ u \in Nat
    OBVIOUS
  <2>2. n - k \in Nat /\ n - (n - k) = k
    BY <2>1
  <2>3. n - k \in U
    BY <2>2
  <2>4. u <= n - k
    BY <1>2, <2>3
  <2>. QED BY <2>1, <2>4
<1>4. n - u \in T
  BY <1>2
<1>5. \A k \in T : n - u >= k
  <2>. HIDE DEF U
  <2>1. u \in Nat
    BY <1>1
  <2>. QED BY <1>3, <2>1
<1>. HIDE DEF U
<1>6. \E m \in T : \A k \in T : m >= k
  BY <1>4, <1>5
<1>7. Max(T) \in T /\ \A k \in T : Max(T) >= k
  BY <1>6 DEF Max
<1>. QED BY <1>7

-------------------------------------------------------------------------------
(***************************************************************************)
(* FoldLeft takes the members of a sequence from the first to the last.    *)
(***************************************************************************)
\* h is what a fold over 1..n makes, number by number.
Folding(g, n, State, base, F) ==
    /\ g \in [SUBSET (1..n) -> State]
    /\ \A s \in SUBSET (1..n) :
           g[s] = IF s = {} THEN base ELSE F[<<Max(s), g[s \ {Max(s)}]>>]

\* One step of a fold is a function here, since no prover takes an operator.
LEMMA FoldIsDefined ==
    ASSUME NEW n \in Nat, NEW State, NEW base \in State, NEW F \in [(1..n) \X State -> State]
    PROVE  \E g : Folding(g, n, State, base, F)
<1> DEFINE Of(g, s) == IF s = {} THEN base ELSE F[<<Max(s), g[s \ {Max(s)}]>>]
           Upto(k) == \E g \in [SUBSET (1..n) -> State] : \A s \in SUBSET (1..n) :
                          s \subseteq 1..k => g[s] = Of(g, s)
           S == {k \in Nat : k <= n => Upto(k)}
<1>1. 0 \in S
  <2>1. [s \in SUBSET (1..n) |-> base] \in [SUBSET (1..n) -> State]
    OBVIOUS
  <2> DEFINE g == [s \in SUBSET (1..n) |-> base]
  <2>2. ASSUME NEW s \in SUBSET (1..n), s \subseteq 1..0
        PROVE  g[s] = Of(g, s)
    <3>1. 1..0 = {}
      OBVIOUS
    <3>2. s = {}
      BY <2>2, <3>1
    <3>. QED BY <3>2
  <2>3. g \in [SUBSET (1..n) -> State]
    BY <2>1
  <2>. HIDE DEF g, Of
  <2>. QED BY <2>2, <2>3
<1>2. ASSUME NEW k \in S PROVE k + 1 \in S
  <2>0. k \in Nat
    OBVIOUS
  <2>. SUFFICES ASSUME k + 1 <= n PROVE Upto(k + 1)
    <3>. HIDE DEF Upto
    <3>. QED OBVIOUS
  <2>9. Upto(k)
    <3>. HIDE DEF Upto
    <3>. QED BY <1>2, <2>0
  <2>1. PICK g \in [SUBSET (1..n) -> State] : \A s \in SUBSET (1..n) : s \subseteq 1..k => g[s] = Of(g, s)
    <3>. HIDE DEF Of
    <3>. QED BY <2>9
  <2> DEFINE h == [s \in SUBSET (1..n) |->
                     IF s \subseteq 1..k THEN g[s]
                     ELSE IF s \subseteq 1..(k + 1) THEN F[<<k + 1, g[s \ {k + 1}]>>] ELSE base]
  <2>2. h \in [SUBSET (1..n) -> State]
    <3>1. k + 1 \in 1..n
      OBVIOUS
    <3>2. \A s \in SUBSET (1..n) : g[s] \in State /\ g[s \ {k + 1}] \in State
      OBVIOUS
    <3>3. \A s \in SUBSET (1..n) : F[<<k + 1, g[s \ {k + 1}]>>] \in State
      BY <3>1, <3>2
    <3>. QED BY <3>2, <3>3
  <2>3. ASSUME NEW s \in SUBSET (1..n), s \subseteq 1..(k + 1)
        PROVE  h[s] = Of(h, s)
    <3>1. CASE s \subseteq 1..k
      <4>1. h[s] = Of(g, s)
        BY <2>1, <3>1
      <4>2. s \ {Max(s)} \in SUBSET (1..n) /\ s \ {Max(s)} \subseteq 1..k
        BY <3>1
      <4>3. h[s \ {Max(s)}] = g[s \ {Max(s)}]
        BY <4>2
      <4>. QED BY <4>1, <4>3
    <3>2. CASE ~(s \subseteq 1..k)
      <4>1. k + 1 \in s /\ \A j \in s : k + 1 >= j
        BY <2>3, <3>2
      <4>2. Max(s) = k + 1
        <5>1. \A m \in s : (\A j \in s : m >= j) => m = k + 1
          BY <2>0, <2>3, <4>1
        <5>. QED BY <4>1, <5>1 DEF Max
      <4>3. s \ {k + 1} \in SUBSET (1..n) /\ s \ {k + 1} \subseteq 1..k
        BY <2>3
      <4>4. h[s \ {k + 1}] = g[s \ {k + 1}]
        BY <4>3
      <4>5. h[s] = F[<<k + 1, g[s \ {k + 1}]>>]
        BY <2>3, <3>2
      <4>. QED BY <4>1, <4>2, <4>4, <4>5
    <3>. QED BY <3>1, <3>2
  <2>. HIDE DEF h, Of
  <2>. QED BY <2>2, <2>3
<1>3. n \in S
  <2>. HIDE DEF S
  <2>1. S \in SUBSET Nat
    BY DEF S
  <2>. QED BY <1>1, <1>2, <2>1, Induction
<1>4. Upto(n)
  <2>. HIDE DEF Upto
  <2>. QED BY <1>3
<1>5. PICK g \in [SUBSET (1..n) -> State] : \A s \in SUBSET (1..n) :
              s \subseteq 1..n => g[s] = Of(g, s)
  BY <1>4
<1>6. \A s \in SUBSET (1..n) : g[s] = Of(g, s)
  <2>. HIDE DEF Of
  <2>. QED BY <1>5
<1>. QED BY <1>6 DEF Folding

\* The values of a fold keep to the set that its steps keep to.
LEMMA FoldStays ==
    ASSUME NEW n \in Nat, NEW State, NEW iter, iter[{}] \in State,
           \A t \in SUBSET (1..n) : t # {} /\ iter[t \ {Max(t)}] \in State => iter[t] \in State
    PROVE  \A t \in SUBSET (1..n) : iter[t] \in State
<1> DEFINE S == {k \in Nat : \A t \in SUBSET (1..n) : t \subseteq 1..k => iter[t] \in State}
<1>1. 0 \in S
  <2>1. 1..0 = {}
    OBVIOUS
  <2>2. ASSUME NEW t \in SUBSET (1..n), t \subseteq 1..0 PROVE iter[t] \in State
    <3>1. t = {}
      BY <2>1, <2>2
    <3>. QED BY <3>1
  <2>. QED BY <2>2
<1>2. ASSUME NEW k \in S PROVE k + 1 \in S
  <2>. SUFFICES ASSUME NEW t \in SUBSET (1..n), t \subseteq 1..(k + 1), t # {} PROVE iter[t] \in State
    OBVIOUS
  <2>1. Max(t) \in t /\ \A j \in t : j <= Max(t)
    <3>1. t \in SUBSET (0..n)
      OBVIOUS
    <3>. QED BY <3>1, GreatestNumber
  <2>2. t \ {Max(t)} \subseteq 1..k
    <3>1. ASSUME NEW j \in t, j # Max(t) PROVE j \in 1..k
      <4>1. j \in 1..(k + 1) /\ Max(t) \in 1..(k + 1) /\ j <= Max(t) /\ k \in Nat
        BY <2>1
      <4>. QED BY <3>1, <4>1
    <3>. QED BY <3>1
  <2>3. iter[t \ {Max(t)}] \in State
    BY <2>2
  <2>. QED BY <2>3
<1>3. n \in S
  <2>. HIDE DEF S
  <2>1. S \in SUBSET Nat
    BY DEF S
  <2>. QED BY <1>1, <1>2, <2>1, Induction
<1>. QED BY <1>3

\* A run of a fold: its value after each member.
Run(h, n, State, base, F) ==
    /\ h \in [0..n -> State] /\ h[0] = base
    /\ \A k \in 1..n : h[k] = F[<<k, h[k - 1]>>]

\* Such a function is what the fold of a sequence steps through.
LEMMA FoldingRuns ==
    ASSUME NEW n \in Nat, NEW State, NEW base, NEW F, NEW g, Folding(g, n, State, base, F)
    PROVE  \E h : Run(h, n, State, base, F) /\ g[1..n] = h[n]
<1> DEFINE h == [k \in 0..n |-> g[1..k]]
<1>1. \A k \in 0..n : 1..k \in SUBSET (1..n)
  OBVIOUS
<1>2. h \in [0..n -> State] /\ g[1..n] = h[n]
  BY <1>1 DEF Folding
<1>3. h[0] = base
  <2>1. 1..0 = {} /\ 0 \in 0..n
    OBVIOUS
  <2>2. {} \in SUBSET (1..n)
    OBVIOUS
  <2>3. g[{}] = base
    BY <2>2 DEF Folding
  <2>. QED BY <2>1, <2>3
<1>4. ASSUME NEW k \in 1..n PROVE h[k] = F[<<k, h[k - 1]>>]
  <2>1. 1..k # {} /\ (1..k) \ {k} = 1..(k - 1)
    OBVIOUS
  <2>2. Max(1..k) = k
    <3>1. k \in 1..k /\ \A j \in 1..k : k >= j
      OBVIOUS
    <3>2. \A m \in 1..k : (\A j \in 1..k : m >= j) => m = k
      BY <3>1
    <3>. QED BY <3>1, <3>2 DEF Max
  <2>3. g[1..k] = F[<<k, g[1..(k - 1)]>>]
    BY <1>1, <2>1, <2>2 DEF Folding
  <2>. QED BY <2>3
<1>. HIDE DEF h
<1>. QED BY <1>2, <1>3, <1>4 DEF Run

-------------------------------------------------------------------------------
(***************************************************************************)
(* Sums.                                                                   *)
(***************************************************************************)
\* A sum, as a fold.
Adding(s) == [x \in (1..Len(s)) \X Int |-> x[2] + s[x[1]]]
Sums(h, s) == Run(h, Len(s), Int, 0, Adding(s))

\* The partial sums of s, one by one.
LEMMA SumsAre ==
    ASSUME NEW s \in Seq(Int), NEW h
    PROVE  Sums(h, s) <=> /\ h \in [0..Len(s) -> Int] /\ h[0] = 0
                          /\ \A k \in 1..Len(s) : h[k] = h[k - 1] + s[k]
<1>1. Len(s) \in Nat /\ \A k \in 1..Len(s) : s[k] \in Int
  BY LenProperties
<1>2. ASSUME h \in [0..Len(s) -> Int], NEW k \in 1..Len(s)
      PROVE  Adding(s)[<<k, h[k - 1]>>] = h[k - 1] + s[k]
  <2>1. h[k - 1] \in Int
    BY <1>1, <1>2
  <2>. QED BY <1>1, <2>1 DEF Adding
<1>. QED BY <1>1, <1>2 DEF Sums, Run

\* Total is the last of the partial sums.
LEMMA TotalSums ==
    ASSUME NEW s \in Seq(Int)
    PROVE  \E h : Sums(h, s) /\ Total(s) = h[Len(s)]
<1> DEFINE n == Len(s)
           Of(g, t) == IF t = {} THEN 0 ELSE g[t \ {Max(t)}] + s[Max(t)]
<1>1. n \in Nat /\ DOMAIN s = 1..n /\ \A k \in 1..n : s[k] \in Int
  BY LenProperties
<1>2. \E g : Folding(g, n, Int, 0, Adding(s))
  <2>1. Adding(s) \in [(1..n) \X Int -> Int]
    BY <1>1 DEF Adding
  <2> DEFINE base == 0
             State == Int
  <2>2. base \in State /\ Adding(s) \in [(1..n) \X State -> State]
    BY <2>1
  <2>. HIDE DEF base, State, n
  <2>3. \E g : Folding(g, n, State, base, Adding(s))
    BY <1>1, <2>2, FoldIsDefined
  <2>. QED BY <2>3 DEF base, State
<1>3. ASSUME NEW g, g \in [SUBSET (1..n) -> Int], NEW t \in SUBSET (1..n), t # {}
      PROVE  Adding(s)[<<Max(t), g[t \ {Max(t)}]>>] = g[t \ {Max(t)}] + s[Max(t)]
  <2>1. t \in SUBSET (0..n)
    BY <1>1
  <2>2. Max(t) \in 1..n
    BY <1>1, <1>3, <2>1, GreatestNumber
  <2>3. g[t \ {Max(t)}] \in Int
    BY <1>3
  <2>. QED BY <1>1, <2>2, <2>3 DEF Adding
<1>4. ASSUME NEW g
      PROVE  Folding(g, n, Int, 0, Adding(s))
                <=> g \in [SUBSET (1..n) -> Int] /\ g = [t \in SUBSET (1..n) |-> Of(g, t)]
  <2>1. ASSUME g \in [SUBSET (1..n) -> Int], NEW t \in SUBSET (1..n)
        PROVE  Of(g, t) = IF t = {} THEN 0 ELSE Adding(s)[<<Max(t), g[t \ {Max(t)}]>>]
    BY <1>3, <2>1
  <2>. HIDE DEF Of, n
  <2>. QED BY <2>1 DEF Folding
<1> DEFINE iter == CHOOSE f : f = [t \in SUBSET (1..n) |-> Of(f, t)]
<1>5. iter = [t \in SUBSET (1..n) |-> Of(iter, t)]
  <2>. HIDE DEF Of
  <2>. QED BY <1>2, <1>4
<1>6. Total(s) = iter[1..n]
  BY <1>1 DEF Total, FoldLeft, MapThenFoldSet
<1>7. iter \in [SUBSET (1..n) -> Int]
  <2>1. DOMAIN iter = SUBSET (1..n) /\ \A t \in SUBSET (1..n) : iter[t] = Of(iter, t)
    <3>. HIDE DEF iter, Of
    <3>. QED BY <1>5
  <2>. HIDE DEF iter
  <2>2. iter[{}] \in Int
    <3>1. {} \in SUBSET (1..n)
      OBVIOUS
    <3>2. iter[{}] = Of(iter, {})
      <4>. HIDE DEF Of, n
      <4>. QED BY <2>1, <3>1
    <3>. QED BY <3>2
  <2>3. ASSUME NEW t \in SUBSET (1..n), t # {}, iter[t \ {Max(t)}] \in Int PROVE iter[t] \in Int
    <3>1. t \in SUBSET (0..n)
      BY <1>1
    <3>2. Max(t) \in 1..n
      BY <1>1, <2>3, <3>1, GreatestNumber
    <3>. QED BY <1>1, <2>1, <2>3, <3>2
  <2>4. \A t \in SUBSET (1..n) : iter[t] \in Int
    BY <1>1, <2>2, <2>3, FoldStays
  <2>. QED BY <1>5, <2>1, <2>4
<1>8. Folding(iter, n, Int, 0, Adding(s))
  <2>. HIDE DEF iter, Of, n
  <2>. QED BY <1>4, <1>5, <1>7
<1>9. PICK h : Run(h, n, Int, 0, Adding(s)) /\ iter[1..n] = h[n]
  <2> DEFINE base == 0
             State == Int
  <2>. HIDE DEF base, State, n, iter
  <2>1. Folding(iter, n, State, base, Adding(s))
    BY <1>8 DEF base, State
  <2>2. \E h : Run(h, n, State, base, Adding(s)) /\ iter[1..n] = h[n]
    BY <1>1, <2>1, FoldingRuns
  <2>. QED BY <2>2 DEF base, State
<1>. QED BY <1>6, <1>9 DEF Sums

\* Of two sums, the one whose members are no greater is no greater, on the way and at the end.
LEMMA SumsCompare ==
    ASSUME NEW s \in Seq(Int), NEW t \in Seq(Int), NEW g, NEW h, Sums(g, s), Sums(h, t),
           NEW m \in Nat, m <= Len(s), m <= Len(t), \A k \in 1..m : s[k] <= t[k]
    PROVE  g[m] <= h[m]
<1> DEFINE S == {k \in Nat : k <= m => g[k] <= h[k]}
<1>1. /\ g \in [0..Len(s) -> Int] /\ g[0] = 0 /\ \A k \in 1..Len(s) : g[k] = g[k - 1] + s[k]
      /\ h \in [0..Len(t) -> Int] /\ h[0] = 0 /\ \A k \in 1..Len(t) : h[k] = h[k - 1] + t[k]
  BY SumsAre
<1>2. Len(s) \in Nat /\ Len(t) \in Nat /\ \A k \in 1..m : s[k] \in Int /\ t[k] \in Int
  BY LenProperties
<1>3. 0 \in S
  BY <1>1
<1>4. ASSUME NEW k \in S PROVE k + 1 \in S
  <2>. SUFFICES ASSUME k + 1 <= m PROVE g[k + 1] <= h[k + 1]
    OBVIOUS
  <2>1. k \in Nat /\ k + 1 \in 1..m /\ k \in 0..Len(s) /\ k \in 0..Len(t) /\ g[k] <= h[k]
    BY <1>2
  <2>2. s[k + 1] <= t[k + 1] /\ s[k + 1] \in Int /\ t[k + 1] \in Int
    BY <1>2, <2>1
  <2>3. g[k + 1] = g[k] + s[k + 1] /\ h[k + 1] = h[k] + t[k + 1] /\ g[k] \in Int /\ h[k] \in Int
    <3>1. k + 1 \in 1..Len(s) /\ k + 1 \in 1..Len(t) /\ (k + 1) - 1 = k
      BY <1>2, <2>1
    <3>. QED BY <1>1, <2>1, <3>1
  <2>. QED BY <2>1, <2>2, <2>3
<1>5. m \in S
  <2>. HIDE DEF S
  <2>1. S \in SUBSET Nat
    BY DEF S
  <2>. QED BY <1>3, <1>4, <2>1, Induction
<1>. QED BY <1>5

\* A sum of integers is one.
LEMMA TotalIsInt ==
    ASSUME NEW s \in Seq(Int) PROVE Total(s) \in Int
<1>1. PICK h : Sums(h, s) /\ Total(s) = h[Len(s)]
  BY TotalSums
<1>2. Len(s) \in Nat /\ h \in [0..Len(s) -> Int]
  BY <1>1, SumsAre, LenProperties
<1>. QED BY <1>1, <1>2

\* A sum is no greater than one of greater terms.
LEMMA TotalCompares ==
    ASSUME NEW s \in Seq(Int), NEW t \in Seq(Int), Len(s) = Len(t), \A k \in 1..Len(s) : s[k] <= t[k]
    PROVE  Total(s) <= Total(t)
<1>1. PICK g : Sums(g, s) /\ Total(s) = g[Len(s)]
  BY TotalSums
<1>2. PICK h : Sums(h, t) /\ Total(t) = h[Len(t)]
  BY TotalSums
<1>3. Len(s) \in Nat /\ Len(s) <= Len(s) /\ Len(s) <= Len(t)
  BY LenProperties
<1>4. g[Len(s)] <= h[Len(s)]
  BY <1>1, <1>2, <1>3, SumsCompare
<1>. QED BY <1>1, <1>2, <1>4

\* The empty sum.
LEMMA TotalOfNone ==
    ASSUME NEW s \in Seq(Int), Len(s) = 0 PROVE Total(s) = 0
<1>1. PICK h : Sums(h, s) /\ Total(s) = h[Len(s)]
  BY TotalSums
<1>. QED BY <1>1, SumsAre

\* A sequence with one member more.
LEMMA TotalOfOneMore ==
    ASSUME NEW s \in Seq(Int), NEW t \in Seq(Int), Len(t) = Len(s) + 1,
           \A k \in 1..Len(s) : s[k] = t[k]
    PROVE  Total(t) = Total(s) + t[Len(t)]
<1>1. PICK g : Sums(g, s) /\ Total(s) = g[Len(s)]
  BY TotalSums
<1>2. PICK h : Sums(h, t) /\ Total(t) = h[Len(t)]
  BY TotalSums
<1>3. Len(s) \in Nat /\ Len(s) <= Len(s) /\ Len(s) <= Len(t) /\ \A k \in 1..Len(s) : s[k] \in Int /\ t[k] \in Int
  BY LenProperties
<1>4. g[Len(s)] <= h[Len(s)]
  <2>1. \A k \in 1..Len(s) : s[k] <= t[k]
    BY <1>3
  <2>. QED BY <1>1, <1>2, <1>3, <2>1, SumsCompare
<1>5. h[Len(s)] <= g[Len(s)]
  <2>1. \A k \in 1..Len(s) : t[k] <= s[k]
    BY <1>3
  <2>. QED BY <1>1, <1>2, <1>3, <2>1, SumsCompare
<1>6. h[Len(t)] = h[Len(s)] + t[Len(t)] /\ g[Len(s)] \in Int /\ h[Len(s)] \in Int
  <2>1. Len(t) \in 1..Len(t) /\ Len(t) - 1 = Len(s) /\ Len(s) \in 0..Len(t)
    BY <1>3
  <2>2. h \in [0..Len(t) -> Int] /\ \A k \in 1..Len(t) : h[k] = h[k - 1] + t[k]
    BY <1>2, SumsAre
  <2>3. g \in [0..Len(s) -> Int]
    BY <1>1, SumsAre
  <2>4. h[Len(t)] = h[Len(t) - 1] + t[Len(t)]
    BY <2>1, <2>2
  <2>5. h[Len(s)] \in Int /\ g[Len(s)] \in Int
    <3>1. Len(s) \in 0..Len(s)
      BY <1>3
    <3>. QED BY <2>1, <2>2, <2>3, <3>1
  <2>. QED BY <2>1, <2>4, <2>5
<1>. QED BY <1>1, <1>2, <1>4, <1>5, <1>6

\* A sequence whose last member, and no other, is greater by x.
LEMMA TotalOfLastRaised ==
    ASSUME NEW s \in Seq(Int), NEW t \in Seq(Int), NEW x \in Int, Len(t) = Len(s), Len(s) > 0,
           \A k \in 1..Len(s) : t[k] = IF k = Len(s) THEN s[k] + x ELSE s[k]
    PROVE  Total(t) = Total(s) + x
<1> DEFINE n == Len(s)
           u == [k \in 1..(n - 1) |-> s[k]]
<1>1. n \in Nat /\ n - 1 \in Nat /\ \A k \in 1..n : s[k] \in Int
  BY LenProperties
<1>2. u \in Seq(Int) /\ Len(u) = n - 1
  <2>1. u \in [1..(n - 1) -> Int]
    BY <1>1
  <2>. HIDE DEF u, n
  <2>2. u \in Seq(Int)
    BY <1>1, <2>1, SeqDef
  <2>. QED BY <1>1, <2>1, <2>2, LenProperties
<1>3. /\ \A k \in 1..Len(u) : u[k] = s[k] /\ u[k] = t[k]
      /\ Len(s) = Len(u) + 1 /\ Len(t) = Len(u) + 1
  BY <1>1, <1>2
<1>. HIDE DEF u
<1>4. Total(s) = Total(u) + s[n]
  BY <1>1, <1>2, <1>3, TotalOfOneMore
<1>5. Total(t) = Total(u) + t[n]
  BY <1>1, <1>2, <1>3, TotalOfOneMore
<1>6. t[n] = s[n] + x /\ s[n] \in Int /\ Total(u) \in Int
  BY <1>1, <1>2, TotalIsInt
<1>. QED BY <1>4, <1>5, <1>6

\* A sequence that is c times another.
LEMMA TotalOfMultiple ==
    ASSUME NEW s \in Seq(Int), NEW t \in Seq(Int), NEW c \in Int, Len(t) = Len(s),
           \A k \in 1..Len(s) : t[k] = s[k] * c
    PROVE  Total(t) = Total(s) * c
<1>1. PICK g : Sums(g, s) /\ Total(s) = g[Len(s)]
  BY TotalSums
<1>2. PICK h : Sums(h, t) /\ Total(t) = h[Len(t)]
  BY TotalSums
<1> DEFINE n == Len(s)
           S == {k \in Nat : k <= n => h[k] = g[k] * c}
<1>3. n \in Nat /\ \A k \in 1..n : s[k] \in Int
  BY LenProperties
<1>4. /\ g \in [0..n -> Int] /\ g[0] = 0 /\ \A k \in 1..n : g[k] = g[k - 1] + s[k]
      /\ h \in [0..n -> Int] /\ h[0] = 0 /\ \A k \in 1..n : h[k] = h[k - 1] + t[k]
  BY <1>1, <1>2, SumsAre
<1>5. 0 \in S
  BY <1>4
<1>6. ASSUME NEW k \in S PROVE k + 1 \in S
  <2>. SUFFICES ASSUME k + 1 <= n PROVE h[k + 1] = g[k + 1] * c
    OBVIOUS
  <2>1. k \in Nat /\ k + 1 \in 1..n /\ k \in 0..n /\ (k + 1) - 1 = k /\ h[k] = g[k] * c
    BY <1>3
  <2>2. /\ g[k + 1] = g[k] + s[k + 1] /\ h[k + 1] = h[k] + s[k + 1] * c
        /\ g[k] \in Int /\ s[k + 1] \in Int
    BY <1>3, <1>4, <2>1
  <2>. QED BY <2>1, <2>2
<1>7. n \in S
  <2>. HIDE DEF S, n
  <2>1. S \in SUBSET Nat
    BY DEF S
  <2>. QED BY <1>3, <1>5, <1>6, <2>1, Induction
<1>. QED BY <1>1, <1>2, <1>3, <1>7

-------------------------------------------------------------------------------
(***************************************************************************)
(* Orders.                                                                 *)
(***************************************************************************)

\* An injection of 1..n into itself reaches every number.
LEMMA Reaches ==
    ASSUME NEW n \in Nat, NEW f \in [1..n -> 1..n], \A j, k \in 1..n : f[j] = f[k] => j = k
    PROVE  \A i \in 1..n : \E k \in 1..n : f[k] = i
<1>1. IsFiniteSet(1..n)
  BY FS_Interval
<1>2. f \in Injection(1..n, 1..n)
  BY DEF Injection, IsInjective
<1> DEFINE I == 1..n
<1>3. f \in Surjection(I, I)
  <2>1. f \in Injection(I, I) /\ IsFiniteSet(I)
    BY <1>1, <1>2
  <2>. HIDE DEF I
  <2>. QED BY <2>1, FS_Injection
<1>. QED BY <1>3 DEF Surjection

\* Of two indices exactly one has the higher value, and the order is transitive.
LEMMA HigherOrders ==
    ASSUME NEW n \in Nat, NEW values, \A i \in 1..n : values[i] \in Int
    PROVE  /\ \A i \in 1..n : ~Higher(values, i, i)
           /\ \A i, j \in 1..n : i # j => Higher(values, i, j) \/ Higher(values, j, i)
           /\ \A i, j, k \in 1..n : Higher(values, i, j) /\ Higher(values, j, k) => Higher(values, i, k)
<1>1. \A i \in 1..n : ~Higher(values, i, i)
  BY DEF Higher
<1>2. \A i, j \in 1..n : i # j => Higher(values, i, j) \/ Higher(values, j, i)
  BY DEF Higher
<1>3. ASSUME NEW i \in 1..n, NEW j \in 1..n, NEW k \in 1..n, Higher(values, i, j), Higher(values, j, k)
      PROVE  Higher(values, i, k)
  <2>1. values[i] \in Int /\ values[j] \in Int /\ values[k] \in Int
    OBVIOUS
  <2>. QED BY <1>3, <2>1 DEF Higher
<1>. QED BY <1>1, <1>2, <1>3

\* Descending is the order it is meant to be: every index once, of falling values.
LEMMA DescendingSorts ==
    ASSUME NEW n \in Nat, NEW values, DOMAIN values = 1..n, \A i \in 1..n : values[i] \in Int
    PROVE  /\ Descending(values) \in [1..n -> 1..n]
           /\ \A j, k \in 1..n : j < k => Higher(values, Descending(values)[j], Descending(values)[k])
           /\ \A i \in 1..n : \E k \in 1..n : Descending(values)[k] = i
<1> DEFINE Above(i) == {j \in 1..n : Higher(values, j, i)}
           rank == [i \in 1..n |-> Cardinality(Above(i)) + 1]
<1>1. ASSUME NEW i \in 1..n
      PROVE  /\ IsFiniteSet(Above(i)) /\ Above(i) \subseteq 1..n /\ i \notin Above(i)
             /\ Cardinality(Above(i)) \in 0..(n - 1)
  <2>1. Above(i) \subseteq 1..n /\ i \notin Above(i)
    BY HigherOrders
  <2> DEFINE I == 1..n
             A == Above(i)
  <2>2. IsFiniteSet(I) /\ Cardinality(I) = n
    <3>1. ~(1 > n) /\ n - 1 + 1 = n
      OBVIOUS
    <3>. QED BY <3>1, FS_Interval
  <2>3. A \in SUBSET I /\ A # I
    BY <2>1
  <2>4. IsFiniteSet(A) /\ Cardinality(A) <= Cardinality(I) /\ Cardinality(A) # Cardinality(I)
    <3>. HIDE DEF I, A
    <3>. QED BY <2>2, <2>3, FS_Subset
  <2>5. Cardinality(A) \in Nat
    <3>. HIDE DEF A
    <3>. QED BY <2>4, FS_CardinalityType
  <2>6. Cardinality(A) \in 0..(n - 1)
    <3>. HIDE DEF A, I
    <3>. QED BY <2>2, <2>4, <2>5
  <2>. QED BY <2>1, <2>4, <2>6
<1>2. ASSUME NEW i \in 1..n, NEW j \in 1..n, Higher(values, i, j)
      PROVE  rank[i] < rank[j]
  <2> DEFINE A == Above(i)
             B == Above(j)
  <2>1. A \in SUBSET B
    BY <1>2, HigherOrders
  <2>2. i \in B /\ i \notin A
    BY <1>1, <1>2
  <2>3. IsFiniteSet(B) /\ IsFiniteSet(A) /\ Cardinality(A) \in Nat /\ Cardinality(B) \in Nat
    <3>1. /\ IsFiniteSet(Above(i)) /\ Cardinality(Above(i)) \in 0..(n - 1)
          /\ IsFiniteSet(Above(j)) /\ Cardinality(Above(j)) \in 0..(n - 1)
      BY <1>1
    <3>. HIDE DEF Above
    <3>. QED BY <3>1
  <2>4. Cardinality(A) <= Cardinality(B) /\ Cardinality(A) # Cardinality(B)
    <3>. HIDE DEF A, B
    <3>. QED BY <2>1, <2>2, <2>3, FS_Subset
  <2>5. rank[i] = Cardinality(A) + 1 /\ rank[j] = Cardinality(B) + 1
    OBVIOUS
  <2>. HIDE DEF A, B, rank
  <2>. QED BY <2>3, <2>4, <2>5
<1>3. rank \in [1..n -> 1..n]
  <2>1. ASSUME NEW i \in 1..n PROVE Cardinality(Above(i)) + 1 \in 1..n
    <3>1. Cardinality(Above(i)) \in 0..(n - 1)
      BY <1>1
    <3>. HIDE DEF Above
    <3>. QED BY <3>1
  <2>. HIDE DEF Above
  <2>. QED BY <2>1
<1>. HIDE DEF rank
<1>4. \A i, j \in 1..n : rank[i] = rank[j] => i = j
  <2>. SUFFICES ASSUME NEW i \in 1..n, NEW j \in 1..n, i # j PROVE rank[i] # rank[j]
    OBVIOUS
  <2>1. rank[i] < rank[j] \/ rank[j] < rank[i]
    BY <1>2, HigherOrders
  <2>2. rank[i] \in 1..n /\ rank[j] \in 1..n
    BY <1>3
  <2>. QED BY <2>1, <2>2
<1>5. \A k \in 1..n : \E i \in 1..n : rank[i] = k
  BY <1>3, <1>4, Reaches
<1> DEFINE sorted == [k \in 1..n |-> CHOOSE i \in 1..n : rank[i] = k]
<1>6. \A k \in 1..n : sorted[k] \in 1..n /\ rank[sorted[k]] = k
  BY <1>5
<1>7. sorted \in [1..n -> 1..n]
  BY <1>6
<1>8. ASSUME NEW j \in 1..n, NEW k \in 1..n, j < k
      PROVE  Higher(values, sorted[j], sorted[k])
  <2>1. /\ sorted[j] \in 1..n /\ rank[sorted[j]] = j
        /\ sorted[k] \in 1..n /\ rank[sorted[k]] = k
    BY <1>6
  <2>. HIDE DEF sorted
  <2>2. sorted[j] # sorted[k]
    BY <1>8, <2>1
  <2>3. ~Higher(values, sorted[k], sorted[j])
    <3>1. Higher(values, sorted[k], sorted[j]) => rank[sorted[k]] < rank[sorted[j]]
      BY <1>2, <2>1
    <3>. QED BY <1>8, <2>1, <3>1
  <2>. QED BY <2>1, <2>2, <2>3, HigherOrders
<1>. HIDE DEF sorted
<1> DEFINE order == Descending(values)
<1>9. /\ order \in [1..n -> 1..n]
      /\ \A j, k \in 1..n : j < k => Higher(values, order[j], order[k])
  BY <1>7, <1>8 DEF Descending
<1>. HIDE DEF order
<1>10. \A j, k \in 1..n : order[j] = order[k] => j = k
  <2>. SUFFICES ASSUME NEW j \in 1..n, NEW k \in 1..n, j # k, order[j] = order[k] PROVE FALSE
    OBVIOUS
  <2>1. j < k \/ k < j
    OBVIOUS
  <2>2. Higher(values, order[j], order[j])
    BY <1>9, <2>1
  <2>3. order[j] \in 1..n
    BY <1>9
  <2>. QED BY <2>2, <2>3, HigherOrders
<1>11. \A i \in 1..n : \E k \in 1..n : order[k] = i
  BY <1>9, <1>10, Reaches
<1>. QED BY <1>9, <1>11 DEF order

-------------------------------------------------------------------------------
(***************************************************************************)
(* Batches.                                                                *)
(***************************************************************************)
\* A plan lists batches, a batch lists inputs.
Plans(n) == Seq(Seq(1..n))

Placing(n, lengths, ceiling, order) ==
    [x \in (1..n) \X Plans(n) |-> Place(lengths, ceiling, x[2], order[x[1]])]

\* What a batch costs once it is padded to its first input.
Cost(lengths, batch) == Len(batch) * lengths[batch[1]]

\* A batch with one input more.
LEMMA Grown ==
    ASSUME NEW T, NEW s \in Seq(T), NEW i \in T
    PROVE  /\ Append(s, i) \in Seq(T) /\ Len(Append(s, i)) = Len(s) + 1
           /\ Append(s, i)[Len(s) + 1] = i /\ \A r \in 1..Len(s) : Append(s, i)[r] = s[r]
           /\ Range(Append(s, i)) = Range(s) \cup {i}
<1> DEFINE t == Append(s, i)
<1>1. /\ t \in Seq(T) /\ Len(t) = Len(s) + 1 /\ Len(s) \in Nat
      /\ t[Len(s) + 1] = i /\ \A r \in 1..Len(s) : t[r] = s[r]
  BY AppendProperties, LenProperties
<1>2. DOMAIN t = 1..(Len(s) + 1) /\ DOMAIN s = 1..Len(s)
  BY <1>1, LenProperties
<1>. HIDE DEF t
<1>3. 1..(Len(s) + 1) = (1..Len(s)) \cup {Len(s) + 1}
  BY <1>1
<1>4. Range(t) = Range(s) \cup {i}
  BY <1>1, <1>2, <1>3 DEF Range
<1>. QED BY <1>1, <1>4 DEF t

\* The last batch grows, at a cost that is allowed, or there is one batch more.
PlacedIn(q, lengths, ceiling, p, i, m) ==
    \/ /\ m > 0 /\ Len(q) = m /\ q[m] = Append(p[m], i)
       /\ Len(p[m]) > 0 => Cost(lengths, q[m]) <= ceiling
       /\ \A k \in 1..(m - 1) : q[k] = p[k]
    \/ /\ Len(q) = m + 1 /\ q[m + 1] = <<i>>
       /\ \A k \in 1..m : q[k] = p[k]

\* Place adds the input to the last batch if it is cheap enough, or begins another.
LEMMA PlaceIs ==
    ASSUME NEW n \in Nat, NEW lengths, NEW ceiling, NEW p \in Plans(n), NEW i \in 1..n,
           NEW q, q = Place(lengths, ceiling, p, i), NEW m, m = Len(p)
    PROVE  q \in Plans(n) /\ PlacedIn(q, lengths, ceiling, p, i, m)
<1> DEFINE joins == m > 0 /\ (Len(p[m]) + 1) * lengths[p[m][1]] <= ceiling
           B == Seq(1..n)
<1>1. m = Len(p) /\ m \in Nat /\ p \in [1..m -> B] /\ p \in Seq(B)
  BY LenProperties DEF Plans
<1>2. CASE joins
  <2> DEFINE s == p[m]
  <2>1. q = [p EXCEPT ![m] = Append(@, i)]
    BY <1>2 DEF Place
  <2>2. m \in 1..m /\ s \in B /\ Len(s) \in Nat
    <3>1. m \in 1..m /\ s \in B
      BY <1>1, <1>2
    <3>. HIDE DEF s
    <3>. QED BY <3>1, LenProperties
  <2>3. Append(s, i) \in B
    BY <2>2
  <2>4. q \in [1..m -> B] /\ q[m] = Append(s, i) /\ \A k \in 1..(m - 1) : q[k] = p[k]
    <3>. HIDE DEF B
    <3>. QED BY <1>1, <2>1, <2>2, <2>3
  <2>5. q \in Seq(B) /\ Len(q) = m
    <3>. HIDE DEF B
    <3>1. q \in Seq(B)
      BY <1>1, <2>4, SeqDef
    <3>. QED BY <1>1, <2>4, <3>1, LenProperties
  <2>6. ASSUME Len(s) > 0 PROVE Cost(lengths, q[m]) <= ceiling
    <3>1. Len(Append(s, i)) = Len(s) + 1 /\ \A r \in 1..Len(s) : Append(s, i)[r] = s[r]
      <4>. HIDE DEF s
      <4>. QED BY <2>2, Grown
    <3>2. Append(s, i)[1] = s[1]
      BY <2>2, <2>6, <3>1
    <3>3. Cost(lengths, Append(s, i)) = (Len(s) + 1) * lengths[s[1]]
      <4>. HIDE DEF s
      <4>. QED BY <3>1, <3>2 DEF Cost
    <3>. QED BY <1>2, <2>4, <3>3
  <2>. QED BY <1>2, <2>1, <2>4, <2>5, <2>6 DEF Plans, PlacedIn
<1>3. CASE ~joins
  <2>1. q = Append(p, <<i>>)
    BY <1>3 DEF Place
  <2>2. <<i>> \in B
    OBVIOUS
  <2> DEFINE b == <<i>>
  <2>3. q \in Seq(B) /\ Len(q) = m + 1 /\ q[m + 1] = b /\ \A k \in 1..m : q[k] = p[k]
    <3>1. b \in B
      BY <2>2
    <3>. HIDE DEF B, b
    <3>. QED BY <1>1, <2>1, <3>1, AppendProperties DEF b
  <2>. QED BY <2>1, <2>3 DEF Plans, PlacedIn
<1>. QED BY <1>2, <1>3

\* PlanBatches is where a run of Place ends.
PlanRun(h, n, lengths, ceiling, order) ==
    /\ h \in [0..n -> Plans(n)] /\ h[0] = <<>>
    /\ \A k \in 1..n : h[k] = Place(lengths, ceiling, h[k - 1], order[k])

\* PlanBatches places the inputs one by one, in their order.
LEMMA PlanRuns ==
    ASSUME NEW n \in Nat, NEW lengths, NEW ceiling,
           NEW order \in [1..n -> 1..n], LongestFirst(lengths) = order
    PROVE  \E h : PlanRun(h, n, lengths, ceiling, order) /\ PlanBatches(lengths, ceiling) = h[n]
<1> DEFINE State == Plans(n)
           F == Placing(n, lengths, ceiling, order)
           base == <<>>
           Of(g, t) == IF t = {} THEN <<>> ELSE Place(lengths, ceiling, g[t \ {Max(t)}], order[Max(t)])
           iter == CHOOSE f : f = [t \in SUBSET (1..n) |-> Of(f, t)]
<1>1. base \in State /\ F \in [(1..n) \X State -> State]
  <2>1. ASSUME NEW x \in (1..n) \X State PROVE Place(lengths, ceiling, x[2], order[x[1]]) \in State
    <3>1. x[2] \in State /\ order[x[1]] \in 1..n
      OBVIOUS
    <3>2. x[2] \in Plans(n)
      BY <3>1
    <3>. QED BY <3>1, <3>2, PlaceIs
  <2>2. base \in State
    BY DEF Plans
  <2>. HIDE DEF State, base
  <2>. QED BY <2>1, <2>2 DEF Placing, State
<1>2. \E g : Folding(g, n, State, base, F)
  <2>. HIDE DEF base, State, F
  <2>. QED BY <1>1, FoldIsDefined
<1>3. ASSUME NEW t \in SUBSET (1..n), t # {} PROVE Max(t) \in 1..n
  <2>1. t \in SUBSET (0..n)
    OBVIOUS
  <2>. QED BY <1>3, <2>1, GreatestNumber
<1>4. ASSUME NEW g, g \in [SUBSET (1..n) -> State], NEW t \in SUBSET (1..n), t # {}
      PROVE  F[<<Max(t), g[t \ {Max(t)}]>>] = Place(lengths, ceiling, g[t \ {Max(t)}], order[Max(t)])
  <2>1. Max(t) \in 1..n /\ g[t \ {Max(t)}] \in State
    BY <1>3, <1>4
  <2>. QED BY <2>1 DEF Placing
<1>5. ASSUME NEW g
      PROVE  Folding(g, n, State, base, F)
                <=> g \in [SUBSET (1..n) -> State] /\ g = [t \in SUBSET (1..n) |-> Of(g, t)]
  <2>1. ASSUME g \in [SUBSET (1..n) -> State], NEW t \in SUBSET (1..n)
        PROVE  Of(g, t) = IF t = {} THEN base ELSE F[<<Max(t), g[t \ {Max(t)}]>>]
    <3>. HIDE DEF State, F
    <3>. QED BY <1>4, <2>1
  <2>. HIDE DEF Of, State, base, F
  <2>. QED BY <2>1 DEF Folding
<1>6. DOMAIN iter = SUBSET (1..n) /\ \A t \in SUBSET (1..n) : iter[t] = Of(iter, t)
  <2>1. iter = [t \in SUBSET (1..n) |-> Of(iter, t)]
    <3>. HIDE DEF Of, State, base, F
    <3>. QED BY <1>2, <1>5
  <2>. HIDE DEF iter, Of
  <2>. QED BY <2>1
<1>7. PlanBatches(lengths, ceiling) = iter[1..n]
  BY DEF PlanBatches, FoldLeft, MapThenFoldSet
<1>. HIDE DEF iter
<1>8. \A t \in SUBSET (1..n) : iter[t] \in State
  <2>1. iter[{}] \in State
    <3>1. {} \in SUBSET (1..n)
      OBVIOUS
    <3>2. iter[{}] = Of(iter, {})
      <4>. HIDE DEF Of, State
      <4>. QED BY <1>6, <3>1
    <3>. QED BY <1>1, <3>2
  <2>2. ASSUME NEW t \in SUBSET (1..n), t # {}, iter[t \ {Max(t)}] \in State PROVE iter[t] \in State
    <3>1. order[Max(t)] \in 1..n
      BY <1>3, <2>2
    <3>2. iter[t] = Place(lengths, ceiling, iter[t \ {Max(t)}], order[Max(t)])
      BY <1>6, <2>2
    <3> DEFINE before == iter[t \ {Max(t)}]
               i == order[Max(t)]
    <3>3. before \in Plans(n) /\ i \in 1..n /\ iter[t] = Place(lengths, ceiling, before, i)
      BY <2>2, <3>1, <3>2
    <3>. HIDE DEF before, i
    <3>4. Place(lengths, ceiling, before, i) \in Plans(n)
      BY <3>3, PlaceIs
    <3>. QED BY <3>3, <3>4
  <2>. HIDE DEF State
  <2>. QED BY <2>1, <2>2, FoldStays
<1>9. Folding(iter, n, State, base, F)
  <2>1. iter \in [SUBSET (1..n) -> State] /\ iter = [t \in SUBSET (1..n) |-> Of(iter, t)]
    <3>. HIDE DEF Of, State
    <3>1. iter = [t \in SUBSET (1..n) |-> Of(iter, t)]
      BY <1>2, <1>5 DEF iter
    <3>. QED BY <1>6, <1>8, <3>1
  <2>. HIDE DEF Of, State, base, F
  <2>. QED BY <1>5, <2>1
<1>10. PICK h : Run(h, n, State, base, F) /\ iter[1..n] = h[n]
  <2>. HIDE DEF State, base, F
  <2>. QED BY <1>9, FoldingRuns
<1>11. ASSUME NEW k \in 1..n PROVE h[k] = Place(lengths, ceiling, h[k - 1], order[k])
  <2>1. h[k - 1] \in State /\ h[k] = F[<<k, h[k - 1]>>]
    <3>. HIDE DEF State, base, F
    <3>1. k - 1 \in 0..n
      OBVIOUS
    <3>. QED BY <1>10, <3>1 DEF Run
  <2>. QED BY <2>1 DEF Placing
<1>12. h \in [0..n -> Plans(n)] /\ h[0] = <<>>
  BY <1>10 DEF Run
<1>. QED BY <1>7, <1>10, <1>11, <1>12 DEF PlanRun

-------------------------------------------------------------------------------
\* A batch begins with its longest input and costs no more than it may.
Fit(lengths, ceiling, s) ==
    /\ Len(s) > 0 /\ Cost(lengths, s) <= ceiling
    /\ \A r \in 1..Len(s) : lengths[s[r]] <= lengths[s[1]]

\* Every batch of a plan does.
Fits(lengths, ceiling, p) == \A b \in 1..Len(p) : Fit(lengths, ceiling, p[b])

\* An input is in a batch of the plan.
Holds(p, j) == \E b \in 1..Len(p) : j \in Range(p[b])

\* The batches' numbers of inputs.
Sizes(p) == [b \in DOMAIN p |-> Len(p[b])]

\* A batch of a plan and its members.
LEMMA Batch ==
    ASSUME NEW n \in Nat, NEW p \in Plans(n)
    PROVE  /\ Len(p) \in Nat /\ DOMAIN p = 1..Len(p)
           /\ \A b \in 1..Len(p) :
                 /\ p[b] \in Seq(1..n) /\ Len(p[b]) \in Nat /\ DOMAIN p[b] = 1..Len(p[b])
                 /\ \A r \in 1..Len(p[b]) : p[b][r] \in 1..n
           /\ Sizes(p) \in Seq(Int) /\ Len(Sizes(p)) = Len(p)
           /\ \A b \in 1..Len(p) : Sizes(p)[b] = Len(p[b])
<1>1. Len(p) \in Nat /\ DOMAIN p = 1..Len(p) /\ \A b \in 1..Len(p) : p[b] \in Seq(1..n)
  BY LenProperties DEF Plans
<1>2. \A b \in 1..Len(p) :
         /\ p[b] \in Seq(1..n) /\ Len(p[b]) \in Nat /\ DOMAIN p[b] = 1..Len(p[b])
         /\ \A r \in 1..Len(p[b]) : p[b][r] \in 1..n
  BY <1>1, LenProperties
<1>3. Sizes(p) \in [1..Len(p) -> Int]
  BY <1>1, <1>2 DEF Sizes
<1>4. Sizes(p) \in Seq(Int)
  BY <1>1, <1>3, SeqDef
<1>5. Len(Sizes(p)) = Len(p)
  BY <1>1, <1>3, <1>4, LenProperties
<1>. QED BY <1>1, <1>2, <1>4, <1>5 DEF Sizes

\* A batch takes one input more, which is no longer than its first; or has only one.
LEMMA FitGrows ==
    ASSUME NEW n \in Nat, NEW lengths \in [1..n -> Nat], NEW ceiling \in Nat, NEW i \in 1..n
    PROVE  /\ \A s \in Seq(1..n) :
                 /\ Fit(lengths, ceiling, s) /\ Cost(lengths, Append(s, i)) <= ceiling
                 /\ lengths[i] <= lengths[s[1]]
                 => Fit(lengths, ceiling, Append(s, i))
           /\ lengths[i] <= ceiling => Fit(lengths, ceiling, <<i>>)
<1>1. ASSUME NEW s \in Seq(1..n), Fit(lengths, ceiling, s), Cost(lengths, Append(s, i)) <= ceiling,
             lengths[i] <= lengths[s[1]]
      PROVE  Fit(lengths, ceiling, Append(s, i))
  <2> DEFINE t == Append(s, i)
  <2>1. /\ Len(t) = Len(s) + 1 /\ Len(s) \in Nat /\ t[Len(s) + 1] = i
        /\ \A r \in 1..Len(s) : t[r] = s[r]
    BY Grown, LenProperties
  <2>2. Len(s) > 0 /\ \A r \in 1..Len(s) : lengths[s[r]] <= lengths[s[1]]
    BY <1>1 DEF Fit
  <2>. HIDE DEF t
  <2>3. t[1] = s[1]
    BY <2>1, <2>2
  <2>4. ASSUME NEW r \in 1..Len(t) PROVE lengths[t[r]] <= lengths[t[1]]
    <3>1. CASE r = Len(s) + 1
      BY <1>1, <2>1, <2>3, <3>1
    <3>2. CASE r # Len(s) + 1
      <4>1. r \in 1..Len(s)
        <5>1. 1..(Len(s) + 1) = (1..Len(s)) \cup {Len(s) + 1}
          BY <2>1
        <5>2. r \in 1..(Len(s) + 1)
          BY <2>1
        <5>. QED BY <3>2, <5>1, <5>2
      <4>. QED BY <2>1, <2>2, <2>3, <4>1
    <3>. QED BY <3>1, <3>2
  <2>5. Len(t) > 0 /\ Cost(lengths, t) <= ceiling
    BY <1>1, <2>1 DEF t
  <2>6. Fit(lengths, ceiling, t)
    BY <2>4, <2>5 DEF Fit
  <2>. QED BY <2>6 DEF t
<1>2. ASSUME lengths[i] <= ceiling PROVE Fit(lengths, ceiling, <<i>>)
  <2> DEFINE t == <<i>>
  <2>1. Len(t) = 1 /\ t[1] = i /\ lengths[i] \in Nat
    OBVIOUS
  <2>. HIDE DEF t
  <2>2. Cost(lengths, t) = lengths[i]
    BY <2>1 DEF Cost
  <2>3. \A r \in 1..Len(t) : r = 1
    BY <2>1
  <2>4. Fit(lengths, ceiling, t)
    BY <1>2, <2>1, <2>2, <2>3 DEF Fit
  <2>. QED BY <2>4 DEF t
<1>. QED BY <1>1, <1>2

\* An input no longer than those that are placed, and a plan with that one more.
NoLonger(n, lengths, p, i) == \A j \in 1..n : Holds(p, j) => lengths[i] <= lengths[j]

\* The plan q holds one input more than p.
OneMore(n, p, i, q) == \A j \in 1..n : Holds(q, j) <=> Holds(p, j) \/ j = i

\* A plan that fits still does with one input more that is no longer than the others.
LEMMA PlaceKeeps ==
    ASSUME NEW n \in Nat, NEW lengths \in [1..n -> Nat], NEW ceiling \in Nat,
           NEW p \in Plans(n), NEW i \in 1..n, lengths[i] <= ceiling, Fits(lengths, ceiling, p),
           NoLonger(n, lengths, p, i), NEW q, q = Place(lengths, ceiling, p, i)
    PROVE  /\ q \in Plans(n) /\ Fits(lengths, ceiling, q) /\ OneMore(n, p, i, q)
           /\ Total(Sizes(q)) = Total(Sizes(p)) + 1
<1> DEFINE m == Len(p)
           grows == /\ m > 0 /\ Len(q) = m /\ q[m] = Append(p[m], i)
                    /\ Len(p[m]) > 0 => Cost(lengths, q[m]) <= ceiling
                    /\ \A k \in 1..(m - 1) : q[k] = p[k]
           begins == /\ Len(q) = m + 1 /\ q[m + 1] = <<i>>
                     /\ \A k \in 1..m : q[k] = p[k]
<1>1. q \in Plans(n) /\ (grows \/ begins)
  <2>1. m = Len(p)
    OBVIOUS
  <2>. HIDE DEF m
  <2>2. q \in Plans(n) /\ PlacedIn(q, lengths, ceiling, p, i, m)
    BY <2>1, PlaceIs
  <2>. QED BY <2>2 DEF PlacedIn
<1>2. m = Len(p) /\ m \in Nat /\ \A b \in 1..m : p[b] \in Seq(1..n)
  BY Batch
<1>3. \A b \in 1..m : Fit(lengths, ceiling, p[b])
  BY DEF Fits
<1>4. /\ Sizes(p) \in Seq(Int) /\ Len(Sizes(p)) = m /\ \A b \in 1..m : Sizes(p)[b] = Len(p[b])
      /\ Sizes(q) \in Seq(Int) /\ Len(Sizes(q)) = Len(q) /\ \A b \in 1..Len(q) : Sizes(q)[b] = Len(q[b])
  BY <1>1, Batch
<1>. HIDE DEF m
<1>5. CASE grows
  <2>1. /\ m \in 1..m /\ Len(q) = m /\ q[m] = Append(p[m], i)
        /\ \A k \in 1..m : k # m => q[k] = p[k]
        /\ p[m] \in Seq(1..n) /\ Fit(lengths, ceiling, p[m])
    <3>1. m \in 1..m /\ Len(q) = m /\ q[m] = Append(p[m], i)
      BY <1>2, <1>5
    <3>2. ASSUME NEW k \in 1..m, k # m PROVE q[k] = p[k]
      <4>1. k \in 1..(m - 1)
        BY <1>2, <3>2
      <4>. QED BY <1>5, <4>1
    <3>. QED BY <1>2, <1>3, <3>1, <3>2
  <2> DEFINE s == p[m]
  <2>2. Len(s) \in Nat /\ Len(s) > 0 /\ s[1] \in Range(s) /\ s[1] \in 1..n
    <3>1. s \in Seq(1..n) /\ Len(s) > 0
      BY <2>1 DEF Fit
    <3>. HIDE DEF s
    <3>2. Len(s) \in Nat /\ DOMAIN s = 1..Len(s) /\ 1 \in 1..Len(s)
      BY <3>1, LenProperties
    <3>3. s[1] \in Range(s)
      BY <3>2, Zenon DEF Range
    <3>4. s[1] \in 1..n
      BY <3>1, <3>2, ElementOfSeq
    <3>. QED BY <3>1, <3>2, <3>3, <3>4
  <2>3. lengths[i] <= lengths[s[1]]
    <3>1. Holds(p, s[1])
      BY <1>2, <2>1, <2>2 DEF Holds
    <3>. QED BY <2>2, <3>1 DEF NoLonger
  <2>4. Fit(lengths, ceiling, q[m])
    <3>1. Cost(lengths, Append(s, i)) <= ceiling /\ s \in Seq(1..n) /\ Fit(lengths, ceiling, s)
      BY <1>5, <2>1, <2>2
    <3>. HIDE DEF s
    <3>2. Fit(lengths, ceiling, Append(s, i))
      BY <2>3, <3>1, FitGrows
    <3>. QED BY <2>1, <3>2 DEF s
  <2>5. Fits(lengths, ceiling, q)
    BY <1>3, <2>1, <2>4 DEF Fits
  <2>6. Range(q[m]) = Range(s) \cup {i} /\ Len(q[m]) = Len(s) + 1
    <3>1. s \in Seq(1..n) /\ q[m] = Append(s, i)
      BY <2>1
    <3>. HIDE DEF s
    <3>. QED BY <3>1, Grown
  <2>7. OneMore(n, p, i, q)
    BY <1>2, <2>1, <2>6 DEF Holds, OneMore
  <2>8. Total(Sizes(q)) = Total(Sizes(p)) + 1
    <3>1. \A b \in 1..m : Sizes(q)[b] = IF b = m THEN Sizes(p)[b] + 1 ELSE Sizes(p)[b]
      BY <1>4, <2>1, <2>6
    <3> DEFINE u == Sizes(p)
               v == Sizes(q)
    <3>2. /\ u \in Seq(Int) /\ v \in Seq(Int) /\ Len(v) = Len(u) /\ Len(u) > 0 /\ 1 \in Int
          /\ \A b \in 1..Len(u) : v[b] = IF b = Len(u) THEN u[b] + 1 ELSE u[b]
      BY <1>4, <2>1, <3>1
    <3>. HIDE DEF u, v
    <3>3. Total(v) = Total(u) + 1
      BY <3>2, TotalOfLastRaised
    <3>. QED BY <3>3 DEF u, v
  <2>. QED BY <1>1, <2>5, <2>7, <2>8
<1>6. CASE begins
  <2>1. /\ m + 1 \in 1..Len(q) /\ Len(q) = m + 1 /\ q[m + 1] = <<i>>
        /\ \A b \in 1..Len(q) : b # m + 1 => b \in 1..m /\ q[b] = p[b]
        /\ \A b \in 1..m : b \in 1..Len(q) /\ q[b] = p[b]
    BY <1>2, <1>6
  <2>2. Fit(lengths, ceiling, q[m + 1]) /\ Range(q[m + 1]) = {i} /\ Len(q[m + 1]) = 1
    <3>1. Fit(lengths, ceiling, <<i>>)
      BY FitGrows
    <3>2. Range(<<i>>) = {i} /\ Len(<<i>>) = 1
      BY DEF Range
    <3>. QED BY <2>1, <3>1, <3>2
  <2>3. Fits(lengths, ceiling, q)
    BY <1>3, <2>1, <2>2 DEF Fits
  <2>4. OneMore(n, p, i, q)
    BY <1>2, <2>1, <2>2 DEF Holds, OneMore
  <2>5. Total(Sizes(q)) = Total(Sizes(p)) + 1
    <3> DEFINE u == Sizes(p)
               v == Sizes(q)
    <3>1. /\ u \in Seq(Int) /\ v \in Seq(Int) /\ Len(v) = Len(u) + 1 /\ v[Len(v)] = 1
          /\ \A b \in 1..Len(u) : u[b] = v[b]
      <4>1. Len(u) = m /\ Len(v) = m + 1 /\ v[m + 1] = Len(q[m + 1])
        BY <1>4, <2>1
      <4>2. ASSUME NEW b \in 1..m PROVE u[b] = v[b]
        <5>1. u[b] = Len(p[b]) /\ v[b] = Len(q[b]) /\ q[b] = p[b]
          BY <1>4, <2>1
        <5>. QED BY <5>1
      <4>. QED BY <1>4, <2>2, <4>1, <4>2
    <3>. HIDE DEF u, v
    <3>2. Total(v) = Total(u) + 1
      BY <3>1, TotalOfOneMore
    <3>. QED BY <3>2 DEF u, v
  <2>. QED BY <1>1, <2>3, <2>4, <2>5
<1>. QED BY <1>1, <1>5, <1>6

\* The plan for inputs each of which fits on its own: every input is in it, in batches
\* that fit, and as many places as there are inputs.
LEMMA PlanFits ==
    ASSUME NEW n \in Nat, NEW lengths \in [1..n -> Nat], NEW ceiling \in Nat,
           \A i \in 1..n : lengths[i] <= ceiling
    PROVE  LET p == PlanBatches(lengths, ceiling) IN
           /\ p \in Plans(n) /\ Fits(lengths, ceiling, p)
           /\ \A i \in 1..n : Holds(p, i)
           /\ Total(Sizes(p)) = n
<1> DEFINE order == LongestFirst(lengths)
<1>1. /\ order \in [1..n -> 1..n]
      /\ \A j, k \in 1..n : j < k => lengths[order[j]] >= lengths[order[k]]
      /\ \A i \in 1..n : \E k \in 1..n : order[k] = i
  <2>1. /\ order \in [1..n -> 1..n]
        /\ \A j, k \in 1..n : j < k => Higher(lengths, order[j], order[k])
        /\ \A i \in 1..n : \E k \in 1..n : order[k] = i
    <3>1. DOMAIN lengths = 1..n /\ \A i \in 1..n : lengths[i] \in Int
      OBVIOUS
    <3>. QED BY <3>1, DescendingSorts DEF LongestFirst
  <2>. HIDE DEF order
  <2>2. ASSUME NEW j \in 1..n, NEW k \in 1..n, j < k PROVE lengths[order[j]] >= lengths[order[k]]
    <3>1. Higher(lengths, order[j], order[k]) /\ order[j] \in 1..n /\ order[k] \in 1..n
      BY <2>1, <2>2
    <3>2. lengths[order[j]] \in Nat /\ lengths[order[k]] \in Nat
      BY <3>1
    <3>. QED BY <3>1, <3>2 DEF Higher
  <2>. QED BY <2>1, <2>2
<1>2. PICK h : /\ h \in [0..n -> Plans(n)] /\ h[0] = <<>>
               /\ \A k \in 1..n : h[k] = Place(lengths, ceiling, h[k - 1], order[k])
               /\ PlanBatches(lengths, ceiling) = h[n]
  <2>1. LongestFirst(lengths) = order
    OBVIOUS
  <2>. HIDE DEF order
  <2>2. \E h : PlanRun(h, n, lengths, ceiling, order) /\ PlanBatches(lengths, ceiling) = h[n]
    <3>1. order \in [1..n -> 1..n]
      BY <1>1
    <3>. QED BY <2>1, <3>1, PlanRuns
  <2>. QED BY <2>2 DEF PlanRun
<1>. HIDE DEF order
<1> DEFINE Placed(k) == /\ h[k] \in Plans(n) /\ Fits(lengths, ceiling, h[k])
                        /\ \A j \in 1..n : Holds(h[k], j) <=> \E x \in 1..k : order[x] = j
                        /\ Total(Sizes(h[k])) = k
           S == {k \in Nat : k <= n => Placed(k)}
<1>3. 0 \in S
  <2>1. h[0] \in Plans(n) /\ Len(h[0]) = 0
    BY <1>2
  <2>2. Fits(lengths, ceiling, h[0]) /\ \A j \in 1..n : ~Holds(h[0], j)
    BY <2>1 DEF Fits, Holds
  <2>3. Total(Sizes(h[0])) = 0
    BY <2>1, Batch, TotalOfNone
  <2>. QED BY <2>1, <2>2, <2>3
<1>4. ASSUME NEW k \in S PROVE k + 1 \in S
  <2>0. k \in Nat
    OBVIOUS
  <2>. SUFFICES ASSUME k + 1 <= n PROVE Placed(k + 1)
    <3>. HIDE DEF Placed
    <3>. QED OBVIOUS
  <2>1. Placed(k)
    <3>. HIDE DEF Placed
    <3>. QED BY <1>4, <2>0
  <2> DEFINE p == h[k]
             q == h[k + 1]
             i == order[k + 1]
  <2>2. q = Place(lengths, ceiling, p, i) /\ i \in 1..n
    <3>1. k + 1 \in 1..n /\ (k + 1) - 1 = k
      BY <2>0
    <3>. QED BY <1>1, <1>2, <3>1
  <2>3. NoLonger(n, lengths, p, i)
    <3>. SUFFICES ASSUME NEW j \in 1..n, Holds(p, j) PROVE lengths[i] <= lengths[j]
      BY DEF NoLonger
    <3>1. PICK x \in 1..k : order[x] = j
      BY <2>1
    <3>2. x \in 1..n /\ k + 1 \in 1..n /\ x < k + 1
      BY <2>0
    <3>3. lengths[order[x]] >= lengths[order[k + 1]]
      BY <1>1, <3>2
    <3>4. lengths[i] \in Nat /\ lengths[j] \in Nat
      BY <2>2
    <3>. QED BY <3>1, <3>3, <3>4
  <2>4. /\ q \in Plans(n) /\ Fits(lengths, ceiling, q) /\ OneMore(n, p, i, q)
        /\ Total(Sizes(q)) = Total(Sizes(p)) + 1
    <3>1. p \in Plans(n) /\ Fits(lengths, ceiling, p) /\ lengths[i] <= ceiling
      BY <2>1, <2>2
    <3>. HIDE DEF p, q, i
    <3>. QED BY <2>2, <2>3, <3>1, PlaceKeeps
  <2>5. \A j \in 1..n : Holds(q, j) <=> \E x \in 1..(k + 1) : order[x] = j
    <3>. SUFFICES ASSUME NEW j \in 1..n PROVE Holds(q, j) <=> \E x \in 1..(k + 1) : order[x] = j
      OBVIOUS
    <3>1. Holds(p, j) <=> \E x \in 1..k : order[x] = j
      BY <2>1
    <3>2. 1..(k + 1) = (1..k) \cup {k + 1}
      BY <2>0
    <3>. QED BY <2>4, <3>1, <3>2 DEF OneMore
  <2>. QED BY <2>1, <2>4, <2>5
<1>5. n \in S
  <2>. HIDE DEF S
  <2>1. S \in SUBSET Nat
    BY DEF S
  <2>. QED BY <1>3, <1>4, <2>1, Induction
<1>6. Placed(n)
  <2>. HIDE DEF Placed
  <2>. QED BY <1>5
<1>. QED BY <1>1, <1>2, <1>6

\* A product grows with its second factor.
LEMMA Longer ==
    ASSUME NEW x \in Nat, NEW y \in Nat, NEW z \in Nat, y <= z
    PROVE  x * y \in Int /\ x * z \in Int /\ x * y <= x * z
<1> DEFINE S == {k \in Nat : k * y <= k * z}
<1>1. 0 \in S
  OBVIOUS
<1>2. ASSUME NEW k \in S PROVE k + 1 \in S
  <2>1. k \in Nat /\ k * y <= k * z
    OBVIOUS
  <2>2. (k + 1) * y = k * y + y /\ (k + 1) * z = k * z + z
    BY <2>1
  <2>. QED BY <2>1, <2>2
<1>3. x \in S
  <2>. HIDE DEF S
  <2>1. S \in SUBSET Nat
    BY DEF S
  <2>. QED BY <1>1, <1>2, <2>1, Induction
<1>. QED BY <1>3

\* What is planned is at most what all the inputs would cost at the length of the longest.
LEMMA PlannedIsBounded ==
    ASSUME NEW n \in Nat, NEW lengths \in [1..n -> Nat], NEW p \in Plans(n), NEW longest \in Nat,
           \A i \in 1..n : lengths[i] <= longest, \A b \in 1..Len(p) : Len(p[b]) > 0
    PROVE  Planned(lengths, p) \in Int /\ Planned(lengths, p) <= Total(Sizes(p)) * longest
<1> DEFINE m == Len(p)
           cost == [b \in DOMAIN p |-> Len(p[b]) * lengths[p[b][1]]]
           most == [b \in 1..m |-> Len(p[b]) * longest]
<1>1. /\ m \in Nat /\ DOMAIN p = 1..m
      /\ \A b \in 1..m : Len(p[b]) \in Nat /\ p[b][1] \in 1..n
  BY Batch
<1>2. /\ cost \in [1..m -> Int] /\ most \in [1..m -> Int]
      /\ \A b \in 1..m : cost[b] <= most[b]
  <2>1. ASSUME NEW b \in 1..m
        PROVE  /\ Len(p[b]) * lengths[p[b][1]] \in Int /\ Len(p[b]) * longest \in Int
               /\ Len(p[b]) * lengths[p[b][1]] <= Len(p[b]) * longest
    <3> DEFINE x == Len(p[b])
               y == lengths[p[b][1]]
    <3>1. x \in Nat /\ y \in Nat /\ y <= longest
      BY <1>1
    <3>. HIDE DEF x, y
    <3>2. x * y \in Int /\ x * longest \in Int /\ x * y <= x * longest
      BY <3>1, Longer
    <3>. QED BY <3>2 DEF x, y
  <2>. QED BY <1>1, <2>1
<1>3. /\ cost \in Seq(Int) /\ Len(cost) = m /\ most \in Seq(Int) /\ Len(most) = m
  <2>. HIDE DEF cost, most, m
  <2>1. cost \in Seq(Int) /\ most \in Seq(Int)
    BY <1>1, <1>2, SeqDef
  <2>. QED BY <1>1, <1>2, <2>1, LenProperties
<1>4. Total(cost) <= Total(most)
  <2>. HIDE DEF cost, most, m
  <2>. QED BY <1>2, <1>3, TotalCompares
<1>5. Total(most) = Total(Sizes(p)) * longest
  <2>1. /\ Sizes(p) \in Seq(Int) /\ Len(Sizes(p)) = m
        /\ \A b \in 1..m : most[b] = Sizes(p)[b] * longest
    BY Batch
  <2> DEFINE s == Sizes(p)
  <2>2. s \in Seq(Int) /\ most \in Seq(Int) /\ Len(most) = Len(s) /\ longest \in Int
    BY <1>3, <2>1
  <2>3. \A b \in 1..Len(s) : most[b] = s[b] * longest
    BY <2>1
  <2>. HIDE DEF most, s
  <2>4. Total(most) = Total(s) * longest
    BY <2>2, <2>3, TotalOfMultiple
  <2>. QED BY <2>4 DEF s
<1>6. Total(cost) \in Int
  <2>. HIDE DEF cost
  <2>. QED BY <1>3, TotalIsInt
<1>. QED BY <1>4, <1>5, <1>6 DEF Planned

-------------------------------------------------------------------------------
(***************************************************************************)
(* Lengths.                                                                *)
(***************************************************************************)
\* AtMost and AtLeast, as the smaller and the greater of two.
LEMMA AtMostIs ==
    ASSUME NEW a \in Int, NEW b \in Int
    PROVE  /\ AtMost(a, b) = IF a <= b THEN a ELSE b
           /\ AtLeast(a, b) = IF a <= b THEN b ELSE a
<1>1. AtMost(a, b) \in {a, b} /\ AtMost(a, b) <= a /\ AtMost(a, b) <= b
  <2>1. \E x \in {a, b} : \A y \in {a, b} : x <= y
    <3>1. CASE a <= b
      BY <3>1
    <3>2. CASE b <= a
      BY <3>2
    <3>. QED BY <3>1, <3>2
  <2>. QED BY <2>1 DEF AtMost, Min
<1>2. AtLeast(a, b) \in {a, b} /\ a <= AtLeast(a, b) /\ b <= AtLeast(a, b)
  <2>1. \E x \in {a, b} : \A y \in {a, b} : x >= y
    <3>1. CASE a <= b
      BY <3>1
    <3>2. CASE b <= a
      BY <3>2
    <3>. QED BY <3>1, <3>2
  <2>2. AtLeast(a, b) \in {a, b} /\ \A y \in {a, b} : AtLeast(a, b) >= y
    BY <2>1 DEF AtLeast, Max
  <2>. QED BY <2>2
<1>. QED BY <1>1, <1>2

\* A sum of naturals is one.
LEMMA TotalOfNats ==
    ASSUME NEW s \in Seq(Nat) PROVE Total(s) \in Nat
<1> DEFINE n == Len(s)
           t == [k \in 1..n |-> 0]
<1>1. n \in Nat /\ s \in [1..n -> Int] /\ \A k \in 1..n : s[k] \in Nat
  BY LenProperties
<1>2. s \in Seq(Int)
  BY <1>1, SeqDef
<1>3. t \in Seq(Int) /\ Len(t) = n /\ \A k \in 1..n : t[k] = s[k] * 0 /\ t[k] <= s[k]
  <2>1. t \in [1..n -> Int]
    OBVIOUS
  <2>2. \A k \in 1..n : t[k] = s[k] * 0 /\ t[k] <= s[k]
    BY <1>1
  <2>. HIDE DEF t, n
  <2>3. t \in Seq(Int)
    BY <1>1, <2>1, SeqDef
  <2>. QED BY <1>1, <2>1, <2>2, <2>3, LenProperties
<1>. HIDE DEF t
<1>4. Total(s) \in Int /\ Total(t) \in Int
  BY <1>2, <1>3, TotalIsInt
<1>5. Total(t) = Total(s) * 0
  BY <1>2, <1>3, TotalOfMultiple
<1>6. Total(t) <= Total(s)
  BY <1>2, <1>3, TotalCompares
<1>. QED BY <1>4, <1>5, <1>6

\* The sequences of a request in a model m of its route.
LengthsIn(m) ==
    CASE body.route = "embed"  -> EmbedLengths(m, body)
      [] body.route = "rerank" -> RerankLengths(m, body)
      [] body.route = "decide" -> DecideLengths(m, body)

\* A model that can be resident for this request.
Serves(m) == m \in Models /\ m.route = body.route /\ Loads(m)

\* The request's prompt, if it is one for an embedder, is one of the model's.
HasPrompt(m) == body.route = "embed" => body.prompt \in DOMAIN m.prompts

\* The tokens of an input in a model m if nothing is cut from it.
FullIn(m, i) == IF body.route = "embed" THEN Prompted(m, body, i) ELSE m.prompt + Around(body) + body.texts[i]

\* The inputs of a request, by its route.
LEMMA InputsAre ==
    ASSUME body \in Bodies
    PROVE  /\ Len(Inputs) \in Nat /\ DOMAIN Inputs = 1..Len(Inputs)
           /\ body.route = "embed" => \A i \in DOMAIN Inputs : Inputs[i] = body.texts[i] /\ body.texts[i] \in Nat \ {0}
           /\ body.route = "rerank" => \A i \in DOMAIN Inputs : Inputs[i] = body.texts[i] /\ body.texts[i] \in Nat
           /\ body.route = "decide" => Inputs = body.questions
<1>1. CASE body.route = "embed"
  <2>1. body.texts \in Seq(Nat \ {0}) /\ Inputs = body.texts
    BY <1>1, BodiesAssumption DEF Inputs
  <2>. QED BY <1>1, <2>1, LenProperties
<1>2. CASE body.route = "rerank"
  <2>1. body.texts \in Seq(Nat) /\ Inputs = body.texts
    BY <1>2, BodiesAssumption DEF Inputs
  <2>. QED BY <1>2, <2>1, LenProperties
<1>3. CASE body.route = "decide"
  <2> DEFINE asked == UNION {Range(b.questions) : b \in {c \in Bodies : c.route = "decide"}}
  <2>1. body.questions \in Seq(asked) /\ Inputs = body.questions
    BY <1>3, BodiesAssumption DEF Inputs
  <2>. HIDE DEF asked
  <2>. QED BY <1>3, <2>1, LenProperties
<1>. QED BY <1>1, <1>2, <1>3, BodiesAssumption

\* A text and its prompt have a token at least.
LEMMA PromptedIs ==
    ASSUME body \in Bodies, NEW m \in Models, m.route = "embed", body.route = "embed", HasPrompt(m),
           NEW i \in DOMAIN Inputs
    PROVE  Prompted(m, body, i) \in Nat \ {0}
<1>1. m.prompts[body.prompt] \in Nat
  BY ModelsAssumption DEF HasPrompt
<1>2. body.texts[i] \in Nat \ {0}
  BY InputsAre
<1>. QED BY <1>1, <1>2 DEF Prompted

\* A question makes a sequence of one token at least, and no longer than the model reads.
LEMMA DecideLengthIs ==
    ASSUME NEW m, m.maxLen \in Nat \ {0}, m.headMaxLen \in Nat,
           NEW q, q.ins \in Nat, q.weights \in Seq(Nat), NEW state \in Nat
    PROVE  SequenceLength(m, q, state) \in 1..m.maxLen
<1> DEFINE options == OptionTokens(m, q)
           first == [k \in DOMAIN q.weights |-> 1 + AtMost(q.weights[k], 48)]
           per == AtLeast((m.headMaxLen - 16) \div AtLeast(Len(q.weights), 1), 4)
           cut == [k \in DOMAIN first |-> AtMost(first[k], per)]
           n == Len(q.weights)
<1>1. n \in Nat /\ DOMAIN q.weights = 1..n /\ \A k \in 1..n : q.weights[k] \in Nat
  BY LenProperties
<1>2. first \in [1..n -> Nat]
  <2>1. ASSUME NEW k \in 1..n PROVE 1 + AtMost(q.weights[k], 48) \in Nat
    <3> DEFINE w == q.weights[k]
    <3>1. w \in Nat /\ AtMost(w, 48) = IF w <= 48 THEN w ELSE 48
      BY <1>1, AtMostIs
    <3>. HIDE DEF w
    <3>2. 1 + AtMost(w, 48) \in Nat
      BY <3>1
    <3>. QED BY <3>2 DEF w
  <2>. QED BY <1>1, <2>1
<1>3. per \in Nat
  <2> DEFINE x == AtLeast(n, 1)
             y == (m.headMaxLen - 16) \div x
  <2>1. x \in Nat /\ x > 0
    <3>1. x = IF n <= 1 THEN 1 ELSE n
      BY <1>1, AtMostIs
    <3>. QED BY <1>1, <3>1
  <2>2. y \in Int
    <3>. HIDE DEF x
    <3>. QED BY <2>1
  <2>. HIDE DEF y
  <2>3. AtLeast(y, 4) = IF y <= 4 THEN 4 ELSE y
    BY <2>2, AtMostIs
  <2>4. AtLeast(y, 4) \in Nat
    BY <2>2, <2>3
  <2>. QED BY <2>4 DEF y
<1>4. cut \in [1..n -> Nat]
  <2>1. ASSUME NEW k \in 1..n PROVE AtMost(first[k], per) \in Nat
    <3> DEFINE w == first[k]
    <3>1. w \in Nat
      BY <1>2
    <3>. HIDE DEF w, per
    <3>2. AtMost(w, per) = IF w <= per THEN w ELSE per
      BY <1>3, <3>1, AtMostIs
    <3>3. AtMost(w, per) \in Nat
      BY <1>3, <3>1, <3>2
    <3>. QED BY <3>3 DEF w
  <2>2. DOMAIN first = 1..n
    BY <1>1
  <2>. HIDE DEF first, per
  <2>. QED BY <2>1, <2>2
<1>5. options = first \/ options = cut
  BY DEF OptionTokens
<1>6. options \in Seq(Nat)
  <2>1. options \in [1..n -> Nat]
    <3>. HIDE DEF first, cut, options
    <3>. QED BY <1>2, <1>4, <1>5
  <2>. HIDE DEF options, n
  <2>. QED BY <1>1, <2>1, SeqDef
<1>7. Total(options) \in Nat
  <2>. HIDE DEF options
  <2>. QED BY <1>6, TotalOfNats
<1>8. HeadTokens(m, q) \in Nat
  <2> DEFINE t == m.headMaxLen - Total(options)
             u == AtLeast(t, 8)
  <2>1. t \in Int
    <3>. HIDE DEF options
    <3>. QED BY <1>7
  <2>2. u \in Nat
    <3>. HIDE DEF t
    <3>1. u = IF t <= 8 THEN 8 ELSE t
      BY <2>1, AtMostIs
    <3>. QED BY <2>1, <3>1
  <2>3. HeadTokens(m, q) = AtMost(q.ins, u)
    BY DEF HeadTokens
  <2>. HIDE DEF u
  <2>4. AtMost(q.ins, u) = IF q.ins <= u THEN q.ins ELSE u
    BY <2>2, AtMostIs
  <2>. QED BY <2>2, <2>3, <2>4
<1>9. BeforeState(m, q) \in Nat
  BY <1>7, <1>8 DEF BeforeState
<1>10. QED
  <2> DEFINE b == BeforeState(m, q)
             r == m.maxLen - b - 1
             x == AtLeast(r, 0)
             y == AtMost(state, x)
             z == b + y + 1
  <2>1. SequenceLength(m, q, state) = AtMost(z, m.maxLen)
    BY DEF SequenceLength
  <2>2. b \in Nat
    BY <1>9
  <2>. HIDE DEF b
  <2>3. r \in Int
    BY <2>2
  <2>. HIDE DEF r
  <2>4. x \in Nat
    <3>1. x = IF r <= 0 THEN 0 ELSE r
      BY <2>3, AtMostIs
    <3>. QED BY <2>3, <3>1
  <2>. HIDE DEF x
  <2>5. y \in Nat
    <3>1. y = IF state <= x THEN state ELSE x
      BY <2>4, AtMostIs
    <3>. QED BY <2>4, <3>1
  <2>. HIDE DEF y
  <2>6. z \in Nat \ {0}
    BY <2>2, <2>5
  <2>. HIDE DEF z
  <2>7. AtMost(z, m.maxLen) = IF z <= m.maxLen THEN z ELSE m.maxLen
    BY <2>6, AtMostIs
  <2>. QED BY <2>1, <2>6, <2>7

\* The sequences of a request are as many as its inputs, none empty, none longer than its
\* model reads, and each of them fits into a batch.
LEMMA LengthsFit ==
    ASSUME body \in Bodies, NEW m, Serves(m), HasPrompt(m)
    PROVE  /\ LengthsIn(m) \in [DOMAIN Inputs -> Nat]
           /\ \A i \in DOMAIN Inputs : LengthsIn(m)[i] \in 1..Limit(m)
           /\ Limit(m) \in Nat /\ m.maxBatch \in Nat /\ Limit(m) <= m.maxBatch
<1>1. m \in Models /\ m.route = body.route /\ Loads(m) /\ m.maxBatch \in Nat
  BY ModelsAssumption DEF Serves
<1>2. CASE body.route = "embed"
  <2>1. m.maxInput \in Nat /\ m.maxInput \in 1..m.maxBatch /\ Limit(m) = m.maxInput
    BY <1>1, <1>2, ModelsAssumption DEF Loads, OnnxEmbedderLoads, EmbedderConfigReads, Limit
  <2>2. LengthsIn(m) = [i \in DOMAIN Inputs |-> AtMost(Prompted(m, body, i), m.maxInput)]
    BY <1>2 DEF LengthsIn, EmbedLengths, Inputs
  <2>3. ASSUME NEW i \in DOMAIN Inputs PROVE AtMost(Prompted(m, body, i), m.maxInput) \in 1..m.maxInput
    <3> DEFINE t == Prompted(m, body, i)
    <3>1. t \in Nat \ {0}
      BY <1>1, <1>2, PromptedIs
    <3>. HIDE DEF t
    <3>2. AtMost(t, m.maxInput) = IF t <= m.maxInput THEN t ELSE m.maxInput
      BY <2>1, <3>1, AtMostIs
    <3>3. AtMost(t, m.maxInput) \in 1..m.maxInput
      BY <2>1, <3>1, <3>2
    <3>. QED BY <3>3 DEF t
  <2>. QED BY <1>1, <2>1, <2>2, <2>3
<1>3. CASE body.route = "rerank"
  <2>1. /\ m.maxInput \in Nat /\ m.maxInput \in 1..m.maxBatch /\ Limit(m) = m.maxInput
        /\ m.prompt \in Nat /\ m.prompt < m.maxInput
    BY <1>1, <1>3, ModelsAssumption DEF Loads, RerankerLoads, Limit
  <2>2. LengthsIn(m) = [i \in DOMAIN Inputs |-> m.prompt + AtMost(Around(body) + body.texts[i], Budget(m))]
    BY <1>3 DEF LengthsIn, RerankLengths, Inputs
  <2>3. ASSUME NEW i \in DOMAIN Inputs
        PROVE  m.prompt + AtMost(Around(body) + body.texts[i], Budget(m)) \in 1..m.maxInput
    <3> DEFINE t == Around(body) + body.texts[i]
               b == Budget(m)
    <3>1. Around(body) \in Nat \ {0} /\ body.texts[i] \in Nat
      <4>1. body.before \in Nat /\ body.after \in Nat /\ body.before + body.after > 0
        BY <1>3, BodiesAssumption
      <4>2. body.texts[i] \in Nat
        BY <1>3, InputsAre
      <4>. QED BY <4>1, <4>2 DEF Around
    <3>2. t \in Nat \ {0} /\ b \in Nat \ {0} /\ b = m.maxInput - m.prompt
      BY <2>1, <3>1 DEF Budget
    <3>. HIDE DEF t, b
    <3>3. AtMost(t, b) = IF t <= b THEN t ELSE b
      BY <3>2, AtMostIs
    <3>4. m.prompt + AtMost(t, b) \in 1..m.maxInput
      BY <2>1, <3>2, <3>3
    <3>. QED BY <3>4 DEF t, b
  <2>. QED BY <1>1, <2>1, <2>2, <2>3
<1>4. CASE body.route = "decide"
  <2>1. m.maxLen \in Nat \ {0} /\ m.headMaxLen \in Nat /\ m.maxLen <= m.maxBatch /\ Limit(m) = m.maxLen
    BY <1>1, <1>4, ModelsAssumption DEF Loads, OnnxDecisionLoads, DeciderLoads, Limit
  <2>2. LengthsIn(m) = [i \in DOMAIN Inputs |-> SequenceLength(m, body.questions[i], body.state)]
    BY <1>4 DEF LengthsIn, DecideLengths, Inputs
  <2>3. ASSUME NEW i \in DOMAIN Inputs
        PROVE  SequenceLength(m, body.questions[i], body.state) \in 1..m.maxLen
    <3>1. /\ body.questions[i].ins \in Nat /\ body.questions[i].weights \in Seq(Nat) /\ body.state \in Nat
      BY <1>4, InputsAre, BodiesAssumption
    <3>. QED BY <2>1, <3>1, DecideLengthIs
  <2>. QED BY <1>1, <2>1, <2>2, <2>3
<1>. QED BY <1>2, <1>3, <1>4, BodiesAssumption

-------------------------------------------------------------------------------
(***************************************************************************)
(* The inductive invariant.                                                *)
(***************************************************************************)
\* No model has been asked yet.
Waits == stage \in {"sent", "parsing", "admission", "waiting"}

\* The body was read without a fault.
Parsed == stage \in {"admission", "waiting"} \/ InModel

\* The rows of the batches that have run are those of their inputs.
RowsAreRight ==
    \A i \in DOMAIN Inputs :
        (\E k \in 1..done : i \in Range(job.batches[k])) =>
            results[i] = Row(i, results[i].score) /\ results[i].score \in Scores(i)

\* The job is that of this request in a model that serves its route.
JobIsRight ==
    /\ Serves(job.model) /\ HasPrompt(job.model)
    /\ job.lengths = LengthsIn(job.model)
    /\ job.batches = PlanBatches(job.lengths, job.model.maxBatch)
    /\ DOMAIN results = DOMAIN Inputs
    /\ RowsAreRight

\* No job was begun.
NoJob == job.model = NoModel /\ job.batches = <<>> /\ done = 0

\* What the stage says of the job.
JobFitsStage ==
    /\ NoJob \/ JobIsRight
    /\ InModel => JobIsRight
    /\ Waits => NoJob
    /\ stage = "forward" => done < Len(job.batches)
    /\ stage = "ran" => done = Len(job.batches)
    /\ stage \in {"running", "forward"} \/ (stage = "ran" /\ told # None) => job.model = resident

\* A decision's time is counted from its arrival.
TimesFit ==
    /\ stage = "sent" => clock <= Delay
    /\ stage # "sent" => Deadline <= deadline /\ deadline <= Delay + Deadline

\* The caller asked for a cut, or left it to a model that does.
MayCut == body.truncate = TRUE \/ (body.truncate = None /\ body.route = "rerank" /\ offered)

\* truncate is set as it may be, and without it nothing is cut.
CutsAsAsked ==
    /\ AutoTruncate(resident) => offered
    /\ Parsed /\ truncate => MayCut
    /\ InModel /\ body.route # "decide" /\ ~truncate => \A i \in DOMAIN Inputs : ~(job.lengths[i] < FullIn(job.model, i))

\* What was told still holds of the resident model.
ToldTheTruth ==
    told # None =>
        /\ told.healthy <=> resident # NoModel
        /\ told.info # None =>
              /\ resident # NoModel /\ told.info = InfoOf(resident)
              /\ Parsed /\ body.route # "decide" => truncate = Flag(body.truncate, told.info.auto_truncate)

\* Only accepted questions get to a model.
AcceptedFirst == Parsed /\ body.route = "decide" => Accepts(body.questions)

\* There is no reply before the answer, and the answer is right.
Replied ==
    /\ stage # "answered" => reply = NoReply
    /\ AnswersItsInput /\ InfoIsHonoured /\ ContractHolds

\* Type, request, job, times, cuts, promises, questions, reply.
IInv ==
    /\ TypeOK /\ body \in Bodies /\ JobFitsStage /\ TimesFit /\ CutsAsAsked /\ ToldTheTruth
    /\ AcceptedFirst /\ Replied

-------------------------------------------------------------------------------
(***************************************************************************)
(* What the steps have in common.                                          *)
(***************************************************************************)
\* The kinds of answers.
Kinds == {"Unhealthy", "Backend", "Overloaded", "Validation", "Empty", "Refusal", "TooMuchWork",
          "Timeout", "OK", "MethodNotAllowed"}

\* They are those that have a status, and the absent one is none of them.
LEMMA KindsAre == DOMAIN Status = Kinds /\ None \notin Kinds
<1>1. DOMAIN Status = Kinds
  BY DEF Status, Kinds
<1>. QED BY <1>1, NoneAssumption

\* A refusal says its kind and nothing else.
LEMMA RefusedIs ==
    ASSUME NEW kind
    PROVE  /\ Refused(kind).kind = kind /\ Refused(kind).path = None
           /\ Refused(kind).model = NoModel
BY DEF Refused, NoReply

\* The resident model is one that serves the route.
LEMMA ResidentServes ==
    ASSUME resident \in Residents, resident # NoModel
    PROVE  Serves(resident)
BY DEF Residents, Serves

\* The lengths in the resident model.
LEMMA LengthsOfResident == Lengths = LengthsIn(resident)
BY DEF Lengths, LengthsIn

\* What GET /info says of a model, by its route.
LEMMA InfoIs ==
    ASSUME body \in Bodies, NEW m, Serves(m)
    PROVE  /\ InfoOf(m).model = m
           /\ body.route # "decide" => InfoOf(m).max_input_length = m.maxInput
                                       /\ InfoOf(m).auto_truncate = AutoTruncate(m)
           /\ body.route = "embed" => InfoOf(m).dimensions = m.dimensions /\ InfoOf(m).prompt_names = DOMAIN m.prompts
           /\ body.route = "decide" => /\ InfoOf(m).max_questions = MaxQuestions
                                       /\ InfoOf(m).max_planned_tokens = MaxPlanned
                                       /\ InfoOf(m).deadline_s = Deadline
<1>1. m.route = body.route /\ m # NoModel
  BY TimesAssumption DEF Serves
<1>2. CASE body.route = "embed"
  <2>1. InfoOf(m) = EmbedInfo(m) /\ AutoTruncate(m) = FALSE
    BY <1>1, <1>2 DEF InfoOf, AutoTruncate
  <2>2. /\ EmbedInfo(m).model = m /\ EmbedInfo(m).max_input_length = m.maxInput
        /\ EmbedInfo(m).dimensions = m.dimensions /\ EmbedInfo(m).prompt_names = DOMAIN m.prompts
        /\ EmbedInfo(m).auto_truncate = FALSE
    BY DEF EmbedInfo
  <2>. QED BY <1>2, <2>1, <2>2
<1>3. CASE body.route = "rerank"
  <2>1. InfoOf(m) = RerankInfo(m)
    BY <1>1, <1>3 DEF InfoOf
  <2>2. m.autoTruncate \in BOOLEAN
    BY <1>1, <1>3, ModelsAssumption DEF Serves
  <2>3. AutoTruncate(m) = m.autoTruncate
    BY <1>1, <1>3, <2>2 DEF AutoTruncate
  <2>. QED BY <1>3, <2>1, <2>3 DEF RerankInfo
<1>4. CASE body.route = "decide"
  <2>1. InfoOf(m) = DecideInfo(m)
    BY <1>1, <1>4 DEF InfoOf
  <2>. QED BY <1>4, <2>1 DEF DecideInfo
<1>. QED BY <1>2, <1>3, <1>4, BodiesAssumption

\* An answer ends the request and changes nothing else.
LEMMA AnswerKeeps ==
    ASSUME IInv, stage # "sent", NEW r, Answer(r), r.kind \in Kinds,
           AnswersItsInput', InfoIsHonoured', ContractHolds'
    PROVE  IInv'
<1> USE DEF Answer
<1>1. TypeOK'
  BY KindsAre DEF IInv, TypeOK, Residents, Inputs, Limit
<1>2. (body \in Bodies)'
  BY DEF IInv
<1>3. JobFitsStage'
  BY DEF IInv, JobFitsStage, NoJob, JobIsRight, RowsAreRight, Row, Serves, HasPrompt, LengthsIn, Inputs, InModel,
         Waits, Scores
<1>4. TimesFit' /\ CutsAsAsked'
  BY DEF IInv, TimesFit, CutsAsAsked, InModel, Parsed, AutoTruncate
<1>5. ToldTheTruth' /\ AcceptedFirst'
  BY DEF IInv, ToldTheTruth, AcceptedFirst, Parsed, InModel
<1>6. Replied'
  BY DEF Replied
<1>. QED BY <1>1, <1>2, <1>3, <1>4, <1>5, <1>6 DEF IInv

-------------------------------------------------------------------------------
(***************************************************************************)
(* Refusals.                                                               *)
(***************************************************************************)

\* A decision that is refused for planning too much would be at the cost /info allows.
LEMMA PlansTooMuch ==
    ASSUME body \in Bodies, NEW m, Serves(m), body.route = "decide", Accepts(body.questions),
           Planned(LengthsIn(m), PlanBatches(LengthsIn(m), m.maxBatch)) > MaxPlanned
    PROVE  Len(Inputs) * Max(Range(DecideLengths(m, body))) > MaxPlanned
<1> DEFINE n == Len(Inputs)
           lengths == LengthsIn(m)
           p == PlanBatches(lengths, m.maxBatch)
           longest == Max(Range(lengths))
<1>1. n \in Nat /\ DOMAIN Inputs = 1..n /\ Inputs = body.questions
  BY InputsAre
<1>2. n > 0
  BY <1>1 DEF Accepts
<1>3. /\ lengths \in [1..n -> Nat] /\ \A i \in 1..n : lengths[i] \in 1..Limit(m)
      /\ Limit(m) \in Nat /\ m.maxBatch \in Nat /\ \A i \in 1..n : lengths[i] <= m.maxBatch
  <2>. HIDE DEF lengths
  <2>1. /\ lengths \in [1..n -> Nat] /\ \A i \in 1..n : lengths[i] \in 1..Limit(m)
        /\ Limit(m) \in Nat /\ m.maxBatch \in Nat /\ Limit(m) <= m.maxBatch
    BY <1>1, LengthsFit DEF lengths, HasPrompt
  <2>2. ASSUME NEW i \in 1..n PROVE lengths[i] <= m.maxBatch
    <3>1. lengths[i] \in 1..Limit(m)
      BY <2>1
    <3>. QED BY <2>1, <3>1
  <2>. QED BY <2>1, <2>2
<1>. HIDE DEF lengths
<1>4. longest \in Nat /\ \A i \in 1..n : lengths[i] <= longest
  <2> DEFINE T == Range(lengths)
             top == Limit(m)
  <2>1. T \subseteq 0..top /\ \A i \in 1..n : lengths[i] \in T
    BY <1>3 DEF Range
  <2>2. T # {}
    <3>1. 1 \in 1..n
      BY <1>1, <1>2
    <3>. HIDE DEF T, n
    <3>. QED BY <2>1, <3>1
  <2>3. top \in Nat
    BY <1>3
  <2>. HIDE DEF T, top
  <2>4. Max(T) \in T /\ \A k \in T : k <= Max(T)
    BY <2>1, <2>2, <2>3, GreatestNumber
  <2>. QED BY <2>1, <2>3, <2>4 DEF T
<1>. HIDE DEF n, longest
<1>5. /\ p \in Plans(n) /\ Fits(lengths, m.maxBatch, p) /\ Total(Sizes(p)) = n
  BY <1>1, <1>3, PlanFits
<1>. HIDE DEF p
<1>6. \A b \in 1..Len(p) : Len(p[b]) > 0
  BY <1>5 DEF Fits, Fit
<1>7. Planned(lengths, p) \in Int /\ Planned(lengths, p) <= n * longest
  BY <1>1, <1>3, <1>4, <1>5, <1>6, PlannedIsBounded
<1>8. DecideLengths(m, body) = lengths
  BY DEF lengths, LengthsIn
<1>9. Planned(lengths, p) > MaxPlanned /\ MaxPlanned \in Nat
  BY ModelsAssumption DEF lengths, p
<1>10. n * longest \in Int
  BY <1>1, <1>4
<1>11. n * longest > MaxPlanned
  <2> DEFINE x == Planned(lengths, p)
             y == n * longest
  <2>. HIDE DEF x, y
  <2>. QED BY <1>7, <1>9, <1>10
<1>. QED BY <1>8, <1>11 DEF n, longest

\* A refusal answers no input.
LEMMA RefusalAnswers ==
    ASSUME NEW r, Answer(r), r.kind # "OK"
    PROVE  AnswersItsInput'
BY DEF Answer, AnswersItsInput

\* Once the questions are accepted, no refusal is about them.
LEMMA RefusalContract ==
    ASSUME IInv, body.faults = {} => Parsed,
           NEW kind \in Kinds \ {"OK", "Refusal"}, Answer(Refused(kind))
    PROVE  ContractHolds'
<1>1. reply' = Refused(kind) /\ body' = body
  BY DEF Answer
<1>2. reply'.kind = kind /\ reply'.path = None /\ kind # "OK" /\ kind # "Refusal"
  BY <1>1, RefusedIs DEF Kinds
<1>3. ASSUME body.route = "decide", body.faults = {}, \A i \in DOMAIN body.questions : Typed(body.questions[i])
      PROVE  Usable(body.questions)
  <2>1. Accepts(body.questions)
    BY <1>3 DEF IInv, AcceptedFirst
  <2>2. SameVerdict(body.questions)
    BY <1>3, ContractAgrees
  <2>. QED BY <2>1, <2>2 DEF SameVerdict
<1>. QED BY <1>1, <1>2, <1>3 DEF ContractHolds

\* A refusal keeps to what was told, if the one who refuses had a reason to.
LEMMA RefusalHonours ==
    ASSUME IInv, body.faults = {} => Parsed,
           NEW kind \in Kinds \ {"OK", "Refusal"}, Answer(Refused(kind)),
           kind = "Unhealthy" => resident = NoModel,
           kind = "Validation" => body.faults # {} \/ (resident # NoModel /\ EngineRefuses),
           kind = "TooMuchWork" =>
               /\ resident # NoModel /\ body.route = "decide"
               /\ Planned(Lengths, PlanBatches(Lengths, resident.maxBatch)) > MaxPlanned,
           kind = "Timeout" => clock > deadline /\ stage # "sent"
    PROVE  InfoIsHonoured'
<1>1. reply' = Refused(kind) /\ UNCHANGED <<told, body, clock>>
  BY DEF Answer
<1>2. reply'.kind = kind /\ reply'.path = None /\ kind # "OK"
  BY <1>1, RefusedIs DEF Kinds
<1>. SUFFICES ASSUME body.faults = {}, told # None PROVE InfoIsHonoured'
  BY <1>1 DEF InfoIsHonoured
<1> DEFINE said == told.info
           truncates == body.route # "decide" /\ Flag(body.truncate, said.auto_truncate)
<1>3. /\ told.healthy <=> resident # NoModel
      /\ said # None => /\ resident # NoModel /\ said = InfoOf(resident) /\ Serves(resident)
                        /\ body.route # "decide" => truncate = truncates
  <2>1. resident # NoModel => Serves(resident)
    BY ResidentServes DEF IInv, TypeOK
  <2>2. /\ told.healthy <=> resident # NoModel
        /\ said # None => /\ resident # NoModel /\ said = InfoOf(resident)
                          /\ body.route # "decide" => truncate = Flag(body.truncate, said.auto_truncate)
    BY DEF IInv, ToldTheTruth
  <2>3. truncate \in BOOLEAN
    BY DEF IInv, TypeOK
  <2>4. body.route # "decide" /\ truncate = Flag(body.truncate, said.auto_truncate) => truncate = truncates
    <3> DEFINE f == Flag(body.truncate, said.auto_truncate)
    <3>1. f \in BOOLEAN /\ body.route # "decide" => f = (body.route # "decide" /\ f)
      <4>. HIDE DEF f
      <4>. QED OBVIOUS
    <3>. HIDE DEF f
    <3>. QED BY <2>3, <3>1
  <2>. QED BY <2>1, <2>2, <2>4, Zenon
<1>4. body \in Bodies
  BY DEF IInv
<1>. SUFFICES ASSUME said # None
     PROVE
            /\ kind = "Validation" /\ body.route = "embed" =>
                  \/ body.dimensions > said.dimensions
                  \/ body.prompt \notin said.prompt_names
                  \/ ~truncates /\ \E i \in DOMAIN Inputs :
                        Prompted(said.model, body, i) > said.max_input_length
            /\ kind = "Validation" /\ body.route = "rerank" =>
                  \E i \in DOMAIN Inputs :
                     LET around == said.model.prompt + Around(body) IN
                     IF truncates THEN around >= said.max_input_length
                     ELSE around + Inputs[i] > said.max_input_length
            /\ body.route = "decide" =>
                  /\ Len(Inputs) \in 1..said.max_questions
                  /\ kind = "TooMuchWork" =>
                        Len(Inputs) * Max(Range(DecideLengths(said.model, body))) > said.max_planned_tokens
                  /\ kind = "Timeout" => clock > said.deadline_s
  <2>1. Inputs' = Inputs
    BY <1>1 DEF Inputs
  <2>2. reply'.path # <<0, "questions">>
    BY <1>2, NoneAssumption
  <2>3. kind # "OK" /\ (kind = "Unhealthy" => ~told.healthy)
    BY <1>2, <1>3
  <2>. QED BY <1>1, <1>2, <2>1, <2>2, <2>3 DEF InfoIsHonoured
<1>5. said.model = resident /\ resident # NoModel /\ Serves(resident)
  BY <1>3, <1>4, InfoIs
<1>6. CASE body.route = "embed"
  <2>1. /\ said.dimensions = resident.dimensions /\ said.prompt_names = DOMAIN resident.prompts
        /\ said.max_input_length = resident.maxInput
    BY <1>3, <1>4, <1>6, InfoIs
  <2>2. kind = "Validation" => EmbedRefuses(resident, body, truncate)
    BY <1>6 DEF EngineRefuses
  <2>3. DOMAIN Inputs = DOMAIN body.texts
    BY <1>6 DEF Inputs
  <2>4. SUFFICES ASSUME kind = "Validation", ~(body.dimensions > resident.dimensions),
                        body.prompt \in DOMAIN resident.prompts
        PROVE  ~truncates /\ \E i \in DOMAIN Inputs : Prompted(resident, body, i) > resident.maxInput
    BY <1>5, <1>6, <2>1
  <2>5. body.dimensions <= resident.dimensions
    <3>1. body.dimensions \in Nat
      BY <1>4, <1>6, BodiesAssumption
    <3>2. resident.dimensions \in Nat
      BY <1>5, <1>6, ModelsAssumption DEF Serves
    <3>. QED BY <2>4, <3>1, <3>2
  <2>6. ~truncate /\ \E i \in DOMAIN body.texts : Prompted(resident, body, i) > resident.maxInput
    BY <2>2, <2>4, <2>5 DEF EmbedRefuses
  <2>. QED BY <1>3, <1>6, <2>3, <2>6
<1>7. CASE body.route = "rerank"
  <2>1. said.max_input_length = resident.maxInput
    BY <1>3, <1>4, <1>7, InfoIs
  <2>2. resident.maxInput \in Nat /\ resident.prompt \in Nat
    BY <1>5, <1>7, ModelsAssumption DEF Serves
  <2>3. Around(body) \in Nat
    <3>1. body.before \in Nat /\ body.after \in Nat
      BY <1>4, <1>7, BodiesAssumption
    <3>. QED BY <3>1 DEF Around
  <2>. SUFFICES ASSUME kind = "Validation"
       PROVE  \E i \in DOMAIN Inputs :
                 LET around == said.model.prompt + Around(body) IN
                 IF truncates THEN around >= said.max_input_length
                 ELSE around + Inputs[i] > said.max_input_length
    BY <1>7
  <2>4. RerankRefuses(resident, body, truncate)
    BY <1>7 DEF EngineRefuses
  <2>5. PICK i \in DOMAIN body.texts :
            /\ Around(body) + body.texts[i] > resident.maxInput - resident.prompt
            /\ ~truncate \/ Around(body) >= resident.maxInput - resident.prompt
    BY <2>4 DEF RerankRefuses, TooLong, Budget
  <2>6. i \in DOMAIN Inputs /\ Inputs[i] = body.texts[i] /\ Inputs[i] \in Nat
    <3>1. DOMAIN Inputs = DOMAIN body.texts
      BY <1>7 DEF Inputs
    <3>. QED BY <1>4, <1>7, <2>5, <3>1, InputsAre
  <2> DEFINE around == resident.prompt + Around(body)
  <2>7. around >= resident.maxInput \/ ~truncate
    BY <2>2, <2>3, <2>5
  <2>8. around + Inputs[i] > resident.maxInput
    BY <2>2, <2>3, <2>5, <2>6
  <2>9. IF truncates THEN around >= said.max_input_length ELSE around + Inputs[i] > said.max_input_length
    <3>. HIDE DEF around, truncates
    <3>. QED BY <1>3, <1>7, <2>1, <2>7, <2>8
  <2>. QED BY <1>5, <2>6, <2>9
<1>8. CASE body.route = "decide"
  <2>1. /\ said.max_questions = MaxQuestions /\ said.max_planned_tokens = MaxPlanned
        /\ said.deadline_s = Deadline
    BY <1>3, <1>4, <1>8, InfoIs
  <2>2. Inputs = body.questions /\ Accepts(body.questions)
    BY <1>8 DEF Inputs, IInv, AcceptedFirst
  <2>3. Len(Inputs) \in 1..MaxQuestions
    BY <2>2 DEF Accepts
  <2>4. ASSUME kind = "TooMuchWork"
        PROVE  Len(Inputs) * Max(Range(DecideLengths(resident, body))) > MaxPlanned
    <3>1. Planned(LengthsIn(resident), PlanBatches(LengthsIn(resident), resident.maxBatch)) > MaxPlanned
      BY <2>4, LengthsOfResident
    <3>. QED BY <1>4, <1>5, <1>8, <2>2, <3>1, PlansTooMuch
  <2>5. ASSUME kind = "Timeout" PROVE clock > Deadline
    <3>1. clock > deadline /\ Deadline <= deadline
      BY <2>5 DEF IInv, TimesFit
    <3>2. clock \in Nat /\ deadline \in Nat /\ Deadline \in Nat
      BY TimesAssumption DEF IInv, TypeOK
    <3>. QED BY <3>1, <3>2
  <2>. QED BY <1>5, <1>8, <2>1, <2>3, <2>4, <2>5
<1>. QED BY <1>4, <1>6, <1>7, <1>8, BodiesAssumption

-------------------------------------------------------------------------------
(***************************************************************************)
(* The steps.                                                              *)
(***************************************************************************)

\* Until the answer, what is said of the reply holds of none.
LEMMA NoReplyYet ==
    ASSUME reply' = NoReply, stage' # "answered"
    PROVE  Replied'
<1>1. reply'.kind # "OK"
  BY KindsAre DEF NoReply, Kinds
<1>. QED BY <1>1 DEF Replied, AnswersItsInput, InfoIsHonoured, ContractHolds

\* What is said of the job holds while the job, its rows and the request stay.
LEMMA JobStays ==
    ASSUME UNCHANGED <<body, job, done, results>>
    PROVE  (JobIsRight' <=> JobIsRight) /\ (NoJob' <=> NoJob)
BY DEF JobIsRight, NoJob, RowsAreRight, Row, Serves, HasPrompt, LengthsIn, Inputs, Scores

\* The invariant holds before anything is sent.
LEMMA InitHolds == Init => IInv
<1>. SUFFICES ASSUME Init PROVE IInv
  OBVIOUS
<1>. USE DEF Init
<1>1. body.route \in {"embed", "rerank", "decide"} /\ Len(<<>>) = 0
  BY BodiesAssumption
<1>2. AutoTruncate(resident) \in BOOLEAN
  BY ModelsAssumption DEF AutoTruncate, Residents
<1>3. TypeOK
  <2>1. deadline \in 0..(MaxClock + Deadline) /\ clock \in 0..MaxClock
    BY TimesAssumption
  <2>2. done \in 0..Len(job.batches) /\ job.model = NoModel
    BY <1>1
  <2>3. reply.kind = None
    BY DEF NoReply
  <2>4. offered \in BOOLEAN /\ truncate \in BOOLEAN
    BY <1>2
  <2>. QED BY <2>1, <2>2, <2>3, <2>4 DEF TypeOK
<1>4. JobFitsStage
  BY DEF JobFitsStage, NoJob, InModel, Waits
<1>5. TimesFit /\ CutsAsAsked /\ ToldTheTruth /\ AcceptedFirst
  BY TimesAssumption DEF TimesFit, CutsAsAsked, ToldTheTruth, AcceptedFirst, Parsed, InModel
<1>6. Replied
  <2>1. reply.kind # "OK"
    BY KindsAre DEF NoReply, Kinds
  <2>. QED BY <2>1 DEF Replied, AnswersItsInput, InfoIsHonoured, ContractHolds
<1>. QED BY <1>3, <1>4, <1>5, <1>6 DEF IInv

\* A step that changes nothing keeps it.
LEMMA StutterKeeps == IInv /\ UNCHANGED vars => IInv'
<1>. SUFFICES ASSUME IInv, UNCHANGED vars PROVE IInv'
  OBVIOUS
<1>. USE DEF vars
<1>1. TypeOK' /\ (body \in Bodies)'
  BY DEF IInv, TypeOK, Residents, Inputs, Limit
<1>2. JobFitsStage' /\ TimesFit'
  BY JobStays DEF IInv, JobFitsStage, InModel, Waits, TimesFit
<1>3. CutsAsAsked' /\ ToldTheTruth' /\ AcceptedFirst'
  BY DEF IInv, CutsAsAsked, ToldTheTruth, AcceptedFirst, Parsed, InModel, AutoTruncate, MayCut, FullIn, Prompted, Inputs
<1>4. Replied'
  <2>1. \A i : DecisionOn(i)' = DecisionOn(i)
    BY DEF DecisionOn
  <2>2. AnswersItsInput' /\ InfoIsHonoured'
    BY DEF IInv, Replied, AnswersItsInput, InfoIsHonoured, Inputs
  <2>3. ContractHolds'
    <3> DEFINE decisions == [i \in DOMAIN body.questions |-> DecisionOn(i)]
    <3>1. decisions' = decisions
      BY <2>1
    <3>2. ContractHolds
      BY DEF IInv, Replied
    <3>. QED BY <2>1, <3>1, <3>2 DEF ContractHolds
  <2>. QED BY <2>2, <2>3 DEF IInv, Replied
<1>. QED BY <1>1, <1>2, <1>3, <1>4 DEF IInv

\* Time passes before the deadline is set, or after.
LEMMA TickKeeps == IInv /\ Tick => IInv'
<1>. SUFFICES ASSUME IInv, Tick PROVE IInv'
  OBVIOUS
<1>. USE DEF Tick
<1>1. TypeOK' /\ (body \in Bodies)'
  BY TimesAssumption DEF IInv, TypeOK, Residents, Inputs, Limit
<1>2. JobFitsStage'
  BY JobStays DEF IInv, JobFitsStage, InModel, Waits
<1>3. TimesFit'
  BY TimesAssumption DEF IInv, TypeOK, TimesFit
<1>4. CutsAsAsked' /\ ToldTheTruth' /\ AcceptedFirst'
  BY DEF IInv, CutsAsAsked, ToldTheTruth, AcceptedFirst, Parsed, InModel, AutoTruncate, MayCut, FullIn, Prompted, Inputs
<1>5. Replied'
  BY NoReplyYet DEF IInv, Replied
<1>. QED BY <1>1, <1>2, <1>3, <1>4, <1>5 DEF IInv

\* Another model is resident, and what was told of the last is forgotten.
LEMMA SwapKeeps == IInv /\ Swap => IInv'
<1>. SUFFICES ASSUME IInv, Swap PROVE IInv'
  OBVIOUS
<1>. USE DEF Swap
<1>1. resident' \in Residents /\ AutoTruncate(resident') \in BOOLEAN
  BY ModelsAssumption DEF AutoTruncate, Residents
<1>2. TypeOK' /\ (body \in Bodies)'
  BY <1>1 DEF IInv, TypeOK, Residents, Inputs, Limit
<1>3. JobFitsStage'
  BY JobStays DEF IInv, JobFitsStage, InModel, Waits
<1>4. TimesFit' /\ AcceptedFirst' /\ ToldTheTruth'
  BY DEF IInv, TimesFit, AcceptedFirst, ToldTheTruth, Parsed, InModel
<1>5. CutsAsAsked'
  <2>1. offered' = (offered \/ AutoTruncate(resident')) /\ offered \in BOOLEAN
    BY DEF IInv, TypeOK
  <2>2. MayCut => MayCut'
    BY <2>1 DEF MayCut
  <2>. QED BY <1>1, <2>1, <2>2 DEF IInv, CutsAsAsked, Parsed, InModel, FullIn, Prompted, Inputs
<1>6. Replied'
  BY NoReplyYet DEF IInv, Replied
<1>. QED BY <1>2, <1>3, <1>4, <1>5, <1>6 DEF IInv

\* GET /health or GET /info of the model that is resident, before the request is sent.
LEMMA TellsKeep == IInv /\ (Health \/ Info) => IInv'
<1>. SUFFICES ASSUME IInv, Health \/ Info PROVE IInv'
  OBVIOUS
<1>. USE DEF Health, Info
<1>0. stage = "sent" /\ UNCHANGED <<body, resident, stage, clock, deadline, truncate, offered, job, done, results, reply>>
  OBVIOUS
<1>1. TypeOK' /\ (body \in Bodies)'
  BY <1>0 DEF IInv, TypeOK, Residents, Inputs, Limit
<1>2. JobFitsStage'
  BY <1>0, JobStays DEF IInv, JobFitsStage, InModel, Waits
<1>3. TimesFit' /\ CutsAsAsked' /\ AcceptedFirst'
  BY <1>0 DEF IInv, TimesFit, AcceptedFirst, CutsAsAsked, Parsed, InModel, AutoTruncate
<1>4. ToldTheTruth'
  <2>1. ~Parsed'
    BY <1>0 DEF Parsed, InModel
  <2>2. CASE Health
    BY <2>1, <2>2 DEF ToldTheTruth
  <2>3. CASE Info
    BY <2>1, <2>3 DEF ToldTheTruth
  <2>. QED BY <2>2, <2>3
<1>5. Replied'
  BY <1>0, NoReplyYet DEF IInv, Replied
<1>. QED BY <1>1, <1>2, <1>3, <1>4, <1>5 DEF IInv

\* The deadline is set no later than Delay + Deadline.
LEMMA ArriveKeeps == IInv /\ Arrive => IInv'
<1>. SUFFICES ASSUME IInv, Arrive PROVE IInv'
  OBVIOUS
<1>. USE DEF Arrive
<1>1. TypeOK' /\ (body \in Bodies)'
  BY TimesAssumption DEF IInv, TypeOK, Residents, Inputs, Limit
<1>2. JobFitsStage'
  BY JobStays DEF IInv, JobFitsStage, InModel, Waits
<1>3. TimesFit'
  BY TimesAssumption DEF IInv, TypeOK, TimesFit
<1>4. CutsAsAsked' /\ AcceptedFirst' /\ ToldTheTruth'
  BY DEF IInv, CutsAsAsked, AcceptedFirst, ToldTheTruth, Parsed, InModel, AutoTruncate
<1>5. Replied'
  BY NoReplyYet DEF IInv, Replied
<1>. QED BY <1>1, <1>2, <1>3, <1>4, <1>5 DEF IInv

\* truncate is what the caller asked for, or what the resident model does by itself.
LEMMA ParseKeeps == IInv /\ Parse => IInv'
<1>. SUFFICES ASSUME IInv, Parse PROVE IInv'
  OBVIOUS
<1>. USE DEF Parse
<1>0. body \in Bodies /\ body.route \in {"embed", "rerank", "decide"}
      /\ (body.route # "decide" => body.truncate \in BOOLEAN \cup {None})
  BY BodiesAssumption DEF IInv
<1>1. AutoTruncate(resident) \in BOOLEAN /\ (AutoTruncate(resident) => body.route = "rerank")
  BY ModelsAssumption DEF AutoTruncate, Residents, IInv, TypeOK
<1>2. body.route # "decide" => Flag(body.truncate, AutoTruncate(resident)) \in BOOLEAN
  BY <1>0, <1>1 DEF Flag
<1>3. TypeOK' /\ (body \in Bodies)'
  BY <1>2 DEF IInv, TypeOK, Residents, Inputs, Limit
<1>4. JobFitsStage'
  BY JobStays DEF IInv, JobFitsStage, InModel, Waits
<1>5. TimesFit' /\ AcceptedFirst'
  BY DEF IInv, TimesFit, AcceptedFirst
<1>6. CutsAsAsked'
  <2>1. AutoTruncate(resident) => offered
    BY DEF IInv, CutsAsAsked
  <2>2. truncate' => MayCut'
    <3>. SUFFICES ASSUME truncate' PROVE MayCut'
      OBVIOUS
    <3>1. body.route # "decide" /\ Flag(body.truncate, AutoTruncate(resident))
      OBVIOUS
    <3>2. CASE body.truncate = None
      <4>1. AutoTruncate(resident)
        BY <3>1, <3>2 DEF Flag
      <4>. QED BY <1>1, <2>1, <3>2, <4>1 DEF MayCut
    <3>3. CASE body.truncate # None
      BY <1>0, <3>1, <3>3 DEF Flag, MayCut
    <3>. QED BY <3>2, <3>3
  <2>. QED BY <2>1, <2>2 DEF CutsAsAsked, InModel, AutoTruncate
<1>7. ToldTheTruth'
  <2>. SUFFICES ASSUME told # None
       PROVE  /\ told.healthy <=> resident # NoModel
              /\ told.info # None =>
                    /\ resident # NoModel /\ told.info = InfoOf(resident)
                    /\ body.route # "decide" => truncate' = Flag(body.truncate, told.info.auto_truncate)
    BY DEF ToldTheTruth
  <2>1. /\ told.healthy <=> resident # NoModel
        /\ told.info # None => resident # NoModel /\ told.info = InfoOf(resident)
    BY DEF IInv, ToldTheTruth
  <2>2. ASSUME told.info # None, body.route # "decide"
        PROVE  truncate' = Flag(body.truncate, told.info.auto_truncate)
    <3>1. Serves(resident)
      BY <2>1, <2>2, ResidentServes DEF IInv, TypeOK
    <3>2. told.info.auto_truncate = AutoTruncate(resident)
      BY <1>0, <2>1, <2>2, <3>1, InfoIs
    <3> DEFINE f == Flag(body.truncate, AutoTruncate(resident))
    <3>3. f \in BOOLEAN /\ truncate' = (body.route # "decide" /\ f)
      BY <1>2, <2>2
    <3>. HIDE DEF f
    <3>4. truncate' = f
      BY <2>2, <3>3
    <3>. QED BY <3>2, <3>4 DEF f
  <2>. QED BY <2>1, <2>2
<1>8. Replied'
  BY NoReplyYet DEF IInv, Replied
<1>. QED BY <1>3, <1>4, <1>5, <1>6, <1>7, <1>8 DEF IInv

-------------------------------------------------------------------------------

\* The first fault is one of the body's.
LEMMA FaultFound == FirstFault # 0 => body.faults # {}
<1> DEFINE I == {i \in 1..Len(Checks) : Checks[i] \in body.faults}
<1>1. FirstFault = IF I # {} THEN Min(I) ELSE 0
  BY DEF FirstFault, SelectInSeq
<1>2. FirstFault # 0 => I # {}
  <2>. HIDE DEF I
  <2>. QED BY <1>1
<1>. QED BY <1>2

\* A body with a fault was promised nothing.
LEMMA ParseFailsKeeps == IInv /\ ParseFails => IInv'
<1>. SUFFICES ASSUME IInv, ParseFails PROVE IInv'
  OBVIOUS
<1> DEFINE kind == FaultKind(Checks[FirstFault])
<1>1. stage = "parsing" /\ body.faults # {} /\ Answer(Refused(kind))
  BY FaultFound DEF ParseFails
<1>2. kind \in Kinds /\ kind # "OK"
  BY DEF FaultKind, Kinds
<1>. HIDE DEF kind
<1>3. Refused(kind).kind = kind /\ body' = body
  BY <1>1, RefusedIs DEF Answer
<1>4. AnswersItsInput'
  BY <1>1, <1>2, <1>3, RefusalAnswers
<1>5. InfoIsHonoured' /\ ContractHolds'
  BY <1>1, <1>3 DEF InfoIsHonoured, ContractHolds
<1>. QED BY <1>1, <1>2, <1>3, <1>4, <1>5, AnswerKeeps

\* A refusal of the questions is the one that the orchestrator would have made.
LEMMA QuestionsFailKeeps == IInv /\ QuestionsFail => IInv'
<1>. SUFFICES ASSUME IInv, QuestionsFail PROVE IInv'
  OBVIOUS
<1> DEFINE qs == body.questions
<1>1. PICK r : /\ stage = "parsing" /\ body.route = "decide" /\ Answer(r)
               /\ r.kind = "Refusal"
               /\ \/ r.path = <<0, "questions">> /\ ~(Len(qs) \in 1..MaxQuestions)
                  \/ \E i \in DOMAIN qs, path \in Paths : r.path = <<i, path>> /\ Refuses(qs, i, path)
  <2>1. CASE ~(Len(qs) \in 1..MaxQuestions) /\ Answer([Refused("Refusal") EXCEPT !.path = <<0, "questions">>])
    <3> DEFINE r == [Refused("Refusal") EXCEPT !.path = <<0, "questions">>]
    <3>1. r.kind = "Refusal" /\ r.path = <<0, "questions">>
      BY DEF Refused, NoReply
    <3>. HIDE DEF r
    <3>2. Answer(r)
      BY <2>1 DEF r
    <3>. QED BY <2>1, <3>1, <3>2 DEF QuestionsFail
  <2>2. ASSUME NEW i \in DOMAIN qs, NEW path \in Paths, Refuses(qs, i, path),
               Answer([Refused("Refusal") EXCEPT !.path = <<i, path>>])
        PROVE  \E r : /\ stage = "parsing" /\ body.route = "decide" /\ Answer(r)
                      /\ r.kind = "Refusal"
                      /\ \/ r.path = <<0, "questions">> /\ ~(Len(qs) \in 1..MaxQuestions)
                         \/ \E j \in DOMAIN qs, p \in Paths : r.path = <<j, p>> /\ Refuses(qs, j, p)
    <3> DEFINE r == [Refused("Refusal") EXCEPT !.path = <<i, path>>]
    <3>1. r.kind = "Refusal" /\ r.path = <<i, path>>
      BY DEF Refused, NoReply
    <3>. HIDE DEF r
    <3>2. Answer(r)
      BY <2>2 DEF r
    <3>. QED BY <2>2, <3>1, <3>2 DEF QuestionsFail
  <2>3. \/ ~(Len(qs) \in 1..MaxQuestions) /\ Answer([Refused("Refusal") EXCEPT !.path = <<0, "questions">>])
        \/ \E i \in DOMAIN qs, path \in Paths :
              Refuses(qs, i, path) /\ Answer([Refused("Refusal") EXCEPT !.path = <<i, path>>])
    BY DEF QuestionsFail
  <2>. QED BY <2>1, <2>2, <2>3
<1>2. reply' = r /\ UNCHANGED <<body, told, clock>> /\ r.kind # "OK" /\ body \in Bodies
  BY <1>1 DEF Answer, IInv
<1>3. AnswersItsInput'
  BY <1>1, <1>2, RefusalAnswers
<1>4. ~(Len(qs) \in 1..MaxQuestions) <=> r.path = <<0, "questions">>
  <2>1. ASSUME NEW i \in DOMAIN qs, NEW path \in Paths, r.path = <<i, path>>, Refuses(qs, i, path)
        PROVE  Len(qs) \in 1..MaxQuestions /\ r.path # <<0, "questions">>
    <3>1. "questions" \notin Paths
      BY Zenon DEF Paths
    <3>2. <<i, path>> # <<0, "questions">>
      BY <3>1
    <3>. QED BY <2>1, <3>2 DEF Refuses
  <2>. QED BY <1>1, <2>1
<1>5. InfoIsHonoured'
  <2>1. Inputs' = qs /\ body'.route = "decide"
    BY <1>1, <1>2 DEF Inputs
  <2>2. told # None /\ told.info # None => told.info.max_questions = MaxQuestions
    <3>. SUFFICES ASSUME told # None, told.info # None PROVE told.info.max_questions = MaxQuestions
      OBVIOUS
    <3>1. told.info = InfoOf(resident) /\ resident # NoModel
      BY DEF IInv, ToldTheTruth
    <3>2. Serves(resident)
      BY <3>1, ResidentServes DEF IInv, TypeOK
    <3>. QED BY <1>1, <1>2, <3>1, <3>2, InfoIs
  <2>3. reply' = r /\ told' = told
    BY <1>2
  <2>4. told # None /\ told.info # None =>
            (~(Len(Inputs') \in 1..told.info.max_questions) <=> r.path = <<0, "questions">>)
    BY <1>4, <2>1, <2>2
  <2>. QED BY <1>1, <2>1, <2>3, <2>4 DEF InfoIsHonoured
<1>6. ContractHolds'
  <2>. SUFFICES ASSUME \A i \in DOMAIN qs : Typed(qs[i])
       PROVE  /\ ~Usable(qs)
              /\ \/ r.path = <<0, "questions">> /\ ~(Len(qs) \in 1..MaxQuestions)
                 \/ FirstIssue(qs, r.path[1], r.path[2])
    BY <1>1, <1>2 DEF ContractHolds
  <2>1. SameVerdict(qs)
    BY ContractAgrees
  <2>2. CASE r.path = <<0, "questions">> /\ ~(Len(qs) \in 1..MaxQuestions)
    BY <2>2 DEF Usable
  <2>3. ASSUME NEW i \in DOMAIN qs, NEW path \in Paths, r.path = <<i, path>>, Refuses(qs, i, path)
        PROVE  ~Usable(qs) /\ FirstIssue(qs, r.path[1], r.path[2])
    <3>1. FirstIssue(qs, i, path)
      BY <2>1, <2>3 DEF SameVerdict
    <3>2. r.path[1] = i /\ r.path[2] = path
      BY <2>3
    <3>3. CheckQuestions(qs)[i] # None
      BY <3>1 DEF FirstIssue
    <3>. QED BY <3>1, <3>2, <3>3 DEF Usable
  <2>. QED BY <1>1, <2>2, <2>3
<1>. QED BY <1>1, <1>3, <1>5, <1>6, AnswerKeeps DEF Kinds

\* The steps that refuse a request once it is parsed.
LEMMA RefusalsKeep ==
    IInv /\ (Overloaded \/ NoModelLoaded \/ InvalidRequest \/ DeadlineExceeded \/ ForwardFails
             \/ RespondRefused) => IInv'
<1>1. ASSUME IInv, Parsed, NEW kind \in Kinds \ {"OK", "Refusal", "TooMuchWork"}, Answer(Refused(kind)),
             kind = "Unhealthy" => resident = NoModel,
             kind = "Validation" => body.faults # {} \/ (resident # NoModel /\ EngineRefuses),
             kind = "Timeout" => clock > deadline /\ stage # "sent"
      PROVE  IInv'
  <2>1. Refused(kind).kind = kind /\ kind # "OK" /\ kind \in Kinds \ {"OK", "Refusal"} /\ kind # "TooMuchWork"
    BY RefusedIs, <1>1
  <2>2. InfoIsHonoured'
    BY <1>1, <2>1, RefusalHonours
  <2>3. ContractHolds'
    BY <1>1, <2>1, RefusalContract
  <2>4. AnswersItsInput'
    BY <1>1, <2>1, RefusalAnswers
  <2>5. stage # "sent"
    BY <1>1 DEF Parsed, InModel
  <2>. QED BY <1>1, <2>1, <2>2, <2>3, <2>4, <2>5, AnswerKeeps
<1>2. ASSUME IInv, Overloaded PROVE IInv'
  <2>1. Parsed /\ Answer(Refused("Overloaded"))
    BY <1>2 DEF Overloaded, Parsed
  <2>. QED BY <1>1, <1>2, <2>1 DEF Kinds
<1>3. ASSUME IInv, NoModelLoaded PROVE IInv'
  <2>1. Parsed /\ Answer(Refused("Unhealthy")) /\ resident = NoModel
    BY <1>3 DEF NoModelLoaded, Parsed
  <2>. QED BY <1>1, <1>3, <2>1 DEF Kinds
<1>4. ASSUME IInv, InvalidRequest PROVE IInv'
  <2>1. Parsed /\ Answer(Refused("Validation")) /\ resident # NoModel /\ EngineRefuses
    BY <1>4 DEF InvalidRequest, Parsed
  <2>. QED BY <1>1, <1>4, <2>1 DEF Kinds
<1>5. ASSUME IInv, DeadlineExceeded PROVE IInv'
  <2>1. Parsed /\ Answer(Refused("Timeout")) /\ clock > deadline /\ stage # "sent"
    BY <1>5 DEF DeadlineExceeded, Parsed, InModel
  <2>. QED BY <1>1, <1>5, <2>1 DEF Kinds
<1>6. ASSUME IInv, ForwardFails PROVE IInv'
  <2>1. Parsed /\ Answer(Refused("Backend"))
    BY <1>6 DEF ForwardFails, Parsed, InModel
  <2>. QED BY <1>1, <1>6, <2>1 DEF Kinds
<1>7. ASSUME IInv, RespondRefused PROVE IInv'
  <2>1. Parsed
    BY <1>7 DEF RespondRefused, Parsed, InModel
  <2>2. CASE BadFlag
    <3>1. Answer(Refused("Validation")) /\ body.faults # {}
      BY <1>7, <2>2 DEF RespondRefused, BadFlag
    <3>. QED BY <1>1, <1>7, <2>1, <3>1 DEF Kinds
  <2>3. CASE ~BadFlag
    <3>1. Answer(Refused("Backend"))
      BY <1>7, <2>3 DEF RespondRefused
    <3>. QED BY <1>1, <1>7, <2>1, <3>1 DEF Kinds
  <2>. QED BY <2>2, <2>3
<1>. QED BY <1>2, <1>3, <1>4, <1>5, <1>6, <1>7

-------------------------------------------------------------------------------

\* An admitted request waits.
LEMMA AdmitKeeps == IInv /\ Admit => IInv'
<1>. SUFFICES ASSUME IInv, Admit PROVE IInv'
  OBVIOUS
<1>. USE DEF Admit
<1>1. TypeOK' /\ (body \in Bodies)'
  BY DEF IInv, TypeOK, Residents, Inputs, Limit
<1>2. JobFitsStage'
  BY JobStays DEF IInv, JobFitsStage, InModel, Waits
<1>3. TimesFit' /\ ToldTheTruth' /\ AcceptedFirst'
  BY DEF IInv, TimesFit, ToldTheTruth, AcceptedFirst, Parsed, InModel
<1>4. CutsAsAsked'
  BY DEF IInv, CutsAsAsked, Parsed, InModel, AutoTruncate, MayCut
<1>5. Replied'
  BY NoReplyYet DEF IInv, Replied
<1>. QED BY <1>1, <1>2, <1>3, <1>4, <1>5 DEF IInv

\* A model that refuses no text cuts none, unless it is told to.
LEMMA NothingCut ==
    ASSUME body \in Bodies, NEW m, Serves(m), body.route # "decide",
           body.route = "embed" => ~EmbedRefuses(m, body, FALSE),
           body.route = "rerank" => ~RerankRefuses(m, body, FALSE),
           NEW i \in DOMAIN Inputs
    PROVE  LengthsIn(m)[i] = FullIn(m, i)
<1>1. m \in Models /\ m.route = body.route /\ body.route \in {"embed", "rerank"}
  BY BodiesAssumption DEF Serves
<1>2. i \in DOMAIN body.texts /\ Inputs = body.texts /\ body.texts[i] \in Nat /\ m.maxInput \in Nat
  BY <1>1, InputsAre, ModelsAssumption DEF Inputs
<1>3. CASE body.route = "embed"
  <2> DEFINE t == Prompted(m, body, i)
  <2>1. LengthsIn(m)[i] = AtMost(t, m.maxInput)
    BY <1>2, <1>3 DEF LengthsIn, EmbedLengths
  <2>2. HasPrompt(m) /\ ~(t > m.maxInput)
    BY <1>2, <1>3 DEF EmbedRefuses, HasPrompt
  <2>3. t \in Nat
    BY <1>1, <1>3, <2>2, PromptedIs
  <2>4. FullIn(m, i) = t
    BY <1>3 DEF FullIn
  <2>. HIDE DEF t
  <2>. QED BY <1>2, <2>1, <2>2, <2>3, <2>4, AtMostIs
<1>4. CASE body.route = "rerank"
  <2>1. LengthsIn(m)[i] = m.prompt + AtMost(Around(body) + body.texts[i], Budget(m))
    BY <1>2, <1>4 DEF LengthsIn, RerankLengths
  <2>2. Around(body) \in Nat /\ m.prompt \in Nat
    <3>1. body.before \in Nat /\ body.after \in Nat
      BY <1>4, BodiesAssumption
    <3>. QED BY <1>1, <1>4, <3>1, ModelsAssumption DEF Around
  <2>3. Around(body) + body.texts[i] <= Budget(m) /\ Budget(m) \in Int
    BY <1>2, <1>4, <2>2 DEF RerankRefuses, TooLong, Budget
  <2>4. AtMost(Around(body) + body.texts[i], Budget(m)) = Around(body) + body.texts[i]
    BY <1>2, <2>2, <2>3, AtMostIs
  <2>. QED BY <1>2, <1>4, <2>1, <2>2, <2>4 DEF FullIn
<1>. QED BY <1>1, <1>3, <1>4

\* The job that begins is planned for the resident model, or refused as too much.
LEMMA EnterKeeps == IInv /\ Enter => IInv'
<1>. SUFFICES ASSUME IInv, Enter PROVE IInv'
  OBVIOUS
<1> DEFINE batches == PlanBatches(Lengths, resident.maxBatch)
           much == body.route = "decide" /\ Planned(Lengths, batches) > MaxPlanned
<1>1. stage = "waiting" /\ resident # NoModel /\ ~EngineRefuses /\ Parsed
  BY DEF Enter, RunUntil, Parsed
<1>2. body \in Bodies /\ resident \in Residents /\ Serves(resident) /\ NoJob
  BY <1>1, ResidentServes DEF IInv, TypeOK, JobFitsStage, Waits
<1>3. CASE much
  <2>1. Answer(Refused("TooMuchWork"))
    BY <1>3 DEF Enter, RunUntil
  <2> DEFINE kind == "TooMuchWork"
  <2>2. kind \in Kinds \ {"OK", "Refusal"} /\ kind # "Validation" /\ kind # "Timeout" /\ kind # "Unhealthy"
    BY DEF Kinds
  <2>3. Refused(kind).kind = kind /\ Refused(kind).kind # "OK" /\ stage # "sent"
    BY <1>1, RefusedIs
  <2>4. InfoIsHonoured'
    BY <1>1, <1>3, <2>1, <2>2, RefusalHonours
  <2>5. ContractHolds' /\ AnswersItsInput'
    BY <1>1, <2>1, <2>2, <2>3, RefusalContract, RefusalAnswers
  <2>. QED BY <2>1, <2>2, <2>3, <2>4, <2>5, AnswerKeeps
<1>4. CASE ~much
  <2>1. /\ job' = [model |-> resident, lengths |-> Lengths, batches |-> batches]
        /\ results' = [i \in DOMAIN Lengths |-> None]
        /\ deadline' = deadline /\ stage' = "running"
        /\ UNCHANGED <<told, body, resident, clock, truncate, offered, done, reply>>
    BY <1>4 DEF Enter, RunUntil
  <2>2. /\ job'.model = resident /\ job'.lengths = Lengths /\ job'.batches = batches /\ done' = 0
        /\ Inputs' = Inputs /\ Lengths = LengthsIn(resident)
    BY <1>2, <2>1, LengthsOfResident DEF NoJob, Inputs
  <2>0. HasPrompt(resident)
    BY <1>1 DEF EngineRefuses, EmbedRefuses, HasPrompt
  <2>3. /\ Lengths \in [DOMAIN Inputs -> Nat] /\ \A i \in DOMAIN Inputs : Lengths[i] \in 1..Limit(resident)
        /\ Limit(resident) \in Nat /\ resident.maxBatch \in Nat /\ Limit(resident) <= resident.maxBatch
    BY <1>2, <2>0, <2>2, LengthsFit
  <2>4. Len(batches) \in Nat
    <3>1. Len(Inputs) \in Nat /\ DOMAIN Inputs = 1..Len(Inputs)
      BY <1>2, InputsAre
    <3>2. \A i \in 1..Len(Inputs) : Lengths[i] <= resident.maxBatch
      BY <2>3, <3>1
    <3>3. batches \in Plans(Len(Inputs))
      BY <2>3, <3>1, <3>2, PlanFits
    <3>. QED BY <3>3, LenProperties DEF Plans
  <2>. HIDE DEF batches, much
  <2>5. TypeOK'
    <3>1. done' \in 0..Len(job'.batches)
      BY <2>2, <2>4
    <3>2. \A i \in DOMAIN Inputs' : job'.lengths[i] \in 1..Limit(job'.model)
      BY <2>2, <2>3
    <3>3. Residents' = Residents
      BY <2>1 DEF Residents
    <3>4. \A i \in (DOMAIN Inputs)' : (job.lengths[i] \in 1..Limit(job.model))'
      BY <3>2 DEF Limit
    <3>. QED BY <2>1, <3>1, <3>3, <3>4 DEF IInv, TypeOK
  <2>6. JobIsRight'
    <3>1. Serves(resident)' /\ LengthsIn(resident)' = LengthsIn(resident)
      BY <1>2, <2>1 DEF Serves, LengthsIn
    <3>2. job'.model = resident' /\ resident' = resident
      BY <2>1, <2>2
    <3>3. (Serves(job.model) /\ HasPrompt(job.model))'
      BY <1>2, <2>0, <2>1, <2>2 DEF Serves, HasPrompt
    <3>4. (job.lengths = LengthsIn(job.model))'
      BY <2>1, <2>2 DEF LengthsIn
    <3>5. (job.batches = PlanBatches(job.lengths, job.model.maxBatch))'
      BY <2>2 DEF batches
    <3>6. DOMAIN results' = DOMAIN Inputs'
      BY <2>1, <2>2, <2>3
    <3>7. RowsAreRight'
      BY <2>2 DEF RowsAreRight
    <3>. QED BY <3>3, <3>4, <3>5, <3>6, <3>7 DEF JobIsRight
  <2>7. JobFitsStage'
    BY <2>1, <2>2, <2>6 DEF JobFitsStage, Waits
  <2>8. TimesFit' /\ AcceptedFirst' /\ ToldTheTruth'
    BY <1>1, <2>1 DEF IInv, TimesFit, AcceptedFirst, ToldTheTruth, Parsed, InModel
  <2>9. CutsAsAsked'
    <3>1. (AutoTruncate(resident) => offered)' /\ (Parsed /\ truncate => MayCut)'
      BY <1>1, <2>1 DEF IInv, CutsAsAsked, AutoTruncate, MayCut
    <3>2. ASSUME body.route # "decide", ~truncate, NEW i \in DOMAIN Inputs
          PROVE  ~(Lengths[i] < FullIn(resident, i))
      <4>1. truncate = FALSE /\ body.route \in {"embed", "rerank"}
        BY <1>2, <3>2, BodiesAssumption DEF IInv, TypeOK
      <4>2. /\ body.route = "embed" => ~EmbedRefuses(resident, body, FALSE)
            /\ body.route = "rerank" => ~RerankRefuses(resident, body, FALSE)
        BY <1>1, <4>1 DEF EngineRefuses
      <4>3. Lengths[i] = FullIn(resident, i)
        BY <1>2, <2>2, <3>2, <4>2, NothingCut
      <4>4. Lengths[i] \in Nat
        BY <2>3
      <4>. QED BY <4>3, <4>4
    <3>3. \A i \in DOMAIN Inputs : FullIn(job.model, i)' = FullIn(resident, i)
      BY <2>1, <2>2 DEF FullIn, Prompted
    <3>4. (body.route # "decide" /\ ~truncate => \A i \in DOMAIN Inputs : ~(job.lengths[i] < FullIn(job.model, i)))'
      BY <2>1, <2>2, <3>2, <3>3
    <3>. QED BY <3>1, <3>4 DEF CutsAsAsked
  <2>10. Replied'
    BY <1>1, <2>1, NoReplyYet DEF IInv, Replied
  <2>. QED BY <2>1, <2>5, <2>7, <2>8, <2>9, <2>10 DEF IInv
<1>. QED BY <1>3, <1>4

-------------------------------------------------------------------------------
\* The batch that starts is the next one, and no row changes.
LEMMA StartKeeps == IInv /\ StartBatch => IInv'
<1>. SUFFICES ASSUME IInv, StartBatch PROVE IInv'
  OBVIOUS
<1>. USE DEF StartBatch
<1>1. TypeOK' /\ (body \in Bodies)'
  BY DEF IInv, TypeOK, Residents, Inputs, Limit
<1>2. JobFitsStage'
  BY JobStays DEF IInv, JobFitsStage, InModel, Waits
<1>3. TimesFit' /\ ToldTheTruth' /\ AcceptedFirst'
  BY DEF IInv, TimesFit, ToldTheTruth, AcceptedFirst, Parsed, InModel
<1>4. CutsAsAsked'
  BY DEF IInv, CutsAsAsked, Parsed, InModel, AutoTruncate, MayCut, FullIn, Prompted, Inputs
<1>5. Replied'
  BY NoReplyYet DEF IInv, Replied
<1>. QED BY <1>1, <1>2, <1>3, <1>4, <1>5 DEF IInv

\* A run is left when its last batch has run.
LEMMA LeaveKeeps == IInv /\ Leave => IInv'
<1>. SUFFICES ASSUME IInv, Leave PROVE IInv'
  OBVIOUS
<1>. USE DEF Leave
<1>1. TypeOK' /\ (body \in Bodies)'
  BY DEF IInv, TypeOK, Residents, Inputs, Limit
<1>2. JobFitsStage'
  BY JobStays DEF IInv, JobFitsStage, InModel, Waits
<1>3. TimesFit' /\ ToldTheTruth' /\ AcceptedFirst'
  BY DEF IInv, TimesFit, ToldTheTruth, AcceptedFirst, Parsed, InModel
<1>4. CutsAsAsked'
  BY DEF IInv, CutsAsAsked, Parsed, InModel, AutoTruncate, MayCut, FullIn, Prompted, Inputs
<1>5. Replied'
  BY NoReplyYet DEF IInv, Replied
<1>. QED BY <1>1, <1>2, <1>3, <1>4, <1>5 DEF IInv

\* The rows of one batch more are right: those of this batch are written now, and no
\* other input loses its own.
LEMMA EndKeeps == IInv /\ EndBatch => IInv'
<1>. SUFFICES ASSUME IInv, EndBatch PROVE IInv'
  OBVIOUS
<1> DEFINE group == Range(job.batches[done + 1])
<1>1. /\ stage = "forward" /\ done' = done + 1 /\ stage' = "running"
      /\ UNCHANGED <<told, body, resident, clock, deadline, truncate, offered, job, reply>>
  BY DEF EndBatch
<1>2. PICK score \in ScoresOf(group) :
          results' = [i \in DOMAIN results |-> IF i \in group THEN Row(i, score[i]) ELSE results[i]]
  BY DEF EndBatch
<1>3. JobIsRight /\ done \in Nat /\ done < Len(job.batches) /\ Len(job.batches) \in Int
  <2>1. done \in 0..Len(job.batches) /\ done < Len(job.batches) /\ JobIsRight
    BY <1>1 DEF IInv, TypeOK, JobFitsStage, InModel
  <2>. QED BY <2>1
<1>4. TypeOK' /\ (body \in Bodies)'
  <2>1. done' \in 0..Len(job'.batches)
    BY <1>1, <1>3
  <2>. QED BY <1>1, <2>1 DEF IInv, TypeOK, Residents, Inputs, Limit
<1>5. /\ Inputs' = Inputs
      /\ \A i : Scores(i)' = Scores(i)
      /\ \A i, s : Row(i, s)' = Row(i, s)
  BY <1>1 DEF Inputs, Scores, Row
<1>6. RowsAreRight'
  <2>. SUFFICES ASSUME NEW i \in DOMAIN Inputs, NEW k \in 1..(done + 1), i \in Range(job.batches[k])
       PROVE  results'[i] = Row(i, results'[i].score) /\ results'[i].score \in Scores(i)
    BY <1>1, <1>5 DEF RowsAreRight
  <2>1. DOMAIN results = DOMAIN Inputs
    BY <1>3 DEF JobIsRight
  <2>. HIDE DEF group
  <2>2. CASE i \in group
    <3>1. results'[i] = Row(i, score[i]) /\ score[i] \in Scores(i)
      BY <1>2, <2>1, <2>2 DEF ScoresOf
    <3>2. Row(i, score[i]).score = score[i]
      BY DEF Row
    <3>. QED BY <3>1, <3>2
  <2>3. CASE i \notin group
    <3>1. results'[i] = results[i]
      BY <1>2, <2>1, <2>3
    <3>2. k # done + 1
      BY <2>3 DEF group
    <3>3. k \in 1..done
      BY <1>3, <3>2
    <3>. QED BY <1>3, <3>1, <3>3 DEF JobIsRight, RowsAreRight
  <2>. QED BY <2>2, <2>3
<1>7. JobIsRight'
  <2>1. DOMAIN results' = DOMAIN Inputs
    BY <1>2, <1>3 DEF JobIsRight
  <2>2. (Serves(job.model) /\ HasPrompt(job.model) /\ job.lengths = LengthsIn(job.model)
         /\ job.batches = PlanBatches(job.lengths, job.model.maxBatch))'
    BY <1>1, <1>3 DEF JobIsRight, Serves, HasPrompt, LengthsIn
  <2>. QED BY <1>5, <1>6, <2>1, <2>2 DEF JobIsRight
<1>8. JobFitsStage'
  <2>1. job'.model = resident'
    BY <1>1 DEF IInv, JobFitsStage
  <2>. QED BY <1>1, <1>7, <2>1 DEF JobFitsStage, Waits
<1>9. TimesFit' /\ ToldTheTruth' /\ AcceptedFirst'
  BY <1>1 DEF IInv, TimesFit, ToldTheTruth, AcceptedFirst, Parsed, InModel
<1>10. CutsAsAsked'
  BY <1>1 DEF IInv, CutsAsAsked, Parsed, InModel, AutoTruncate, MayCut, FullIn, Prompted, Inputs
<1>11. Replied'
  BY <1>1, NoReplyYet DEF IInv, Replied
<1>. QED BY <1>4, <1>8, <1>9, <1>10, <1>11 DEF IInv

-------------------------------------------------------------------------------
(***************************************************************************)
(* The answer.                                                             *)
(***************************************************************************)

\* The job's batches are a plan of its inputs.
LEMMA PlanOfJob ==
    ASSUME body \in Bodies, JobIsRight, NEW n, n = Len(Inputs)
    PROVE  /\ n \in Nat /\ DOMAIN Inputs = 1..n
           /\ job.lengths \in [1..n -> Nat] /\ job.batches \in Plans(n)
           /\ Fits(job.lengths, job.model.maxBatch, job.batches)
           /\ \A i \in 1..n : Holds(job.batches, i)
           /\ Total(Sizes(job.batches)) = n
<1> DEFINE lengths == job.lengths
           ceiling == job.model.maxBatch
<1>1. n \in Nat /\ DOMAIN Inputs = 1..n
  BY InputsAre
<1>2. job.batches = PlanBatches(lengths, ceiling) /\ Serves(job.model) /\ lengths = LengthsIn(job.model)
  BY DEF JobIsRight
<1>0. HasPrompt(job.model)
  BY DEF JobIsRight
<1>. HIDE DEF lengths, ceiling
<1>3. /\ lengths \in [1..n -> Nat] /\ ceiling \in Nat
      /\ \A i \in 1..n : lengths[i] <= ceiling
  <2>1. /\ lengths \in [1..n -> Nat] /\ \A i \in 1..n : lengths[i] \in 1..Limit(job.model)
        /\ Limit(job.model) \in Nat /\ ceiling \in Nat /\ Limit(job.model) <= ceiling
    BY <1>0, <1>1, <1>2, LengthsFit DEF ceiling
  <2>2. ASSUME NEW i \in 1..n PROVE lengths[i] <= ceiling
    <3>1. lengths[i] \in 1..Limit(job.model)
      BY <2>1
    <3>. QED BY <2>1, <3>1
  <2>. QED BY <2>1, <2>2
<1> DEFINE p == PlanBatches(lengths, ceiling)
<1>4. /\ p \in Plans(n) /\ Fits(lengths, ceiling, p)
      /\ \A i \in 1..n : Holds(p, i)
      /\ Total(Sizes(p)) = n
  BY <1>1, <1>3, PlanFits
<1>5. job.batches = p /\ job.lengths = lengths /\ job.model.maxBatch = ceiling
  BY <1>2 DEF lengths, ceiling
<1>. HIDE DEF p
<1>. QED BY <1>1, <1>3, <1>4, <1>5

\* When the last batch has run, every input has its row.
LEMMA AllRows ==
    ASSUME body \in Bodies, JobIsRight, done = Len(job.batches)
    PROVE  \A i \in DOMAIN Inputs :
              results[i] = Row(i, results[i].score) /\ results[i].score \in Scores(i)
<1>1. \A i \in DOMAIN Inputs : Holds(job.batches, i)
  BY PlanOfJob
<1>. QED BY <1>1 DEF Holds, JobIsRight, RowsAreRight

\* The order that the rows are answered in: every one of them, the best first if it is a
\* ranking.
Order == IF body.route = "rerank" THEN Ranked([i \in DOMAIN results |-> results[i].score])
         ELSE [i \in DOMAIN results |-> i]

\* It is a permutation, the identity unless the rows are ranked.
OrderIsRight(n) ==
    /\ Order \in [1..n -> 1..n]
    /\ \A i \in 1..n : \E k \in 1..n : Order[k] = i
    /\ body.route # "rerank" => \A k \in 1..n : Order[k] = k
    /\ body.route = "rerank" =>
          \A j, k \in 1..n : j < k =>
              \/ results[Order[j]].score > results[Order[k]].score
              \/ results[Order[j]].score = results[Order[k]].score /\ Order[j] < Order[k]

\* The order of rows that all have a number is right.
LEMMA OrderFits ==
    ASSUME body \in Bodies, NEW n \in Nat, DOMAIN results = 1..n, ~NotANumber,
           \A i \in 1..n : results[i].score \in Scores(i)
    PROVE  OrderIsRight(n)
<1>1. CASE body.route = "rerank"
  <2> DEFINE scores == [i \in DOMAIN results |-> results[i].score]
  <2>1. DOMAIN scores = 1..n /\ \A i \in 1..n : scores[i] \in Int /\ scores[i] = results[i].score
    BY <1>1 DEF NotANumber, Scores
  <2>2. Order = Descending(scores)
    BY <1>1 DEF Order, Ranked
  <2>. HIDE DEF scores
  <2>5. /\ Descending(scores) \in [1..n -> 1..n]
        /\ \A j, k \in 1..n : j < k => Higher(scores, Descending(scores)[j], Descending(scores)[k])
        /\ \A i \in 1..n : \E k \in 1..n : Descending(scores)[k] = i
    <3>1. DOMAIN scores = 1..n /\ \A i \in 1..n : scores[i] \in Int
      BY <2>1
    <3>. QED BY <3>1, DescendingSorts
  <2>3. /\ Order \in [1..n -> 1..n]
        /\ \A j, k \in 1..n : j < k => Higher(scores, Order[j], Order[k])
        /\ \A i \in 1..n : \E k \in 1..n : Order[k] = i
    BY <2>2, <2>5
  <2>4. ASSUME NEW j \in 1..n, NEW k \in 1..n, j < k
        PROVE  \/ results[Order[j]].score > results[Order[k]].score
               \/ results[Order[j]].score = results[Order[k]].score /\ Order[j] < Order[k]
    <3>1. Order[j] \in 1..n /\ Order[k] \in 1..n /\ Higher(scores, Order[j], Order[k])
      BY <2>3, <2>4
    <3>. QED BY <2>1, <3>1 DEF Higher
  <2>. QED BY <1>1, <2>3, <2>4 DEF OrderIsRight
<1>2. CASE body.route # "rerank"
  <2>1. Order = [i \in 1..n |-> i]
    BY <1>2 DEF Order
  <2>. QED BY <1>2, <2>1 DEF OrderIsRight
<1>. QED BY <1>1, <1>2

-------------------------------------------------------------------------------

\* The answer keeps to the request, to what was told and to the contract.
LEMMA RespondKeeps == IInv /\ Respond => IInv'
<1>. SUFFICES ASSUME IInv, Respond PROVE IInv'
  OBVIOUS
<1> DEFINE n == Len(Inputs)
           answers == [k \in DOMAIN Order |-> results[Order[k]]]
           dimensions == IF body.route = "embed" THEN Dimensions(job.model, body) ELSE 0
           decided == IF body.route = "decide" THEN DecisionsSent ELSE <<>>
           r == [Refused("OK") EXCEPT !.model = job.model, !.dimensions = dimensions,
                                      !.decided = decided, !.answers = answers]
<1>1. /\ stage = "ran" /\ ~BadFlag /\ ~NotANumber /\ JobIsRight /\ done = Len(job.batches)
      /\ body \in Bodies /\ Parsed
  BY DEF Respond, IInv, JobFitsStage, InModel, Parsed
<1>2. Answer(r)
  BY DEF Respond, Order
<1>3. /\ r.kind = "OK" /\ r.path = None /\ r.model = job.model /\ r.dimensions = dimensions
      /\ r.decided = decided /\ r.answers = answers
  BY DEF Refused, NoReply
<1>. HIDE DEF r
<1>4. reply' = r /\ UNCHANGED <<body, told, clock>> /\ Inputs' = Inputs
  BY <1>2 DEF Answer, Inputs
<1>5. Serves(job.model) /\ job.model.route = body.route /\ job.model # NoModel
  BY <1>1, TimesAssumption DEF JobIsRight, Serves
<1>6. n \in Nat /\ DOMAIN Inputs = 1..n /\ DOMAIN results = 1..n
  BY <1>1, InputsAre DEF JobIsRight
<1>7. \A i \in 1..n : results[i] = Row(i, results[i].score) /\ results[i].score \in Scores(i)
  BY <1>1, <1>6, AllRows
<1>8. OrderIsRight(n)
  <2>. HIDE DEF n
  <2>1. \A i \in 1..n : results[i].score \in Scores(i)
    BY <1>7
  <2>. QED BY <1>1, <1>6, <2>1, OrderFits
<1>. HIDE DEF n, dimensions, decided
<1>9. /\ Order \in [1..n -> 1..n] /\ answers = [k \in 1..n |-> results[Order[k]]]
      /\ DOMAIN answers = 1..n /\ Len(answers) = n
  <2>1. Order \in [1..n -> 1..n]
    BY <1>8 DEF OrderIsRight
  <2>2. answers \in [1..n -> {results[i] : i \in 1..n}]
    BY <2>1
  <2>3. answers \in Seq({results[i] : i \in 1..n})
    BY <1>6, <2>2, SeqDef
  <2>4. DOMAIN answers = 1..n
    BY <2>2
  <2>5. Len(answers) = n
    <3>. HIDE DEF answers
    <3>. QED BY <1>6, <2>3, <2>4, LengthOfDomain
  <2>. QED BY <2>1, <2>4, <2>5
<1>10. \A k \in 1..n : /\ answers[k] = results[Order[k]] /\ answers[k].index = Order[k]
                       /\ answers[k].of = Order[k] /\ answers[k].by = job.model
  <2>. SUFFICES ASSUME NEW k \in 1..n
       PROVE  /\ answers[k] = results[Order[k]] /\ answers[k].index = Order[k]
              /\ answers[k].of = Order[k] /\ answers[k].by = job.model
    OBVIOUS
  <2>1. Order[k] \in 1..n /\ answers[k] = results[Order[k]]
    BY <1>9
  <2> DEFINE i == Order[k]
             s == results[i].score
  <2>. HIDE DEF i, s
  <2>2. answers[k] = Row(i, s)
    BY <1>7, <2>1 DEF i, s
  <2>3. Row(i, s).index = i /\ Row(i, s).of = i /\ Row(i, s).by = job.model
    BY DEF Row
  <2>. QED BY <2>1, <2>2, <2>3 DEF i
<1>. HIDE DEF answers
<1>11. AnswersItsInput'
  <2>1. {answers[k].index : k \in DOMAIN answers} = 1..n
    <3>1. \A i \in 1..n : \E k \in 1..n : Order[k] = i
      BY <1>8 DEF OrderIsRight
    <3>2. \A k \in 1..n : answers[k].index = Order[k] /\ Order[k] \in 1..n
      BY <1>9, <1>10
    <3>3. DOMAIN answers = 1..n
      BY <1>9
    <3>4. \A k \in DOMAIN answers : answers[k].index \in 1..n
      BY <3>2, <3>3
    <3>5. \A i \in 1..n : \E k \in DOMAIN answers : answers[k].index = i
      BY <3>1, <3>2, <3>3
    <3>. QED BY <3>4, <3>5
  <2>2. \A k \in 1..n : body.route # "rerank" => answers[k].index = k
    BY <1>8, <1>10 DEF OrderIsRight
  <2>3. body.route = "rerank" =>
            \A j, k \in 1..n : j < k =>
                \/ answers[j].score > answers[k].score
                \/ answers[j].score = answers[k].score /\ answers[j].index < answers[k].index
    <3>. SUFFICES ASSUME body.route = "rerank", NEW j \in 1..n, NEW k \in 1..n, j < k
         PROVE  \/ answers[j].score > answers[k].score
                \/ answers[j].score = answers[k].score /\ answers[j].index < answers[k].index
      OBVIOUS
    <3>1. \/ results[Order[j]].score > results[Order[k]].score
          \/ results[Order[j]].score = results[Order[k]].score /\ Order[j] < Order[k]
      BY <1>8 DEF OrderIsRight
    <3>. QED BY <1>10, <3>1
  <2>4. /\ Len(answers) = Len(Inputs) /\ DOMAIN answers = 1..n /\ DOMAIN Inputs = 1..n
    BY <1>6, <1>9 DEF n
  <2>5. \A k \in 1..n :
            /\ answers[k].of = answers[k].index
            /\ answers[k].by = job.model /\ job.model.route = body.route
            /\ body.route # "rerank" => answers[k].index = k
    BY <1>5, <1>10, <2>2
  <2>6. reply'.answers = answers /\ reply'.model = job.model /\ body' = body /\ Inputs' = Inputs
    BY <1>3, <1>4
  <2>7. /\ Len(answers) = Len(Inputs)
        /\ {answers[k].index : k \in DOMAIN answers} = DOMAIN Inputs
        /\ \A k \in DOMAIN answers :
              /\ answers[k].of = answers[k].index
              /\ answers[k].by = job.model /\ job.model.route = body.route
              /\ body.route # "rerank" => answers[k].index = k
        /\ body.route = "rerank" =>
              \A j, k \in DOMAIN answers : j < k =>
                  \/ answers[j].score > answers[k].score
                  \/ answers[j].score = answers[k].score /\ answers[j].index < answers[k].index
    <3>1. {answers[k].index : k \in DOMAIN answers} = DOMAIN Inputs
      BY <2>1, <2>4
    <3>2. DOMAIN answers = 1..n /\ Len(answers) = Len(Inputs)
      BY <2>4
    <3>3. \A k \in DOMAIN answers :
              /\ answers[k].of = answers[k].index
              /\ answers[k].by = job.model /\ job.model.route = body.route
              /\ body.route # "rerank" => answers[k].index = k
      BY <2>5, <3>2
    <3>4. body.route = "rerank" =>
              \A j, k \in DOMAIN answers : j < k =>
                  \/ answers[j].score > answers[k].score
                  \/ answers[j].score = answers[k].score /\ answers[j].index < answers[k].index
      BY <2>3, <3>2
    <3>. QED BY <3>1, <3>2, <3>3, <3>4, Zenon
  <2>. QED BY <2>6, <2>7 DEF AnswersItsInput
<1>12. InfoIsHonoured'
  <2>. SUFFICES ASSUME told # None
       PROVE  /\ told.healthy
              /\ told.info # None =>
                    /\ job.model = told.info.model
                    /\ body.route = "embed" =>
                          dimensions = IF body.dimensions = 0 THEN told.info.dimensions ELSE body.dimensions
                    /\ body.route = "decide" => Len(Inputs) \in 1..told.info.max_questions
    <3>1. r.kind # "Unhealthy" /\ r.kind # "Validation" /\ r.kind # "TooMuchWork" /\ r.kind # "Timeout"
          /\ r.path # <<0, "questions">>
      BY <1>3, NoneAssumption
    <3>. QED BY <1>3, <1>4, <3>1 DEF InfoIsHonoured
  <2>1. job.model = resident
    BY <1>1 DEF IInv, JobFitsStage
  <2>2. told.healthy /\ (told.info # None => told.info = InfoOf(resident))
    BY <1>5, <2>1 DEF IInv, ToldTheTruth
  <2>3. told.info # None /\ body.route = "embed" =>
            dimensions = IF body.dimensions = 0 THEN told.info.dimensions ELSE body.dimensions
    <3>1. told.info # None /\ body.route = "embed" => told.info.dimensions = job.model.dimensions
      BY <1>1, <1>5, <2>1, <2>2, InfoIs
    <3>. QED BY <3>1 DEF dimensions, Dimensions
  <2>4. told.info # None => job.model = told.info.model
    BY <1>1, <1>5, <2>1, <2>2, InfoIs
  <2>5. told.info # None /\ body.route = "decide" => Len(Inputs) \in 1..told.info.max_questions
    <3>1. told.info # None /\ body.route = "decide" => told.info.max_questions = MaxQuestions
      BY <1>1, <1>5, <2>1, <2>2, InfoIs
    <3>2. body.route = "decide" => Inputs = body.questions /\ Accepts(body.questions)
      BY <1>1 DEF Inputs, IInv, AcceptedFirst
    <3>. QED BY <3>1, <3>2 DEF Accepts
  <2>. QED BY <2>2, <2>3, <2>4, <2>5
<1>13. ContractHolds'
  <2> DEFINE qs == body.questions
             scores == [i \in DOMAIN results |-> results[i].score]
             decisions == [i \in DOMAIN qs |-> DecisionOn(i)']
             revision == job.model.revision
  <2>. SUFFICES ASSUME body.route = "decide", \A i \in DOMAIN qs : Typed(qs[i])
       PROVE  /\ Usable(qs)
              /\ ParseReply(decided, qs, Unit) <=> Readable(revision, qs, decisions, Unit)
              /\ ReadAsDecided(decided, qs, decisions)
    BY <1>3, <1>4 DEF ContractHolds
  <2>1. Accepts(qs) /\ Usable(qs)
    <3>1. Accepts(qs)
      BY <1>1 DEF IInv, AcceptedFirst
    <3>. QED BY <3>1, ContractAgrees DEF SameVerdict
  <2>2. PICK S : qs \in Seq(S)
    BY <1>1, BodiesAssumption
  <2>3. DOMAIN qs = 1..n
    BY <1>6 DEF Inputs
  <2>4. ASSUME NEW i \in 1..n PROVE DecisionOn(i)' = results[i].score
    <3>1. \A k \in 1..n : answers[k].of = k /\ answers[k] = results[k]
      BY <1>8, <1>10 DEF OrderIsRight
    <3>2. (CHOOSE k \in DOMAIN answers : answers[k].of = i) = i
      BY <1>9, <3>1
    <3>3. reply'.answers = answers
      BY <1>3, <1>4
    <3>. QED BY <3>1, <3>2, <3>3 DEF DecisionOn
  <2>5. decisions = scores
    BY <1>6, <2>3, <2>4
  <2>6. decided = WorkerReply(revision, qs, scores)
    BY DEF decided, DecisionsSent
  <2>. HIDE DEF scores, decisions, revision, qs
  <2>7. \A i \in DOMAIN qs : Typed(qs[i])
    BY DEF qs
  <2>8. /\ ParseReply(WorkerReply(revision, qs, decisions), qs, Unit)
              <=> Readable(revision, qs, decisions, Unit)
        /\ ReadAsDecided(WorkerReply(revision, qs, decisions), qs, decisions)
    BY <2>1, <2>2, <2>7, ReplyIsRead
  <2>. QED BY <2>1, <2>5, <2>6, <2>8
<1>14. stage # "sent" /\ r.kind \in Kinds
  BY <1>1, <1>3 DEF Kinds
<1>. QED BY <1>2, <1>11, <1>12, <1>13, <1>14, AnswerKeeps

-------------------------------------------------------------------------------
(***************************************************************************)
(* The theorems.                                                           *)
(***************************************************************************)
\* Every step keeps the invariant.
LEMMA NextKeeps == IInv /\ [Next]_vars => IInv'
<1>. SUFFICES ASSUME IInv, [Next]_vars PROVE IInv'
  OBVIOUS
<1>1. CASE Tick \/ Swap \/ Health \/ Info \/ Arrive
  BY <1>1, TickKeeps, SwapKeeps, TellsKeep, ArriveKeeps
<1>2. CASE ParseFails \/ QuestionsFail \/ Parse
  BY <1>2, ParseFailsKeeps, QuestionsFailKeeps, ParseKeeps
<1>3. CASE Overloaded \/ NoModelLoaded \/ InvalidRequest \/ DeadlineExceeded \/ ForwardFails \/ RespondRefused
  BY <1>3, RefusalsKeep
<1>4. CASE Admit \/ Enter \/ StartBatch \/ EndBatch \/ Leave \/ Respond
  BY <1>4, AdmitKeeps, EnterKeeps, StartKeeps, EndKeeps, LeaveKeeps, RespondKeeps
<1>5. CASE UNCHANGED vars
  BY <1>5, StutterKeeps
<1>. QED BY <1>1, <1>2, <1>3, <1>4, <1>5 DEF Next

\* What the request, its job, its deadline and what was promised are to each other, in every
\* reachable state (tei.py and decide.py of the three workers).
THEOREM Invariance == Spec => []IInv
BY InitHolds, NextKeeps, PTL DEF Spec

\* Every variable keeps to its domain, and no sequence is longer than its model reads
\* (onnx_embedder.py:136-151, cross_encoder.py:148-165, decision.py:184-208).
THEOREM TypeCorrect == Spec => []TypeOK
<1>1. IInv => TypeOK
  BY DEF IInv
<1>. QED BY <1>1, Invariance, PTL

\* What pad() makes of a batch is what the plan counted.
LEMMA PaddedIs ==
    ASSUME NEW n \in Nat, NEW lengths \in [1..n -> Nat], NEW ceiling, NEW s \in Seq(1..n),
           Fit(lengths, ceiling, s)
    PROVE  Padded(lengths, s) <= ceiling
<1> DEFINE T == {lengths[i] : i \in Range(s)}
           top == lengths[s[1]]
<1>1. /\ Len(s) \in Nat /\ DOMAIN s = 1..Len(s) /\ \A r \in 1..Len(s) : s[r] \in 1..n
      /\ Len(s) > 0 /\ Cost(lengths, s) <= ceiling /\ \A r \in 1..Len(s) : lengths[s[r]] <= lengths[s[1]]
  BY LenProperties DEF Fit
<1>2. top \in Nat /\ top \in T
  <2>1. 1 \in 1..Len(s) /\ s[1] \in 1..n
    BY <1>1
  <2>2. s[1] \in Range(s)
    BY <1>1, <2>1 DEF Range
  <2>3. lengths[s[1]] \in Nat
    BY <2>1
  <2>. QED BY <2>2, <2>3
<1>3. \A k \in T : k \in Nat /\ k <= top
  <2>. SUFFICES ASSUME NEW i \in Range(s) PROVE lengths[i] \in Nat /\ lengths[i] <= top
    OBVIOUS
  <2>1. PICK r \in 1..Len(s) : i = s[r]
    BY <1>1 DEF Range
  <2>. QED BY <1>1, <2>1
<1>. HIDE DEF T, top
<1>4. T \in SUBSET (0..top) /\ T # {}
  BY <1>2, <1>3
<1>5. Max(T) \in T /\ \A k \in T : k <= Max(T)
  BY <1>2, <1>4, GreatestNumber
<1>6. Max(T) = top
  <2>1. Max(T) <= top /\ top <= Max(T) /\ Max(T) \in Nat
    BY <1>2, <1>3, <1>5
  <2>. QED BY <1>2, <2>1
<1>7. Padded(lengths, s) = Cost(lengths, s)
  <2>1. Padded(lengths, s) = Len(s) * Max(T)
    BY DEF Padded, T
  <2>2. Cost(lengths, s) = Len(s) * top
    BY DEF Cost, top
  <2>. QED BY <1>6, <2>1, <2>2
<1>. QED BY <1>1, <1>7

\* A right job has batches that fit.
LEMMA JobFitsBatches ==
    ASSUME body \in Bodies, JobIsRight PROVE BatchesFit
<1> DEFINE n == Len(Inputs)
           p == job.batches
           ceiling == job.model.maxBatch
<1>1. /\ n \in Nat /\ DOMAIN Inputs = 1..n
      /\ job.lengths \in [1..n -> Nat] /\ p \in Plans(n) /\ Fits(job.lengths, ceiling, p)
      /\ \A i \in 1..n : Holds(p, i)
      /\ Total(Sizes(p)) = n
  BY PlanOfJob
<1>. HIDE DEF n, p, ceiling
<1>2. /\ DOMAIN p = 1..Len(p) /\ \A b \in 1..Len(p) : p[b] \in Seq(1..n)
      /\ \A b \in 1..Len(p) : DOMAIN p[b] = 1..Len(p[b]) /\ \A r \in 1..Len(p[b]) : p[b][r] \in 1..n
  BY <1>1, Batch
<1>3. \A k \in DOMAIN p : Padded(job.lengths, p[k]) <= ceiling
  <2>. SUFFICES ASSUME NEW k \in 1..Len(p) PROVE Padded(job.lengths, p[k]) <= ceiling
    BY <1>2
  <2>1. Fit(job.lengths, ceiling, p[k]) /\ p[k] \in Seq(1..n)
    BY <1>1, <1>2 DEF Fits
  <2>. QED BY <1>1, <2>1, PaddedIs
<1>4. UNION {Range(p[k]) : k \in DOMAIN p} = 1..n
  <2>1. \A i \in 1..n : \E k \in DOMAIN p : i \in Range(p[k])
    BY <1>1, <1>2 DEF Holds
  <2>2. \A k \in DOMAIN p : Range(p[k]) \subseteq 1..n
    BY <1>2 DEF Range
  <2>. QED BY <2>1, <2>2
<1>5. Total([k \in DOMAIN p |-> Len(p[k])]) = n
  BY <1>1 DEF Sizes
<1>. QED BY <1>1, <1>3, <1>4, <1>5 DEF BatchesFit, n, p, ceiling

\* No batch costs more than max_batch_tokens once it is padded, and the batches hold every
\* input exactly once, for any lengths and any ceiling (batching.py:28-38).
THEOREM EveryBatchFits == Spec => []BatchesFit
<1>1. IInv => BatchesFit
  <2>. SUFFICES ASSUME IInv PROVE BatchesFit
    OBVIOUS
  <2>1. CASE InModel
    BY <2>1, JobFitsBatches DEF IInv, JobFitsStage
  <2>2. CASE ~InModel
    BY <2>2 DEF BatchesFit
  <2>. QED BY <2>1, <2>2
<1>. QED BY <1>1, Invariance, PTL

\* An answer has a row for every input, from its own sequence and by the model it names; a
\* ranking is in order (tei.py:108-120 of the reranker, decision.py:269-308).
THEOREM EveryInputAnswered == Spec => []AnswersItsInput
<1>1. IInv => AnswersItsInput
  BY DEF IInv, Replied
<1>. QED BY <1>1, Invariance, PTL

\* Nothing is cut that may not be, and the limits kept are those that /health and /info told
\* (tei.py:44-75 of the embedder and 47-137 of the reranker, decide.py:89-103).
THEOREM LimitsKept == Spec => []LimitsAreKept
<1>1. IInv => CutOnlyWhenAllowed
  <2>. SUFFICES ASSUME IInv, InModel, body.route # "decide",
                       NEW i \in DOMAIN Inputs,
                       job.lengths[i] < FullIn(job.model, i)
       PROVE  body.truncate = TRUE \/ (body.truncate = None /\ body.route = "rerank" /\ offered)
    BY DEF CutOnlyWhenAllowed, FullIn
  <2>2. truncate
    BY DEF IInv, CutsAsAsked
  <2>3. MayCut
    BY <2>2 DEF IInv, CutsAsAsked, Parsed
  <2>. QED BY <2>3 DEF MayCut
<1>2. IInv => InfoIsHonoured
  BY DEF IInv, Replied
<1>3. IInv => LimitsAreKept
  BY <1>1, <1>2 DEF LimitsAreKept
<1>. QED BY <1>3, Invariance, PTL

\* The worker refuses the questions that the orchestrator would not send, at the same path;
\* of its answers to the others ParseReply reads those that name a revision and hold numbers
\* in [0, 1] only, and reads in them what was decided of each question's own row
\* (decision.py:112-154, decide.py:85-210, worker.go:29-180).
THEOREM ContractKept == Spec => []ContractHolds
<1>1. IInv => ContractHolds
  BY DEF IInv, Replied
<1>. QED BY <1>1, Invariance, PTL

\* No batch of a decision starts once its caller has given up, however long the lock was
\* waited for (decide.py:24-29, decision.py:285-289, workers.go:83-108).
THEOREM NoBatchStartsLate == Spec => NoBatchForTheGone
<1>1. IInv /\ [Next]_vars =>
          [body.route = "decide" /\ stage # "forward" /\ stage' = "forward" => clock < Patience]_vars
  <2>. SUFFICES ASSUME IInv, Next, body.route = "decide", stage # "forward", stage' = "forward"
       PROVE  clock < Patience
    OBVIOUS
  <2>1. StartBatch
    BY DEF Next, Tick, Swap, Health, Info, Arrive, ParseFails, QuestionsFail, Parse, Overloaded, Admit,
           NoModelLoaded, InvalidRequest, Enter, RunUntil, DeadlineExceeded, EndBatch, ForwardFails,
           Leave, RespondRefused, Respond, Answer
  <2>2. clock <= deadline /\ deadline <= Delay + Deadline
    BY <2>1 DEF StartBatch, IInv, TimesFit
  <2>3. clock \in Nat /\ deadline \in Nat
    BY TimesAssumption DEF IInv, TypeOK
  <2>. QED BY <2>2, <2>3, TimesAssumption
<1>. QED BY <1>1, Invariance, PTL DEF NoBatchForTheGone, Spec
===============================================================================
