# dita: TLA+ models and proofs

Specifications of dita's concurrent and persistent parts, read from its source. Paths below
are relative to the repository; `worker/` is `packages/pylibs/worker/src/worker/`, `dip/` is
`packages/pylibs/dip/src/dip/`, `orchestrator/` is `services/dita-orchestrator/`.

    tlc -config MCManager.cfg ModelManager          # one configuration for each run, see "Runs"
    tlapm ModelManagerProofs.tla                    # and the seven other ...Proofs modules

Contents: the system, the modules, the runs, fairness, the proofs, what the models found,
what is not modelled, what is next.

## 1. The system

A Go orchestrator serves clients over HTTP. It talks to Python inference workers over two
ports: a unix socket with the DIP protocol (SOCK_SEQPACKET, prologue + control block +
payload) for the life cycle of models and for OCR, and an HTTP port shared by metrics and by
the TEI-style routes (`/embed`, `/rerank`, `/decide`). A worker holds at most one model. The
orchestrator also stores decisions, corrections and templates in append-only JSONL files.

| Part | State it keeps | Operations | What is hard |
| --- | --- | --- | --- |
| Model manager `worker/manager.py`, `health.py` | `_engine`, `_resident`, `_loading`, `_last_error`, `_lock`, `_fetch_lock` | load, unload, infer, run, readyz | threads of connections and HTTP routes; two locks; reads without a lock; failures between release and build |
| Model fetcher `worker/fetcher.py` | files and `.part` files, `_verified` | ensure_model | stops half-way, no fsync, a file looked at twice, processes that share a directory |
| Socket server `worker/server.py` | listening socket, `_slots`, `_stopping` | accept loop, connection threads, stop, close | signals at any point, a cap, threads that do not start |
| DIP connection `dip/receiver.py`, `dip/requester.py`, `packages/golibs/dip/requester.go`, framing in both | socket buffers, partial messages, retired or not | exchange, serve, refuse, stop | full buffers, timeouts on both sides, late answers |
| Worker HTTP port `worker/metrics.py`, `routes.py` | counters, `_slots` | scrape, route | keep-alive holds slots; routes and scrapes share them; routes wait for the manager's lock |
| Text inference library `packages/pylibs/textinfer` | `Admission._slots` | run, plan_batches | a second request while one is in the model; padded cost |
| Text workers: embedding, reranker, system-one | the engine that is resident | /embed, /rerank, /decide, /info, /health | the model changes between parsing, running and answering; token budgets; a deadline against the caller's patience; batches in another order than the inputs |
| OCR worker `services/inferences-ocr` | `rec_keys.txt` beside the model | build, infer | a file written in place, that outlives the process |
| Decision store `orchestrator/decisions/store.go`, `quarantine.go` | five JSONL files, their sidecars, maps in memory, `poisoned` | Open, SaveTemplate, Retire, AddPrediction, Correct, AddEvaluation | torn writes, failed truncation, damaged lines, crashes while recovering |
| Decision handlers `orchestrator/handler/decisions/handler.go` | `outcomes`, `scoring` | Decide, Correct, Recent, SaveTemplate, Retire, Evaluate | requests that interleave between two locks of the store |
| Inference gateway `orchestrator/handler/inferences` | none | forward | classification of transport errors |
| Dashboard `services/inferences-dashboard` | none that lasts | a browser client | rendering |

They interact like this. A connection thread of the **socket server** runs a **DIP
connection**, whose handler calls the **model manager**; an HTTP route calls the manager
through **Admission**. The manager calls the **fetcher** under `_fetch_lock` and the engine
under `_lock`. **Decide** in the orchestrator looks a template up in the **store**, asks the
system-one worker over HTTP and writes the prediction to the store. The parts share no memory
across processes; `$MODELS_DIR` and the unix socket directory are shared on disk.

What makes each part correct:

- manager: one engine at a time, none built while another is alive; nothing is swapped under
  an inference; a failed fetch evicts nothing; no lock is kept; readyz tells the truth.
- fetcher: what it vouches for are the pinned bytes; nothing on disk can stop a load.
- server: slots are conserved; unless a refused peer sends for ever, nobody waits for ever and a
  stop ends it.
- HTTP port: slots, admissions and the lock are conserved; a busy model does not close it.
- text workers: a batch fits the budget; an answer belongs to its input and to the model it
  names; a text is cut only with leave; /info tells the limits that are kept; no work is begun
  for a caller that gave up.
- /decide: the orchestrator and the worker pass the same questions, and what is read is what was
  decided.
- connection: a request is carried out at most once and whole; an answer belongs to its call;
  the receiver lets go.
- store: what was acknowledged survives; what is seen is on disk; bad lines are preserved, and none
  takes the store down by what it says.
- handlers: a retirement holds, a correction is final, the history page and the statistics
  agree with what clients were told.

## 2. The modules

A step of a model is what the code does between two points where another thread, another
process or a crash can tell the difference: a lock taken or given back, a write that is read
without a lock, a system call. Operators named as a mistake ("What a bug would do instead")
are alternatives to the definition after them. No specification uses them; they exist to
check that the properties notice.

**Residency** is the abstract promise of a worker (manager.py:3-7): a model is installed only
when nothing is resident, evicted only when nobody uses it, and serves one call at a time.

**ModelManager** has the fields of `ModelManager` as variables (`lock`, `fetchLock`, `engine`,
`resident`, `loading`, `lastError`), the engines alive (`built`), the models on disk, and a
program counter per thread. `CallLoad` is the unlocked check; `BeginFetch`, `FetchDone` and
`FetchFails` are phase 1; `BeginSwap`, `CloseEngine`, `DropEngine`, `BuildDone` and
`BuildFails` are phase 2 under `_lock`; `ClearOnLoad` and `RecordFailure` are the writes of
`_last_error`, outside both locks as in the code. `CallUnload` and `CallInfer` begin the other
calls. Engines that keep refusing inputs and engines that answer are the same step, `EndInfer`.
The manager implements Residency: `resident` maps to what the engine object was built from,
`serving` to the inferences in progress. **ModelManagerHistory** adds how the last swap ended.

**Fetcher** goes through `ensure_model` file by file, a step for each call on the file system:
does the file exist, is it remembered, its size, its digest, its removal when it is another
(`Discard`), the download into `.part`, the second hash, the rename, the second look that is
remembered. `spec` is what the registry says: `Call` returns at once for a model that is not
downloaded and refuses one with a file that has no digest. A file is an object with bytes
(pinned, other bytes of the same size, another size) and a modification time; a path names an
object, so that a writer can go on writing to what was renamed. `_verified` remembers the time.
The environment serves any bytes, fails, breaks off, restarts processes, cuts the power (a
renamed file was never synced and may hold anything), and replaces files and removes them at any
time, also between the hash of a file and the look that is remembered. `replaced` and `misled` are
history: the files replaced during the call, and those replaced between those two steps, which the
process takes for the ones it hashed until they are written again.

**SocketServer** has the main thread (bind, loop, accept, admit or refuse, start a thread,
drain a refused peer, close), the life of each connection, the slots, and `Stop`, which the
signal handler makes between any two steps of the main thread. The drain is one recv after the
other: `PeerSends` puts something in, `DrainMore` reads it, and `Drained` is a recv that times out
or finds the peer gone. How often the peer sends is not bounded, as in `refuse`. What is said on a connection
is left to DipExchange.

**AtMostOnce** is the abstract promise of a connection to its caller; **DipExchange** implements
it: a requester, two bounded socket buffers of datagrams, and a receiver that reassembles by
counting. A send waits while the peer's queue (`Capacity`) or the sender's buffer (`room`, any
size up to it) is full. A datagram carries the number of its call for the properties only: no guard of
either program reads it. Timeouts can fire at any time; `RetireOnFailure = FALSE` makes the
requester the Python one.

**DecisionStore** has the files as sequences of lines, a line as the pieces written on it and
whether it has its newline; memory (`versions`, `retired`, `predicted`, `corrected`); `poisoned`;
the sidecars; and the lines copied and not yet synced. `Open` replays the files in the order of
the code, a line per step, with `SetAside`, `EndLine` and `FinishFile` for the quarantine, so that
a crash can come anywhere. `FileFails` is a file that cannot be read, or whose sidecar cannot be
opened, written or synced, or whose last line cannot be ended: its error is kept (`failed`), the
next file is read all the same, and Open is refused at the end; `RulesUnread` is the same of a file
of rules, and `StartAgain` the next process. An append is `BeginAppend` and one of `AppendDone`, `AppendCutBack`
(the write failed, the file was cut back) and `AppendPoisons` (so did the truncation). The
store's mutex makes one call at a time faithful.

**DecisionHandlers** composes requests over that store: a step per method of the store and per
answer waited for. A store method is atomic (mutex) and either succeeds or fails as a whole;
DecisionStore is about what failure leaves behind. The worker answers, refuses, is unreachable
for any of the reasons of `classify`, or gives a reply of no use.

**WorkerPort** has where each peer's connection is, from the backlog of the listening socket to
the end of its thread, the counts of the two semaphores (`_ScrapeServer._slots`, 8, and
`Admission._slots`, 4 or 1) and the holder of the manager's lock. `TakeSlot`, `Refuse`,
`StartThread` and `StartThreadFails` are the accept loop; the rest are the connection's thread:
requests one after the other, of which those that parse pass `Admit` or `Overloaded` and then
wait for the lock with everybody else (`DipTakes` is a load or an inference over DIP).

**TextInference** has what an engine does to a request between its tokens and its graph, as
operators: from which configurations an engine is built (`...Loads`), what it refuses, the lengths
of the sequences it runs (a text is its number of tokens, with the prompt the model puts before it;
`build_sequence` of the decider is counted token by token), `PlanBatches` and `Ranked`; and the
decisions a graph can come to: probabilities in the unit, or not numbers, and the confidence that
goes with them, which of equal probabilities may be rounded below 0.

**DecideContract** has the two sides of /decide as operators: `CheckQuestions` and `ParseReply` in
the orchestrator's words, `WorkerFault`, `FaultAt` and `WorkerReply` in the worker's. A string is
a string; whether it is blank and which number it spells are the constants `Blank` and `Value`.

**TextRequest** composes the two: one request, from the moment its caller sends it. `Health` and
`Info` may be asked before. `Arrive` sets the deadline, `Parse` reads `auto_truncate` of the model
that is resident then, `Admit` or `Overloaded` is Admission, `Enter` has got the manager's lock and
plans the batches, `StartBatch` and `EndBatch` run one, `Leave` gives the lock back, `Respond`
makes the answer. `Swap` puts another model in, or none, whenever the lock is free: `RunUntil`
holds it from `Enter` to `Leave`. `Tick` is the clock, where time really passes: on the way, while
another thread has the lock, and in the graph. A body's `faults` are what is wrong with it; the
order of the checks says which one is answered.

**RecKeys** is the label file of the OCR worker: `Ensure` is the fetch of the pinned yml, `OpenKeys`
and `WriteKeys` the two halves of `write_text`, `Stop` a process that ends anywhere and starts
again, perhaps as a later build with another pin.

**MC...** modules define the values that a configuration cannot write, and symmetry.
**...Proofs** modules hold the theorems.

## 3. Runs

| Run | Configuration | Bounds and why they are enough |
| --- | --- | --- |
| `manager` | MCManager | three threads, two models, two engines: one thread swaps, one waits to swap, one infers; a third would be another waiter. Two engines are one alive and one being built, which is what must not happen. |
| `manager_ready`, `manager_error` | MCManagerReady, MCManagerError | two threads; counterexamples |
| `fetcher` | MCFetcher | one process, a model of two files, with and without a declared size; two restarts or power losses and one file replaced or removed, at any time; every registry entry of that model. Two files have a stop between them; a second stop meets what the first one left. |
| `server` | MCServer | four peers, a cap of two, a backlog of two: full slots, a refusal and a queue at once |
| `exchange` | MCExchange | four calls with a payload, queues of two datagrams and buffers of one or two: a request of three does not fit at once, nor, in the smaller, an answer of two, so that both sides can block in a send; in the larger a whole late answer can lie in wait. A call, its retirement and two calls after it. |
| `store` | MCStore | two predictions, two answers, one version, three stops, each a crash or a failure while opening, one damaged line; ids and answers are symmetric. Three stops: in an append, while recovering from it, and while recovering from that. |
| `store_rules` | MCStoreRules | two versions, one crash; counterexample |
| `handlers` | MCHandlers | three requests of any kind over a store with two predictions (one unreadable under today's rules) and two versions (one unusable), pages of two. Three requests are one that is in the middle and two that follow each other around it. |
| `text` | MCTextRequest | some thousand requests, each alone: texts of one to three inputs around the limits of the models, the faults of a body in pairs, question lists on which the two sides of /decide could differ (0 to 4 questions against a maximum of 3, 0 to 4 options, every type and range) and questions long enough for two cuts. A decision is made of numbers in the unit, has a confidence below it, or is lost; one model has no revision. Twenty-two configurations, fourteen of which their engine refuses. A deadline of 1, a delay of 1 on the way and a patience of 3 keep the order of the code's 100 s and 120 s. |
| `port` | MCPort | four peers, three slots, two admissions: a peer is refused while one is in the model, one waits for the lock and one is idle |
| `labels` | MCRecKeys | two pins, two stops; counterexample |

The longest batch is 17 s (max_batch_tokens 2048 at the 8.3 ms a token of decide.py:26), so a batch
begun at the deadline still ends before the 120 s of INFERENCES_TIMEOUT; `NoBatchForTheGone` is about
the beginning of a batch, and the clock of `text` stops at `MaxClock`, past the caller's patience.

What the passing runs show:

- `manager`: `MemoryBudget`, `ServedByTheModelItNames`, `FieldsAgree`, `FetchBeforeEvict` (action
  property), `KeepsPromise` (refinement), and, with fairness, `OnlyOvertakingStarves`: each lock comes free again and again (`LocksComeFree`), so
  that a call is held up for ever only at one lock that others take again and again, since Python's
  locks have no order. A thread that kept a lock, or two that waited for each other, would break it.
- `fetcher`: `PinnedWhenEnsured` whatever was on disk and wherever an attempt was stopped, but for
  what was put there during the call, or once between a hash and its `_remember`;
  `OnlyTheEndpointFails` (a leftover never blocks a load); `GoodFilesStay`;
  `CallsEnd` (`_fetch_lock` is not kept by a retry).
- `server`: `SlotsConserved`; `NobodyWaitsForEver` and `StopEndsTheServer`, unless a refused peer never
  stops sending (`HeldBySender`): the drain of `refuse` has a timeout for each recv and none for the
  whole, and a stop does not reach it.
- `exchange`: `HandledWhole`, `KeepsAtMostOnce` (refinement), `ReceiverLetsGo` (of a peer that left, and of
  one that stays and sends or reads no more).
- `store`: `AcknowledgedSurvives`, `QuarantinedSeenIsOnDisk`, `BadLinesAreSetAside`
  (none is dropped, and an Open is refused for a line of the rules or because the disk failed it, never
  for what another line says),
  `NothingDangles`.
- `handlers`: `RetiredStaysRetired` (a decision that overlaps a retirement may be written, one that
  arrives after its answer never), `CorrectedOnce`, `PageShowsWhatWasTold`, `OutcomesAddUp`,
  `OneEvaluation`.
- `text`: `BatchesFit`; `AnswersItsInput`; `LimitsAreKept` (a text is cut only when allowed, and /info
  told the limits that the request then met); `ContractHolds` (the two sides of /decide refuse the same
  questions at the same path; of the replies ParseReply reads exactly those that name a revision and
  hold numbers in [0, 1], which the code does not always send; and what is read is what was
  decided); `NoBatchForTheGone`: however long the request waited for the lock, since the deadline is
  set on arrival (decide.py:64), given the order of the three times in the configuration
  (`TimesAssumption`).
- `port`: `Conserved`; `PortStaysOpen`: a model that is busy or being loaded for ever leaves a slot
  free again and again, or gives its peer an answer, since Admission keeps fewer requests waiting
  than the port has connections. It says nothing of peers that go on asking, or that stay idle
  until their timeout, one after the other.

Deadlock is not checked where the modelled actors may all come to rest: a server that has
exited, a connection that is closed, a store without calls left, requests all answered. It is
checked in `manager`, `fetcher` and `port`, whose callers always may call again.

## 4. Fairness

- manager: `WF(Step(t))`. A fetch, a build and an inference end (the fetcher's downloads have a
  timeout and a ceiling of bytes), a thread that holds no lock back runs on. Nothing is assumed
  of calls being made, nor of the order in which waiters get a lock: `threading.Lock` promises
  none, which is why starvation is stated as `OnlyOvertakingStarves`.
- fetcher: `WF(FetchStep(p))`: system calls return, and a read from the endpoint answers or times
  out (fetcher.py:31, 157). The choice among the answers is not fair.
- server: weak fairness for every step of the main thread and for each connection thread. An
  accept has something to return or, once the socket was shut down, to raise; a conversation ends
  (`ReceiverLetsGo` is why). One recv of a drain returns (`WF(DrainMore \/ Drained)`); that the drain ends
  is not assumed, and the two properties except a peer that keeps it going. Signals, new connections
  and what a refused peer sends are not fair.
- exchange: `WF(ReceiverStep)`: the thread runs, the handler returns and every wait has a timeout.
  The requester may stop for ever at any point.
- port: weak fairness for the accept loop and for what a connection's thread does without the
  manager's lock: reads and writes have a timeout (metrics.py:35, 322-327) and a body has a bound.
  Nothing is assumed of the lock: `TakeLock`, `Work` and `DipReturns` may never happen.

The store, the handlers and a text request have safety properties only.

## 5. Proofs

**ModelManagerProofs** (any set of threads, models and engines, under `NullAssumption`): `TypeCorrect`,
`MemoryBudgetHolds`, `ServedByTheModelItNamesHolds`, `FieldsAgreeHolds`, `FetchBeforeEvictHolds`,
`ManagerKeepsPromise`. None of the properties is
inductive alone. The invariant is `IInv`:

- `Locking`: the holder of `_lock` is where `_lock` is held, and nobody else is there;
- `Fetching`: the same for `_fetch_lock`, and `loading` is what its holder fetches;
- `Subject`: what a thread's call is about, a model for a load, and that its files are on disk
  once its fetch is over;
- `Swap`: for each place inside a swap, which engines are alive and whether `_engine` and
  `_resident` are set. This is the part the code keeps in its order of statements.

`StepIInv` has a step per action. The refinement is `StepKeepsPromise`: releasing an engine is
`Evict`, a build is `Install`, an inference is `Serve` and `Answer`, and every other step stutters.

**SocketServerProofs** (any connections, cap and backlog, under `ServerAssumption`):
`ServerTypeCorrect` and `SlotsConservedHolds`. `IInv` is `TypeOK` with `OneInHand` (the main thread
holds a connection nobody else has), `BacklogWaits` (the backlog has each waiting connection
once) and `Conserved` (the holders are finitely many, and with the free slots they are the cap).
The type of `slots` rests on `Conserved`: only a count of the holders bounds it, so the two are
proved together, with lemmas on the cardinality of a set that gains or loses one member.

**WorkerPortProofs** (any peers, cap and limit, under `PortAssumption`): `PortTypeCorrect` and
`PortConserved`. As for the server the type of the two counts rests on who holds them, so `IInv` is
`TypeOK`, `Conserved` and `Counted`, that the holders are finitely many. `Moved` says what a
connection that goes from one state to another does to the size of a set of holders; the steps
then fall into those that touch neither count, one count, or the lock. That `MaxConcurrent` is
below `MaxScrapes` is needed for `PortStaysOpen` only and is an assumption of its own.

**DecisionStoreProofs** (any ids, answers and bounds, under `StoreAssumption`): `StoreTypeCorrect`,
`AcknowledgedSurvivesHolds`, `QuarantinedSeenIsOnDiskHolds`, `BadLinesAreSetAsideHolds` and
`NothingDanglesHolds`, all from `StoreInvariant`. The properties are about an open store; what makes
them inductive is about the files, whoever has them open, and about every point of a replay:

- `Ledger`: what the whole lines on disk say. Templates are numbered in order, records name
  versions that exist, an id has one prediction and one correction, a correction has a prediction
  (or damage took it), and what was acknowledged is on its line. A template or retirement file with
  a spoilt line promises nothing, since no Open accepts it again.
- `Memory`: what memory has of the lines replayed so far (`Replayed`), in both directions: each line
  is in memory, and memory has nothing else, in an Open that has not failed yet: one that has will be
  refused, and what it left out does not matter. An append in flight fits both; a file that was passed
  ends its last line; a line that is in no map is in the sidecar or in `keeping`.

The steps that change `disk` come with lemmas on what a torn, whole or cut line does to the pieces
of a file: only the last line can change, and a whole record is added on a line of its own exactly
when the file ended its line.

**DecisionHandlersProofs** (any requests, store at the start and page size, under
`HandlersAssumption`): `HandlersTypeCorrect`, `RetiredStaysRetiredHolds`, `CorrectedOnceHolds`,
`PageShowsWhatWasToldHolds`, `OneEvaluationHolds` and `OutcomesAddUpHolds`. In `HandlersInvariant`,

- `Written`: a prediction is in `order` exactly from its append on, and once;
- `RetirementSeen`: a decision that came after the answer to a retirement is not past the look at its
  template, or is refused;
- `CorrectionStands`: a correction recorded is that of one request, before it is shown and after;
- `Pages` and `TruthTold`: what anybody was told agrees with the store and goes on doing so, and a
  listing under way is a window of `order` as it was, whose entries up to now agree with the store
  too, although a correction may be written between two of them. `PageShowsWhatWasToldHolds` then
  finds each entry on the page or every entry of the page newer.

`OutcomesAddUp` has two halves. That "ok" counts the predictions written is part of `IInv` (`Counts`).
That the sum of the outcomes is between the decisions that count one for sure and those that may is
inductive beside `IInv`: a step counts one outcome for a decision it ends, or ends none that must be
counted (`CountsOneOrNone`), and who raises one outcome by one raises the sum by one
(`SumOfOneRaised`). A sum is a fold over a finite set; that it has a value and what it does is an
induction over the sizes of sets and over sets that lose one member (`SumIsDefined`, `SetsByOne`).

**DipExchangeProofs** (any number of calls and any buffer, with a payload or without, under
`ExchangeAssumption`): `ExchangeTypeCorrect` for both requesters, and with `RetireOnFailure`, which
is the Go one, `HandledWholeHolds`, `AnswersTheCallHolds` and the refinement
`ExchangeKeepsAtMostOnce`. `General` is what holds anyhow. `Aligned` is what retirement adds: while the
receiver goes on reading, what it has of a message, what is on the wire and what the requester has
still to send are one request cut in three (`UpAt`), and in the other direction they are cut from the
script "the answer to the call, then a refusal" (`DownAt`), without the answer unless the call is the
one that waits. A timeout breaks the alignment and retires the connection in the same step. In the
refinement only the step that completes a request is a `Handle`; the end of a call is `Answered` or
`Failed`, and everything else stutters.

**FetcherProofs** (any files in any order, under `FetcherAssumption`): `FetcherTypeCorrect` for any
processes, and for one that has its directory to itself (`Alone`) `PinnedWhenEnsuredHolds`,
`OnlyTheEndpointFailsHolds` and the action property `GoodFilesStayHolds`. The invariant `Sound` has
`FilesApart` and `WritesApart` (no two names share an object, and none that is written is in place),
`Dated` and `Remembered` (a file whose time is the remembered one has the pinned bytes, or is one the
process was misled about) and `Knows` (what the process knows of the file in hand and of those before
it at each point of the loop; since a file can be replaced at any time, that is what it holds unless
somebody replaced or removed it: `Trusted` of the file just hashed, `InPlace` of those before). That there is
always a spare object to write to and a time that nobody remembers is counted, from the assumption's
sizes. `Alone` is needed: with two processes the theorems are false (section 6).

**TextRequestProofs** (any registry of models, requests, deadline and patience, any spelling of
numbers and blanks, under the assumptions of DecideContract and TextRequest on their constants): `TypeCorrect`, `EveryBatchFits`, `EveryInputAnswered`, `LimitsKept`, `ContractKept` and
`NoBatchStartsLate`, all from `Invariance`. It goes from the operators to the steps:

- The contract: `ContractAgrees`, that `CheckQuestions` passes a list exactly when `parse_decide`
  does, and otherwise names the path at which the worker refuses; and `ReplyIsRead`, that `ParseReply`
  reads a reply exactly when it names a revision and its decisions are numbers in the unit, and that
  each option then has its own probability, also where a noul lists its options as true and false.
  Nothing is assumed of the decisions. They rest on `SameFault`, one question at a time,
  `LabelsAreOptions` and `FoundByName`. The bound on the number of questions is the same constant on
  both sides; in `text` it is checked.
- Numbers and folds: totals, orders and batches are folds over a sequence. `Induction` is stated with
  the set of the numbers for which a statement holds, since the provers instantiate no operator;
  `FoldIsDefined` and `FoldingRuns` then say that a fold has a value and goes one element at a time,
  and `SumsAre`, `TotalCompares` and those after them what that makes of totals.
- `DescendingSorts`: `Descending` has each index once, greater values first, equal ones in the order of
  their indexes. `PlanFits`: the batches of `PlanBatches` have each sequence once, and, where no sequence
  alone is over the ceiling, none costs more than it; `PlaceKeeps` has this of one more sequence placed
  (`Fits`, `NoLonger`, `OneMore`). `LengthsFit`: no sequence is longer than the engine's positions.
- `IInv`, with the type: `JobFitsStage`, that the batches are the plan of the request's own lengths
  on the model it holds, and that the results of the batches done are those of their inputs; `TimesFit`, the clock
  against the deadline; `CutsAsAsked`, that nothing is cut unless the caller or the model asked for it;
  `ToldTheTruth`, that what /health and /info told still holds of the resident model; `AcceptedFirst`, that questions
  past `Parse` are accepted ones; and `Replied`, that an answer is right. `NextKeeps`
  has a lemma per action; refusals share `RefusalAnswers`, `RefusalContract` and `RefusalHonours`.

Only model-checked, and why: every liveness property (`OnlyOvertakingStarves`, `NobodyWaitsForEver`,
`StopEndsTheServer`, `ReceiverLetsGo`, `CallsEnd`, `PortStaysOpen`), which the provers do not reach.

## 6. What the models found

The four violations are shown by runs of their own (`findings` in PROJECT.json has the details,
with the line that the code contradicts):

1. `manager_ready`: an error left by a load whose fetch failed beside a resident model makes
   readyz fail during the next load, although "a cold load does not make readyz false".
2. `manager_error`: the late `_last_error = None` of a load that succeeded erases the failure of a
   swap that came after it, so an empty worker passes readyz.
3. `store_rules`: replay accepts a last template line without newline and does not end it; the next
   template lands on the same line and the next Open refuses the store.
4. `labels`: rec_keys.txt is written in place, and a load takes the file that exists for whole. A
   write that fails, a process that stops, or a later pin of the yml leaves the recogniser with
   labels that are not those of the pinned yml.

Two more are a change of a constant away. With `RetireOnFailure = FALSE` in MCExchange, the requester
is the Python one, and TLC finds `AnswersTheCall` violated: a late answer is taken for that of the
next call (only the one-shot probe uses that requester today). With `Processes` of two in MCFetcher
(and the `Objects` and `Mtimes` that its assumption then asks for), TLC finds `PinnedWhenEnsured` violated: two processes over one models directory share a `.part`, and
one can put in place a file that the other has just emptied (a worker has its directory to itself;
the make targets of inferences-system-one share one).

Noticed while reading, and in no run:

- manager.py:103: a load of the resident model returns early and leaves an older `_last_error`.
- metrics.py:92-93, 110-121: `evicted` sets `last_model` under the manager's lock and `loaded` after it,
  so a load can overwrite what a later eviction recorded.
- embedding and reranker tei.py:22-23: "Below the port's eight connections, so a scrape or /info always
  has one to use." Idle keep-alive connections hold slots as well, for up to ten seconds each.
- reranker tei.py:133-137: `auto_truncate` is read before the lock is got. A request may be cut, or
  refused as too long, by the rule of a model that did not run it. The code does that, so `LimitsAreKept`
  allows for it; it does not say that it is right.
- decide.py:57-71: the deadline bounds the work in the encoder. The one admission of /decide can be held
  by a caller that has gone, for as long as it waits for the manager's lock.
- decide.py:108-109: the revision of a model without files is "", which ParseReply refuses (worker.go:135-180):
  every decision of such a model is of no use. `ContractHolds` says so.
- decision.py:112-118: the confidence of uniform probabilities over 5, 12, 13 or 18 options comes out a few
  1e-16 below zero, and `unit` in worker.go admits nothing below zero: the model answers 200, and the
  orchestrator has no use for the answer (`Confidences`, `ContractHolds`).
- decide.py:75-87: nothing checks that the numbers of the graph are numbers. A NaN is answered with 200,
  in a body that is not JSON (`Decisions`); the other two check and refuse
  (embedding tei.py:39, reranker tei.py:111).
- worker.go:73-95 and decide.py:159-181: Python's float() reads spellings that Go's ParseFloat does not, and
  the reverse; str.isspace counts U+001C to U+001F, unicode.IsSpace does not. `Value` and `Blank` are the
  same on both sides of the model, so `ContractAgrees` is about plain spellings.
- receiver.py:33-34, 110-113: "How long to let a refused peer read its answer" is the timeout of one recv;
  nothing bounds the loop. Since a refusal is drained on the accept loop (server.py:168-172), a refused
  peer that keeps sending keeps everybody waiting, also after a stop, which shuts the listening
  socket down and not this one. The two liveness properties of `server` except it (`HeldBySender`).
- server.py:225-238: a peer can be refused while fewer than the cap are open, since a socket closes
  before its slot is given back.
- server.py:159-164: an accept that raises for want of descriptors ends the server.
- fetcher.py:128-133: an `HTTPException`, as of a chunked body that ends early, is neither a URLError
  nor an OSError: the `.part` stays (`BreaksOff`). The next attempt overwrites it.
- fetcher.py:146 and store.go:264: a rename and a truncation that are not synced. The models allow
  for the first; for the second a crash is taken to keep the cut. A line that was written and not synced
  when the process was killed is taken to stay: that a later start reads it and a power cut then takes it
  is not modelled.
- quarantine.go:44-48: a sidecar torn by a crash gets the same line again, as its comment says.
- store.go:155: the readers of all files run although one failed, so corrections are judged against
  predictions that were not read, and their lines are copied to the sidecar. Open fails then in any
  case, and the lines stay where they are (`FileFails`).
- fetcher.py:169-170, 180: "any rewrite of the file forces a fresh hash" does not hold of one between the
  hash and `_remember`, which looks at the file again: the time of the new file is remembered, and it is
  taken for the hashed one until it is written again. `PinnedWhenEnsured` excepts it (`misled`).
- store.go:113-115: the comment of Open still says that a damaged file is refused; predictions,
  corrections and evaluations are quarantined.

## 7. What is not modelled

- Evaluations in the store: set aside like predictions, and nothing refers to them.
- The JSON of control blocks, hellos and bodies; formatting, logging and the text of metrics.
- The registry, read once at start; the engines, which are numeric and serialised by the manager.
- What the graphs and the decision head compute: a score is one of two values or not a number, and a decision
  one of a few distributions. Pooling, normalisation, temperatures and entropies are arithmetic on floats.
- `Evaluate`: arithmetic over rows; rows are scored or refused.
- The counters and gauges of metrics.py, and the op table of server.py:46-129, which forwards.
- The gateway: a reverse proxy; its timeout is `Patience`, its error classes are in DecisionHandlers.
- More than one text request at a time: they meet in Admission and in the manager's lock, which
  WorkerPort and ModelManager have; a request that got the lock sees nobody else until it leaves.
- The dashboard, apart from the verdict of `fleet.ts`, a candidate for a pure operator.
- Several template names: they share nothing but the files, where order does not matter across names.
- Clocks: a timeout may fire whenever its wait lasts.

## 8. What is next

Done, in this order: Residency and ModelManager with their proofs; SocketServer with its proofs;
AtMostOnce and DipExchange; DecisionStore; DecisionHandlers; Fetcher; DecideContract,
TextInference and TextRequest; WorkerPort with its proofs; RecKeys; the proofs of DecisionStore,
DecisionHandlers, DipExchange, Fetcher and TextRequest.

What is worth adding:

1. The gauges of the metrics as steps of ModelManager (`last_model`).
2. ValidateDraft and Evaluate as operators against reference definitions; the verdict of `fleet.ts`.
