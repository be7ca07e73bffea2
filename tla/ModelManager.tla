----------------------------- MODULE ModelManager -----------------------------
(***************************************************************************)
(* The one-model-at-a-time manager of a worker                             *)
(* (packages/pylibs/worker/src/worker/manager.py) under concurrent calls.  *)
(*                                                                         *)
(* A thread is a connection thread of the socket server, or the main       *)
(* thread: it makes one call at a time.  A step is what the code does      *)
(* between two points where another thread can tell the difference: a lock *)
(* taken or given back, or a write that lock-free readers see.             *)
(***************************************************************************)
EXTENDS FiniteSets

CONSTANTS
    Threads,    \* the threads that call the manager
    Models,     \* the model ids of the registry
    Engines,    \* identities of engine objects, reused once an engine is closed
    NoThread, NoModel, NoEngine

ASSUME NullAssumption ==
    /\ NoThread \notin Threads
    /\ NoModel \notin Models
    /\ NoEngine \notin Engines

VARIABLES
    lock,       \* holder of _lock, or NoThread
    fetchLock,  \* holder of _fetch_lock, or NoThread
    engine,     \* _engine
    resident,   \* the spec id of _resident
    loading,    \* _loading
    lastError,  \* _last_error: the model whose load failed, or NoModel for None
    built,      \* built[e]: the model e was built from, NoModel once e is closed
    onDisk,     \* the models whose files a fetch has completed
    pc,         \* where each thread is
    model,      \* the model id a thread's call is about; NoModel in an unload
    using       \* the engine a thread's inference runs in

vars == <<lock, fetchLock, engine, resident, loading, lastError, built, onDisk,
          pc, model, using>>

\* What a call changes only by taking part in it, as opposed to the shared state.
shared == <<engine, resident, loading, lastError, built, onDisk>>

\* Where a thread is while it holds _lock, and where it is while it does not.
LockedPCs == {"releasing", "dropping", "clearing", "building", "running"}
PCs == {"idle", "fetchWait", "fetching", "swapWait", "built", "loadFailed",
        "inferWait"} \cup LockedPCs

-------------------------------------------------------------------------------
Init ==
    /\ lock = NoThread /\ fetchLock = NoThread
    /\ engine = NoEngine /\ resident = NoModel
    /\ loading = NoModel /\ lastError = NoModel
    /\ built = [e \in Engines |-> NoModel]
    /\ onDisk = {}
    /\ pc = [t \in Threads |-> "idle"]
    /\ model = [t \in Threads |-> NoModel]
    /\ using = [t \in Threads |-> NoEngine]

Goto(t, label) == pc' = [pc EXCEPT ![t] = label]

\* The call returns or raises.
Return(t) ==
    /\ Goto(t, "idle")
    /\ model' = [model EXCEPT ![t] = NoModel]

\* What a bug would do instead: load() evicts first and fetches when the slot is empty.
LoadWithoutFetching(t, m) ==
    /\ pc[t] = "idle"
    /\ resident # m
    /\ Goto(t, "swapWait")
    /\ model' = [model EXCEPT ![t] = m]
    /\ UNCHANGED <<lock, fetchLock, using, shared>>

(***************************************************************************)
(* load(), up to the fetch.  The first look at _resident takes no lock; an *)
(* id the registry does not know is refused before it and changes nothing. *)
(***************************************************************************)
CallLoad(t, m) ==
    /\ pc[t] = "idle"
    /\ resident # m
    /\ Goto(t, "fetchWait")
    /\ model' = [model EXCEPT ![t] = m]
    /\ UNCHANGED <<lock, fetchLock, using, shared>>

BeginFetch(t) ==
    /\ pc[t] = "fetchWait"
    /\ fetchLock = NoThread
    /\ fetchLock' = t
    /\ loading' = model[t]
    /\ Goto(t, "fetching")
    /\ UNCHANGED <<lock, engine, resident, lastError, built, onDisk, model, using>>

\* ensure_model returns: the files are there, from now on or from an earlier fetch.
FetchDone(t) ==
    /\ pc[t] = "fetching"
    /\ loading' = NoModel
    /\ fetchLock' = NoThread
    /\ onDisk' = onDisk \cup {model[t]}
    /\ Goto(t, "swapWait")
    /\ UNCHANGED <<lock, engine, resident, lastError, built, model, using>>

\* ensure_model raises: the network, the disk, or bytes that are not the pinned ones.
FetchFails(t) ==
    /\ pc[t] = "fetching"
    /\ loading' = NoModel
    /\ fetchLock' = NoThread
    /\ Goto(t, "loadFailed")
    /\ UNCHANGED <<lock, engine, resident, lastError, built, onDisk, model, using>>

\* The except clause of load(): the failure is recorded with no lock held.
RecordFailure(t) ==
    /\ pc[t] = "loadFailed"
    /\ lastError' = model[t]
    /\ Return(t)
    /\ UNCHANGED <<lock, fetchLock, engine, resident, loading, built, onDisk, using>>

-------------------------------------------------------------------------------
\* What a bug would do instead: unload() goes through the fetch like a load.
UnloadFetches(t) ==
    /\ pc[t] = "idle"
    /\ Goto(t, "fetchWait")
    /\ UNCHANGED <<lock, fetchLock, model, using, shared>>

(***************************************************************************)
(* The swap, under _lock.  An unload is a swap to nothing: it takes the    *)
(* same steps with NoModel, and never finds itself already done.           *)
(***************************************************************************)
CallUnload(t) ==
    /\ pc[t] = "idle"
    /\ Goto(t, "swapWait")
    /\ UNCHANGED <<lock, fetchLock, model, using, shared>>

\* Another load of the same model got here first; _last_error stays as it is.
AlreadyResident(t) ==
    /\ pc[t] = "swapWait"
    /\ lock = NoThread
    /\ model[t] # NoModel
    /\ resident = model[t]
    /\ Return(t)
    /\ UNCHANGED <<lock, fetchLock, using, shared>>

\* What a bug would do instead: construct the new engine before closing the old one.
SwapInPlace(t) ==
    /\ pc[t] = "swapWait"
    /\ lock = NoThread
    /\ model[t] = NoModel \/ resident # model[t]
    /\ lock' = t
    /\ Goto(t, IF model[t] = NoModel THEN "releasing" ELSE "building")
    /\ UNCHANGED <<fetchLock, model, using, shared>>

\* What a bug would do instead: swap without waiting for the inference that runs.
SwapUnlocked(t) ==
    /\ pc[t] = "swapWait"
    /\ model[t] = NoModel \/ resident # model[t]
    /\ lock' = t
    /\ Goto(t, "releasing")
    /\ UNCHANGED <<fetchLock, model, using, shared>>

BeginSwap(t) ==
    /\ pc[t] = "swapWait"
    /\ lock = NoThread
    /\ model[t] = NoModel \/ resident # model[t]
    /\ lock' = t
    /\ Goto(t, "releasing")
    /\ UNCHANGED <<fetchLock, model, using, shared>>

\* engine.close(), if there is an engine; what it raises is swallowed.
CloseEngine(t) ==
    /\ pc[t] = "releasing"
    /\ built' = [e \in Engines |-> IF e = engine THEN NoModel ELSE built[e]]
    /\ Goto(t, "dropping")
    /\ UNCHANGED <<lock, fetchLock, engine, resident, loading, lastError, onDisk,
                   model, using>>

\* What a bug would do instead: _release forgets _resident.
DropEngineOnly(t) ==
    /\ pc[t] = "dropping"
    /\ engine' = NoEngine
    /\ Goto(t, IF model[t] = NoModel THEN "clearing" ELSE "building")
    /\ UNCHANGED <<lock, fetchLock, resident, loading, lastError, built, onDisk, model,
                   using>>

DropEngine(t) ==
    /\ pc[t] = "dropping"
    /\ engine' = NoEngine
    /\ resident' = NoModel
    /\ Goto(t, IF model[t] = NoModel THEN "clearing" ELSE "building")
    /\ UNCHANGED <<lock, fetchLock, loading, lastError, built, onDisk, model, using>>

\* The end of unload().
ClearOnUnload(t) ==
    /\ pc[t] = "clearing"
    /\ lastError' = NoModel
    /\ lock' = NoThread
    /\ Return(t)
    /\ UNCHANGED <<fetchLock, engine, resident, loading, built, onDisk, using>>

BuildDone(t) ==
    /\ pc[t] = "building"
    /\ \E e \in Engines :
         /\ built[e] = NoModel
         /\ built' = [built EXCEPT ![e] = model[t]]
         /\ engine' = e
    /\ resident' = model[t]
    /\ lock' = NoThread
    /\ Goto(t, "built")
    /\ UNCHANGED <<fetchLock, loading, lastError, onDisk, model, using>>

\* What a bug would do instead: try again under _lock until the factory answers.
BuildAgain(t) ==
    /\ pc[t] = "building"
    /\ Goto(t, "releasing")
    /\ UNCHANGED <<lock, fetchLock, model, using, shared>>

\* The factory raises: the old engine is gone and nothing takes its place.
BuildFails(t) ==
    /\ pc[t] = "building"
    /\ lock' = NoThread
    /\ Goto(t, "loadFailed")
    /\ UNCHANGED <<fetchLock, engine, resident, loading, lastError, built, onDisk,
                   model, using>>

\* The success is recorded after _lock is given back.
ClearOnLoad(t) ==
    /\ pc[t] = "built"
    /\ lastError' = NoModel
    /\ Return(t)
    /\ UNCHANGED <<lock, fetchLock, engine, resident, loading, built, onDisk, using>>

-------------------------------------------------------------------------------
(***************************************************************************)
(* infer() and run(): the whole inference is under _lock.                  *)
(***************************************************************************)
CallInfer(t) ==
    /\ pc[t] = "idle"
    /\ Goto(t, "inferWait")
    /\ UNCHANGED <<lock, fetchLock, model, using, shared>>

NoModelLoaded(t) ==
    /\ pc[t] = "inferWait"
    /\ lock = NoThread
    /\ engine = NoEngine \/ resident = NoModel
    /\ Return(t)
    /\ UNCHANGED <<lock, fetchLock, using, shared>>

\* What a bug would do instead: copy the engine under the lock and infer outside it.
InferUnlocked(t) ==
    /\ pc[t] = "inferWait"
    /\ lock = NoThread
    /\ engine # NoEngine /\ resident # NoModel
    /\ using' = [using EXCEPT ![t] = engine]
    /\ model' = [model EXCEPT ![t] = resident]
    /\ Goto(t, "running")
    /\ UNCHANGED <<lock, fetchLock, shared>>

BeginInfer(t) ==
    /\ pc[t] = "inferWait"
    /\ lock = NoThread
    /\ engine # NoEngine /\ resident # NoModel
    /\ lock' = t
    /\ using' = [using EXCEPT ![t] = engine]
    /\ model' = [model EXCEPT ![t] = resident]
    /\ Goto(t, "running")
    /\ UNCHANGED <<fetchLock, shared>>

\* The engine answered or raised; either way the with block ends.
EndInfer(t) ==
    /\ pc[t] = "running"
    /\ lock' = NoThread
    /\ using' = [using EXCEPT ![t] = NoEngine]
    /\ Return(t)
    /\ UNCHANGED <<fetchLock, shared>>

-------------------------------------------------------------------------------
Call(t) ==
    \/ \E m \in Models : CallLoad(t, m)
    \/ CallUnload(t)
    \/ CallInfer(t)

Step(t) ==
    \/ BeginFetch(t) \/ FetchDone(t) \/ FetchFails(t) \/ RecordFailure(t)
    \/ AlreadyResident(t) \/ BeginSwap(t) \/ CloseEngine(t) \/ DropEngine(t)
    \/ ClearOnUnload(t) \/ BuildDone(t) \/ BuildFails(t) \/ ClearOnLoad(t)
    \/ NoModelLoaded(t) \/ BeginInfer(t) \/ EndInfer(t)

Next == \E t \in Threads : Call(t) \/ Step(t)

Spec == Init /\ [][Next]_vars

\* A call that has begun keeps running: a fetch, a build and an inference end.
Fairness == \A t \in Threads : WF_vars(Step(t))

FairSpec == Spec /\ Fairness
-------------------------------------------------------------------------------
\* Every variable keeps to its domain (manager.py:33-58).
TypeOK ==
    /\ lock \in Threads \cup {NoThread}
    /\ fetchLock \in Threads \cup {NoThread}
    /\ engine \in Engines \cup {NoEngine}
    /\ resident \in Models \cup {NoModel}
    /\ loading \in Models \cup {NoModel}
    /\ lastError \in Models \cup {NoModel}
    /\ built \in [Engines -> Models \cup {NoModel}]
    /\ onDisk \in SUBSET Models
    /\ pc \in [Threads -> PCs]
    /\ model \in [Threads -> Models \cup {NoModel}]
    /\ using \in [Threads -> Engines \cup {NoEngine}]

Alive == {e \in Engines : built[e] # NoModel}

\* The memory budget is the largest single model, not the sum: no two engines are
\* alive at once, and none is alive while another is being constructed
\* (manager.py:3-5).
MemoryBudget ==
    /\ \A e, f \in Alive : e = f
    /\ (\E t \in Threads : pc[t] = "building") => Alive = {}

\* An inference runs in an engine that has not been closed, that is the resident
\* one for as long as it runs, and that was built from the model its answer will
\* name (manager.py:174-190), however many swaps are waiting.
ServedByTheModelItNames ==
    \A t \in Threads : pc[t] = "running" =>
        /\ using[t] \in Alive
        /\ using[t] = engine
        /\ built[using[t]] = model[t]
        /\ resident = model[t]

\* Outside a swap the pair that infer reads agrees: both set or both None, and the
\* id is that of the engine (manager.py:53-54, 134-140, 204-215).
ResidentIsTheEngine ==
    lock = NoThread =>
        /\ engine = NoEngine <=> resident = NoModel
        /\ engine # NoEngine => built[engine] = resident

\* What `loading` tells a lock-free reader is true: some thread holds _fetch_lock
\* and is fetching that model, and holds nothing else (manager.py:48-50, 117-122).
LoadingIsTrue ==
    /\ loading # NoModel =>
         \E t \in Threads : fetchLock = t /\ lock # t
                           /\ pc[t] = "fetching" /\ model[t] = loading
    /\ loading = NoModel => fetchLock = NoThread

\* The fields that are written one after the other, read together, never contradict
\* each other or the threads: ResidentIsTheEngine and LoadingIsTrue (manager.py:45-54).
FieldsAgree == ResidentIsTheEngine /\ LoadingIsTrue

\* A working model is only given up by an unload, or by a load whose files are
\* already on disk, so a fetch that fails evicts nothing (manager.py:7-8, 114-116).
FetchBeforeEvict ==
    [][resident # NoModel /\ resident' # resident =>
         \E t \in Threads : lock = t /\ (model[t] = NoModel \/ model[t] \in onDisk)]_vars

\* Neither lock is ever kept, by a thread that raises or by two that wait for each
\* other (manager.py:116-131, 145-190).
LocksComeFree == []<>(lock = NoThread) /\ []<>(fetchLock = NoThread)

\* Python's locks promise no order among waiters, so a call may be overtaken.  That is
\* all that can hold it up for ever: it waits for one lock, which is given back again
\* and again, and again and again is taken by others (manager.py:99-190).
OnlyOvertakingStarves ==
    /\ LocksComeFree
    /\ \A t \in Threads : <>[](pc[t] # "idle") =>
         \/ <>[](pc[t] = "fetchWait") /\ []<>(fetchLock # NoThread)
         \/ <>[](pc[t] \in {"swapWait", "inferWait"}) /\ []<>(lock # NoThread)

\* The promise of Residency: the model in memory is the one the engine object holds,
\* and a thread is served while its inference runs.
Promise == INSTANCE Residency WITH
    resident <- IF engine = NoEngine THEN NoModel ELSE built[engine],
    serving  <- [t \in Threads |-> IF pc[t] = "running" THEN model[t] ELSE NoModel]

KeepsPromise == Promise!Spec

-------------------------------------------------------------------------------
\* The verdict of readyz that depends on the manager (health.py:58-60).
Ready == lastError = NoModel \/ resident # NoModel

\* "A cold load does not make readyz false": what a load does, short of failing,
\* never turns the probe (docs/protocol/[1]dip-specification.md:149).
ColdLoadKeepsReady ==
    [][Ready /\ ~Ready' =>
         \E t \in Threads : pc[t] = "loadFailed" \/ (lock = t /\ model[t] = NoModel)]_vars
===============================================================================
