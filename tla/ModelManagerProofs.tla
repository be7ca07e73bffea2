-------------------------- MODULE ModelManagerProofs --------------------------
(***************************************************************************)
(* Proofs about ModelManager, for any number of threads, models and engine *)
(* identities.                                                             *)
(*                                                                         *)
(* The invariant IInv says who holds which lock at each point of a call    *)
(* (Locking), what the call is about there (Subject), and how the engine   *)
(* object, _resident and the threads inside the lock fit together (Swap).  *)
(* None of the checked invariants is inductive without the three.          *)
(***************************************************************************)
EXTENDS ModelManager, TLAPS

\* A lock's holder is exactly the thread that is at a point inside it.
Locking ==
    \A t \in Threads :
        /\ lock = t <=> pc[t] \in LockedPCs
        /\ fetchLock = t <=> pc[t] = "fetching"

\* What `loading` says is the model of the thread that is fetching.
Fetching ==
    /\ fetchLock = NoThread => loading = NoModel
    /\ \A t \in Threads : pc[t] = "fetching" => loading = model[t]

\* Which points of a call know a model, and from where on its files are there.
Subject ==
    \A t \in Threads :
        /\ pc[t] \in {"fetchWait", "fetching", "building", "built", "loadFailed"}
             => model[t] # NoModel
        /\ pc[t] \in {"idle", "inferWait", "clearing"} => model[t] = NoModel
        /\ pc[t] \in {"swapWait", "releasing", "dropping", "building"}
             => model[t] = NoModel \/ model[t] \in onDisk

\* The engine object is the only one alive, and it is closed only on its way out.
Swap ==
    /\ \A e \in Engines : built[e] # NoModel => e = engine
    /\ engine = NoEngine <=> resident = NoModel
    /\ engine # NoEngine =>
         built[engine] = IF \E t \in Threads : pc[t] = "dropping" THEN NoModel
                                                                  ELSE resident
    /\ \A t \in Threads :
         /\ pc[t] \in {"building", "clearing"} => engine = NoEngine
         /\ pc[t] = "running" => /\ engine # NoEngine
                                 /\ using[t] = engine
                                 /\ model[t] = resident

IInv == TypeOK /\ Locking /\ Fetching /\ Subject /\ Swap

-------------------------------------------------------------------------------
\* The worker starts with nothing resident, no call and both locks free.
LEMMA InitIInv == Init => IInv
  BY NullAssumption
     DEF Init, IInv, TypeOK, PCs, LockedPCs, Locking, Fetching, Subject, Swap

\* Every step keeps every variable in its domain; that a fetch is always of some
\* model (Subject) is what keeps onDisk a set of models.
LEMMA StepTypeOK == TypeOK /\ Subject /\ [Next]_vars => TypeOK'
  <1> SUFFICES ASSUME TypeOK, Subject, [Next]_vars
               PROVE  TypeOK'
    OBVIOUS
  <1> USE NullAssumption DEF TypeOK, shared, Goto, Return, PCs, LockedPCs
  <1>1. ASSUME NEW t \in Threads, Call(t)
        PROVE  TypeOK'
    BY <1>1 DEF Call, CallLoad, CallUnload, CallInfer
  <1>2. ASSUME NEW t \in Threads,
               BeginFetch(t) \/ FetchDone(t) \/ FetchFails(t) \/ RecordFailure(t)
        PROVE  TypeOK'
    BY <1>2 DEF Subject, BeginFetch, FetchDone, FetchFails, RecordFailure
  <1>3. ASSUME NEW t \in Threads,
               AlreadyResident(t) \/ BeginSwap(t) \/ CloseEngine(t) \/ DropEngine(t)
        PROVE  TypeOK'
    BY <1>3 DEF AlreadyResident, BeginSwap, CloseEngine, DropEngine
  <1>4. ASSUME NEW t \in Threads,
               ClearOnUnload(t) \/ BuildDone(t) \/ BuildFails(t) \/ ClearOnLoad(t)
        PROVE  TypeOK'
    BY <1>4 DEF ClearOnUnload, BuildDone, BuildFails, ClearOnLoad
  <1>5. ASSUME NEW t \in Threads, NoModelLoaded(t) \/ BeginInfer(t) \/ EndInfer(t)
        PROVE  TypeOK'
    BY <1>5 DEF NoModelLoaded, BeginInfer, EndInfer
  <1>6. CASE UNCHANGED vars
    BY <1>6 DEF vars
  <1> QED
    BY <1>1, <1>2, <1>3, <1>4, <1>5, <1>6 DEF Next, Step

\* Every step keeps the inductive invariant.
LEMMA StepIInv == IInv /\ [Next]_vars => IInv'
  <1> SUFFICES ASSUME IInv, [Next]_vars
               PROVE  IInv'
    OBVIOUS
  <1>0. TypeOK'
    BY StepTypeOK DEF IInv
  <1> USE <1>0, NullAssumption
      DEF IInv, TypeOK, PCs, LockedPCs, Locking, Fetching, Subject, Swap,
          shared, Goto, Return
  <1>1. ASSUME NEW t \in Threads, NEW m \in Models, CallLoad(t, m)
        PROVE  IInv'
    BY <1>1 DEF CallLoad
  <1>2. ASSUME NEW t \in Threads, CallUnload(t) \/ CallInfer(t)
        PROVE  IInv'
    BY <1>2 DEF CallUnload, CallInfer
  <1>3. ASSUME NEW t \in Threads, BeginFetch(t)
        PROVE  IInv'
    BY <1>3 DEF BeginFetch
  <1>4. ASSUME NEW t \in Threads, FetchDone(t)
        PROVE  IInv'
    BY <1>4 DEF FetchDone
  <1>5. ASSUME NEW t \in Threads, FetchFails(t)
        PROVE  IInv'
    BY <1>5 DEF FetchFails
  <1>6. ASSUME NEW t \in Threads, RecordFailure(t)
        PROVE  IInv'
    BY <1>6 DEF RecordFailure
  <1>7. ASSUME NEW t \in Threads, AlreadyResident(t)
        PROVE  IInv'
    BY <1>7 DEF AlreadyResident
  <1>8. ASSUME NEW t \in Threads, BeginSwap(t)
        PROVE  IInv'
    BY <1>8 DEF BeginSwap
  <1>9. ASSUME NEW t \in Threads, CloseEngine(t)
        PROVE  IInv'
    BY <1>9 DEF CloseEngine
  <1>10. ASSUME NEW t \in Threads, DropEngine(t)
         PROVE  IInv'
    BY <1>10 DEF DropEngine
  <1>11. ASSUME NEW t \in Threads, ClearOnUnload(t)
         PROVE  IInv'
    BY <1>11 DEF ClearOnUnload
  <1>12. ASSUME NEW t \in Threads, BuildDone(t)
         PROVE  IInv'
    BY <1>12 DEF BuildDone
  <1>13. ASSUME NEW t \in Threads, BuildFails(t)
         PROVE  IInv'
    BY <1>13 DEF BuildFails
  <1>14. ASSUME NEW t \in Threads, ClearOnLoad(t)
         PROVE  IInv'
    BY <1>14 DEF ClearOnLoad
  <1>15. ASSUME NEW t \in Threads, NoModelLoaded(t)
         PROVE  IInv'
    BY <1>15 DEF NoModelLoaded
  <1>16. ASSUME NEW t \in Threads, BeginInfer(t)
         PROVE  IInv'
    BY <1>16 DEF BeginInfer
  <1>17. ASSUME NEW t \in Threads, EndInfer(t)
         PROVE  IInv'
    BY <1>17 DEF EndInfer
  <1>18. CASE UNCHANGED vars
    BY <1>18 DEF vars
  <1> QED
    BY <1>1, <1>2, <1>3, <1>4, <1>5, <1>6, <1>7, <1>8, <1>9, <1>10, <1>11, <1>12,
       <1>13, <1>14, <1>15, <1>16, <1>17, <1>18
    DEF Next, Call, Step

LEMMA SpecIInv == Spec => []IInv
  BY InitIInv, StepIInv, PTL DEF Spec

-------------------------------------------------------------------------------
\* Every variable of the manager keeps to its domain.
THEOREM TypeCorrect == Spec => []TypeOK
  <1>1. IInv => TypeOK
    BY DEF IInv
  <1> QED
    BY <1>1, SpecIInv, PTL

\* The memory budget is one model: never two engines alive, none alive during a
\* build, with any number of threads loading and unloading.
THEOREM MemoryBudgetHolds == Spec => []MemoryBudget
  <1>1. IInv => MemoryBudget
    <2> SUFFICES ASSUME IInv
                 PROVE  MemoryBudget
      OBVIOUS
    <2>1. \A e, f \in Alive : e = f
      BY DEF IInv, Swap, Alive
    <2>2. ASSUME NEW t \in Threads, pc[t] = "building"
          PROVE  Alive = {}
      BY <2>2, NullAssumption DEF IInv, TypeOK, Swap, Alive
    <2> QED
      BY <2>1, <2>2 DEF MemoryBudget
  <1> QED
    BY <1>1, SpecIInv, PTL

\* An inference runs in the live, resident engine of the model its answer names.
THEOREM ServedByTheModelItNamesHolds == Spec => []ServedByTheModelItNames
  <1>1. IInv => ServedByTheModelItNames
    <2> SUFFICES ASSUME IInv, NEW t \in Threads, pc[t] = "running"
                 PROVE  /\ using[t] \in Alive
                        /\ using[t] = engine
                        /\ built[using[t]] = model[t]
                        /\ resident = model[t]
      BY DEF ServedByTheModelItNames
    <2>1. \A u \in Threads : pc[u] # "dropping"
      BY DEF IInv, Locking, LockedPCs
    <2>2. engine # NoEngine /\ using[t] = engine /\ model[t] = resident
      BY DEF IInv, Swap
    <2>3. built[engine] = resident
      BY <2>1, <2>2 DEF IInv, Swap
    <2>4. engine \in Engines /\ resident # NoModel
      BY <2>2 DEF IInv, TypeOK, Swap
    <2> QED
      BY <2>2, <2>3, <2>4 DEF Alive
  <1> QED
    BY <1>1, SpecIInv, PTL

\* Whenever the lock is free, _engine and _resident tell the same story.
THEOREM ResidentIsTheEngineHolds == Spec => []ResidentIsTheEngine
  <1>1. IInv => ResidentIsTheEngine
    <2> SUFFICES ASSUME IInv, lock = NoThread
                 PROVE  /\ engine = NoEngine <=> resident = NoModel
                        /\ engine # NoEngine => built[engine] = resident
      BY DEF ResidentIsTheEngine
    <2>1. \A u \in Threads : pc[u] # "dropping"
      BY NullAssumption DEF IInv, Locking, LockedPCs
    <2> QED
      BY <2>1 DEF IInv, Swap
  <1> QED
    BY <1>1, SpecIInv, PTL

\* What `loading` tells a reader without a lock is what a thread is fetching.
THEOREM LoadingIsTrueHolds == Spec => []LoadingIsTrue
  <1>1. IInv => LoadingIsTrue
    <2> SUFFICES ASSUME IInv
                 PROVE  LoadingIsTrue
      OBVIOUS
    <2>1. ASSUME loading # NoModel
          PROVE  \E t \in Threads : fetchLock = t /\ lock # t
                                   /\ pc[t] = "fetching" /\ model[t] = loading
      <3>1. PICK t \in Threads : fetchLock = t
        BY <2>1 DEF IInv, TypeOK, Fetching
      <3>2. pc[t] = "fetching"
        BY <3>1 DEF IInv, Locking
      <3> QED
        BY <3>1, <3>2 DEF IInv, Locking, LockedPCs, Fetching
    <2>2. ASSUME loading = NoModel
          PROVE  fetchLock = NoThread
      BY <2>2 DEF IInv, TypeOK, Locking, Fetching, Subject
    <2> QED
      BY <2>1, <2>2 DEF LoadingIsTrue
  <1> QED
    BY <1>1, SpecIInv, PTL

\* The fields of the manager that are written apart never contradict each other.
THEOREM FieldsAgreeHolds == Spec => []FieldsAgree
  <1>1. ResidentIsTheEngine /\ LoadingIsTrue => FieldsAgree
    BY DEF FieldsAgree
  <1> QED
    BY <1>1, ResidentIsTheEngineHolds, LoadingIsTrueHolds, PTL

\* A resident model is given up only by an unload, or once its successor is on disk.
THEOREM FetchBeforeEvictHolds == Spec => FetchBeforeEvict
  <1>1. ASSUME IInv, [Next]_vars, resident # NoModel, resident' # resident
        PROVE  \E t \in Threads :
                 lock = t /\ (model[t] = NoModel \/ model[t] \in onDisk)
    <2>1. PICK t \in Threads : DropEngine(t) \/ BuildDone(t)
      BY <1>1 DEF Next, Call, Step, vars, shared, CallLoad, CallUnload, CallInfer,
                  BeginFetch, FetchDone, FetchFails, RecordFailure, AlreadyResident,
                  BeginSwap, CloseEngine, ClearOnUnload, BuildFails, ClearOnLoad,
                  NoModelLoaded, BeginInfer, EndInfer
    <2>2. pc[t] \in {"dropping", "building"}
      BY <2>1 DEF DropEngine, BuildDone
    <2> QED
      BY <2>2, <1>1 DEF IInv, Locking, LockedPCs, Subject
  <1> QED
    BY <1>1, SpecIInv, PTL DEF Spec, FetchBeforeEvict

-------------------------------------------------------------------------------
\* The refinement: what Residency calls the resident model and the model serving t.
InMemory == IF engine = NoEngine THEN NoModel ELSE built[engine]
ServingNow == [t \in Threads |-> IF pc[t] = "running" THEN model[t] ELSE NoModel]

\* Every step of the manager is a step of Residency or leaves it as it is.
LEMMA StepKeepsPromise ==
    ASSUME IInv, IInv', [Next]_vars
    PROVE  [Promise!Next]_(Promise!vars)
  <1> USE NullAssumption
      DEF IInv, TypeOK, PCs, LockedPCs, Locking, Subject, Swap, shared, Goto, Return,
          Promise!vars
  <1>1. ASSUME NEW t \in Threads,
               \/ \E m \in Models : CallLoad(t, m)
               \/ CallUnload(t) \/ CallInfer(t)
               \/ BeginFetch(t) \/ FetchDone(t) \/ FetchFails(t) \/ RecordFailure(t)
               \/ AlreadyResident(t) \/ BeginSwap(t) \/ DropEngine(t)
               \/ ClearOnUnload(t) \/ BuildFails(t) \/ ClearOnLoad(t)
               \/ NoModelLoaded(t)
        PROVE  UNCHANGED Promise!vars
    <2>1. InMemory' = InMemory
      BY <1>1 DEF InMemory, CallLoad, CallUnload, CallInfer, BeginFetch, FetchDone,
                  FetchFails, RecordFailure, AlreadyResident, BeginSwap, DropEngine,
                  ClearOnUnload, BuildFails, ClearOnLoad, NoModelLoaded
    <2>2. ASSUME NEW u \in Threads
          PROVE  (IF pc[u] = "running" THEN model[u] ELSE NoModel)'
                   = IF pc[u] = "running" THEN model[u] ELSE NoModel
      BY <1>1 DEF CallLoad, CallUnload, CallInfer, BeginFetch, FetchDone,
                  FetchFails, RecordFailure, AlreadyResident, BeginSwap, DropEngine,
                  ClearOnUnload, BuildFails, ClearOnLoad, NoModelLoaded
    <2>3. ServingNow' = ServingNow
      BY <2>2 DEF ServingNow
    <2> QED
      BY <2>1, <2>3 DEF InMemory, ServingNow
  <1>2. ASSUME NEW t \in Threads, CloseEngine(t)
        PROVE  Promise!Evict \/ UNCHANGED Promise!vars
    <2>1. \A u \in Threads : pc[u] # "running" /\ pc'[u] # "running"
      BY <1>2 DEF CloseEngine
    <2>2. ServingNow' = ServingNow
      BY <2>1 DEF ServingNow
    <2>3. InMemory' = NoModel
      BY <1>2 DEF CloseEngine, InMemory
    <2>4. ~Promise!InUse
      BY <2>1 DEF Promise!InUse
    <2> QED
      BY <2>2, <2>3, <2>4 DEF InMemory, ServingNow, Promise!Evict
  <1>3. ASSUME NEW t \in Threads, BuildDone(t)
        PROVE  \E m \in Models : Promise!Install(m)
    <2>1. \A u \in Threads : pc[u] # "running" /\ pc'[u] # "running"
      BY <1>3 DEF BuildDone
    <2>2. ServingNow' = ServingNow
      BY <2>1 DEF ServingNow
    <2>3. model[t] \in Models /\ InMemory = NoModel /\ InMemory' = model[t]
      BY <1>3 DEF BuildDone, InMemory
    <2> QED
      BY <2>2, <2>3 DEF InMemory, ServingNow, Promise!Install
  <1>4. ASSUME NEW t \in Threads, BeginInfer(t)
        PROVE  Promise!Serve(t)
    <2>1. InMemory = resident /\ InMemory # NoModel /\ InMemory' = InMemory
      BY <1>4 DEF BeginInfer, InMemory
    <2>2. \A u \in Threads : pc[u] # "running"
      BY <1>4 DEF BeginInfer
    <2>3. ServingNow' = [ServingNow EXCEPT ![t] = InMemory]
      BY <1>4, <2>1, <2>2 DEF BeginInfer, ServingNow
    <2> QED
      BY <2>1, <2>2, <2>3 DEF InMemory, ServingNow, Promise!Serve, Promise!InUse
  <1>5. ASSUME NEW t \in Threads, EndInfer(t)
        PROVE  Promise!Answer(t)
    <2>1. InMemory' = InMemory
      BY <1>5 DEF EndInfer, InMemory
    <2>2. ServingNow' = [ServingNow EXCEPT ![t] = NoModel]
      BY <1>5 DEF EndInfer, ServingNow
    <2>3. model[t] # NoModel
      BY <1>5 DEF EndInfer
    <2> QED
      BY <1>5, <2>1, <2>2, <2>3 DEF EndInfer, InMemory, ServingNow, Promise!Answer
  <1>6. CASE UNCHANGED vars
    BY <1>6 DEF vars
  <1> QED
    BY <1>1, <1>2, <1>3, <1>4, <1>5, <1>6 DEF Next, Call, Step, Promise!Next

\* The manager implements Residency: one model at a time, never swapped under a call.
THEOREM ManagerKeepsPromise == Spec => KeepsPromise
  <1>1. Init => Promise!Init
    BY DEF Init, Promise!Init
  <1>2. IInv /\ IInv' /\ [Next]_vars => [Promise!Next]_(Promise!vars)
    BY StepKeepsPromise
  <1> QED
    BY <1>1, <1>2, SpecIInv, PTL DEF Spec, KeepsPromise, Promise!Spec
===============================================================================
