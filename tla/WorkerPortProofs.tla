---------------------------- MODULE WorkerPortProofs ----------------------------
(***************************************************************************)
(* No slot of the worker's HTTP port or of its admission leaks or is given *)
(* back twice, for any set of peers, any cap and any limit.                *)
(***************************************************************************)
EXTENDS WorkerPort, FiniteSetTheorems, TLAPS

Counted == IsFiniteSet(At(Open)) /\ IsFiniteSet(At(Inside))

Becomes(c, to) == conn' = [conn EXCEPT ![c] = to]

IInv == TypeOK /\ Counted /\ Conserved

\* A connection that moves between two states enters a set of holders, leaves it, or
\* does neither, and the count moves with it.
LEMMA Moved ==
    ASSUME NEW c \in Connections, NEW to, NEW states,
           conn \in [Connections -> {"away", "queued"} \cup Open],
           Becomes(c, to), IsFiniteSet(At(states))
    PROVE  /\ IsFiniteSet(At(states)')
           /\ Cardinality(At(states)) \in Nat
           /\ conn[c] \notin states /\ to \in states =>
                 Cardinality(At(states)') = Cardinality(At(states)) + 1
           /\ conn[c] \in states /\ to \notin states =>
                 Cardinality(At(states)') = Cardinality(At(states)) - 1
           /\ (conn[c] \in states <=> to \in states) =>
                 Cardinality(At(states)') = Cardinality(At(states))
<1>0. Cardinality(At(states)) \in Nat
  BY FS_CardinalityType
<1>1. CASE to \in states
  <2>1. At(states)' = At(states) \cup {c}
    BY <1>1 DEF Becomes, At
  <2>2. c \in At(states) <=> conn[c] \in states
    BY DEF At
  <2>. QED BY <1>0, <1>1, <2>1, <2>2, FS_AddElement
<1>2. CASE to \notin states
  <2>1. At(states)' = At(states) \ {c}
    BY <1>2 DEF Becomes, At
  <2>2. c \in At(states) <=> conn[c] \in states
    BY DEF At
  <2>. QED BY <1>0, <1>2, <2>1, <2>2, FS_RemoveElement
<1>. QED BY <1>1, <1>2

LEMMA InitIInv == Init => IInv
<1>. SUFFICES ASSUME Init PROVE IInv
  OBVIOUS
<1>1. At(Open) = {} /\ At(Inside) = {}
  BY DEF Init, At, Open, Inside
<1>. QED
  BY <1>1, FS_EmptySet, PortAssumption DEF Init, IInv, TypeOK, Counted, Conserved

-------------------------------------------------------------------------------
\* Steps that move a connection and touch neither count: both sets of holders keep their
\* size, and nobody enters or leaves the model.
LEMMA StaysConserved ==
    ASSUME IInv, NEW c \in Connections, NEW to \in {"away", "queued"} \cup Open,
           Becomes(c, to), UNCHANGED <<slots, admissions, lock>>,
           conn[c] \in Open <=> to \in Open,
           conn[c] \notin Inside, to \notin Inside
    PROVE  IInv'
<1>1. conn \in [Connections -> {"away", "queued"} \cup Open]
  BY DEF IInv, TypeOK
<1>2. IsFiniteSet(At(Open)) /\ IsFiniteSet(At(Inside))
  BY DEF IInv, Counted
<1>3. IsFiniteSet(At(Open)') /\ Cardinality(At(Open)') = Cardinality(At(Open))
  BY <1>1, <1>2, Moved
<1>4. IsFiniteSet(At(Inside)') /\ Cardinality(At(Inside)') = Cardinality(At(Inside))
  BY <1>1, <1>2, Moved
<1>5. Open' = Open /\ Inside' = Inside
  BY DEF Open, Inside
<1>6. TypeOK'
  BY <1>1 DEF IInv, TypeOK, Becomes, Open
<1>7. \A d \in Connections : (conn[d] = "model")' <=> lock' = d
  BY <1>1 DEF IInv, Conserved, Becomes, Inside
<1>. QED BY <1>3, <1>4, <1>6, <1>7 DEF IInv, Counted, Conserved

\* The port's count moves by one with the set of open connections.
LEMMA SlotMoves ==
    ASSUME IInv, NEW c \in Connections, NEW to \in {"away", "queued"} \cup Open,
           Becomes(c, to), UNCHANGED <<admissions, lock>>,
           conn[c] \notin Inside, to \notin Inside, slots \in Nat,
           \/ conn[c] \notin Open /\ to \in Open /\ slots > 0 /\ slots' = slots - 1
           \/ conn[c] \in Open /\ to \notin Open /\ slots' = slots + 1
    PROVE  IInv'
<1>1. conn \in [Connections -> {"away", "queued"} \cup Open] /\ MaxScrapes \in Nat
  BY PortAssumption DEF IInv, TypeOK
<1>2. IsFiniteSet(At(Open)) /\ IsFiniteSet(At(Inside))
  BY DEF IInv, Counted
<1>3. /\ IsFiniteSet(At(Open)') /\ Cardinality(At(Open)) \in Nat
      /\ conn[c] \notin Open /\ to \in Open =>
            Cardinality(At(Open)') = Cardinality(At(Open)) + 1
      /\ conn[c] \in Open /\ to \notin Open =>
            Cardinality(At(Open)') = Cardinality(At(Open)) - 1
  BY <1>1, <1>2, Moved
<1>4. IsFiniteSet(At(Inside)') /\ Cardinality(At(Inside)') = Cardinality(At(Inside))
  BY <1>1, <1>2, Moved
<1>5. slots' + Cardinality(At(Open)') = MaxScrapes /\ slots' \in Nat
  BY <1>3 DEF IInv, Conserved
<1>6. Cardinality(At(Open)') \in Nat
  BY <1>3, FS_CardinalityType
<1>7. TypeOK'
  BY <1>1, <1>5, <1>6 DEF IInv, TypeOK, Becomes, Open
<1>8. \A d \in Connections : (conn[d] = "model")' <=> lock' = d
  BY <1>1 DEF IInv, Conserved, Becomes, Inside
<1>. QED BY <1>3, <1>4, <1>5, <1>7, <1>8 DEF IInv, Counted, Conserved

\* Admission's count moves by one with the set of requests inside, which stay open.
LEMMA AdmissionMoves ==
    ASSUME IInv, NEW c \in Connections, NEW to \in Open,
           Becomes(c, to), UNCHANGED <<slots, lock>>,
           conn[c] \in Open, conn[c] # "model", to # "model", admissions \in Nat,
           \/ conn[c] \notin Inside /\ to \in Inside /\ admissions > 0
              /\ admissions' = admissions - 1
           \/ conn[c] \in Inside /\ to \notin Inside /\ admissions' = admissions + 1
    PROVE  IInv'
<1>1. conn \in [Connections -> {"away", "queued"} \cup Open] /\ MaxConcurrent \in Nat
  BY PortAssumption DEF IInv, TypeOK
<1>2. IsFiniteSet(At(Open)) /\ IsFiniteSet(At(Inside))
  BY DEF IInv, Counted
<1>3. /\ IsFiniteSet(At(Inside)') /\ Cardinality(At(Inside)) \in Nat
      /\ conn[c] \notin Inside /\ to \in Inside =>
            Cardinality(At(Inside)') = Cardinality(At(Inside)) + 1
      /\ conn[c] \in Inside /\ to \notin Inside =>
            Cardinality(At(Inside)') = Cardinality(At(Inside)) - 1
  BY <1>1, <1>2, Moved
<1>4. IsFiniteSet(At(Open)') /\ Cardinality(At(Open)') = Cardinality(At(Open))
  BY <1>1, <1>2, Moved
<1>5. admissions' + Cardinality(At(Inside)') = MaxConcurrent /\ admissions' \in Nat
  BY <1>3 DEF IInv, Conserved
<1>6. Cardinality(At(Inside)') \in Nat
  BY <1>3, FS_CardinalityType
<1>7. TypeOK'
  BY <1>1, <1>5, <1>6 DEF IInv, TypeOK, Becomes, Open
<1>8. \A d \in Connections : (conn[d] = "model")' <=> lock' = d
  BY <1>1 DEF IInv, Conserved, Becomes
<1>. QED BY <1>3, <1>4, <1>5, <1>7, <1>8 DEF IInv, Counted, Conserved

\* The lock changes hands with the connection that enters or leaves the model.
LEMMA LockMoves ==
    ASSUME IInv, NEW c \in Connections, TakeLock(c) \/ Work(c)
    PROVE  IInv'
<1>1. conn \in [Connections -> {"away", "queued"} \cup Open]
  BY DEF IInv, TypeOK
<1>2. IsFiniteSet(At(Open)) /\ IsFiniteSet(At(Inside))
  BY DEF IInv, Counted
<1>3. PICK to \in Inside : Becomes(c, to) /\ conn[c] \in Inside
  BY DEF TakeLock, Work, Goes, Becomes, Inside
<1>4. Inside \subseteq Open
  BY DEF Inside, Open
<1>5. IsFiniteSet(At(Open)') /\ Cardinality(At(Open)') = Cardinality(At(Open))
  BY <1>1, <1>2, <1>3, <1>4, Moved
<1>6. IsFiniteSet(At(Inside)') /\ Cardinality(At(Inside)') = Cardinality(At(Inside))
  BY <1>1, <1>2, <1>3, Moved
<1>7. TypeOK'
  BY <1>1 DEF IInv, TypeOK, TakeLock, Work, Goes, Becomes, Open
<1>8. \A d \in Connections : (conn[d] = "model")' <=> lock' = d
  BY <1>1, PortAssumption DEF IInv, Conserved, TakeLock, Work, Goes, Becomes
<1>. QED BY <1>5, <1>6, <1>7, <1>8
         DEF IInv, Counted, Conserved, TakeLock, Work

-------------------------------------------------------------------------------
LEMMA StepIInv == IInv /\ [Next]_vars => IInv'
<1>. SUFFICES ASSUME IInv, [Next]_vars PROVE IInv'
  OBVIOUS
<1>0. slots \in Nat /\ admissions \in Nat
  BY PortAssumption DEF IInv, TypeOK
<1>1. ASSUME NEW c \in Connections,
             \/ Connect(c) \/ Refuse(c) \/ StartThread(c) \/ Ask(c) \/ ReadBody(c)
             \/ HangUp(c) \/ Answer(c) \/ Raise(c) \/ Parsed(c) \/ Overloaded(c)
             \/ SendReply(c) \/ SendFinal(c)
      PROVE  IInv'
  <2>1. PICK to \in {"away", "queued"} \cup Open :
           /\ Becomes(c, to) /\ UNCHANGED <<slots, admissions, lock>>
           /\ conn[c] \in Open <=> to \in Open
           /\ conn[c] \notin Inside /\ to \notin Inside
    BY <1>1 DEF Connect, Refuse, StartThread, Ask, ReadBody, HangUp, Answer, Raise, Parsed,
       Overloaded, SendReply, SendFinal, Goes, Becomes, Open, Inside
  <2>. QED BY <2>1, StaysConserved
<1>2. ASSUME NEW c \in Connections, TakeSlot(c) PROVE IInv'
  BY <1>0, <1>2, SlotMoves DEF TakeSlot, Goes, Becomes, Open, Inside
<1>3. ASSUME NEW c \in Connections, StartThreadFails(c) \/ GiveBackSlot(c) PROVE IInv'
  BY <1>0, <1>3, SlotMoves DEF StartThreadFails, GiveBackSlot, Goes, Becomes, Open, Inside
<1>4. ASSUME NEW c \in Connections, Admit(c) \/ GiveBackAdmission(c) PROVE IInv'
  BY <1>0, <1>4, AdmissionMoves DEF Admit, GiveBackAdmission, Goes, Becomes, Open, Inside
<1>5. ASSUME NEW c \in Connections, TakeLock(c) \/ Work(c) PROVE IInv'
  BY <1>5, LockMoves
<1>6. CASE DipTakes \/ DipReturns \/ UNCHANGED vars
  <2>1. /\ conn' = conn /\ slots' = slots /\ admissions' = admissions
        /\ At(Open)' = At(Open) /\ At(Inside)' = At(Inside)
    BY <1>6 DEF DipTakes, DipReturns, vars, At, Open, Inside
  <2>2. lock' \in Connections \cup {NoOne, Dip}
    BY <1>6 DEF IInv, TypeOK, DipTakes, DipReturns, vars
  <2>3. \A d \in Connections : lock' = d <=> lock = d
    BY <1>6, PortAssumption DEF DipTakes, DipReturns, vars
  <2>. QED BY <2>1, <2>2, <2>3 DEF IInv, TypeOK, Counted, Conserved, Open
<1>. QED
  BY <1>1, <1>2, <1>3, <1>4, <1>5, <1>6 DEF Next, LoopStep, ThreadStep

LEMMA SpecIInv == Spec => []IInv
BY InitIInv, StepIInv, PTL DEF Spec

\* The variables of the port keep to their domains, and neither semaphore is ever given
\* back more than it was taken (metrics.py:289, tei.py:43).
THEOREM PortTypeCorrect == Spec => []TypeOK
<1>1. IInv => TypeOK
  BY DEF IInv
<1>. QED BY SpecIInv, <1>1, PTL

\* For every set of peers, cap and limit, the free slots of the port and of Admission and
\* those who hold them add up, and the lock is held by whoever is in the model
\* (metrics.py:292-306, tei.py:47-61).
THEOREM PortConserved == Spec => []Conserved
<1>1. IInv => Conserved
  BY DEF IInv
<1>. QED BY SpecIInv, <1>1, PTL
===============================================================================
