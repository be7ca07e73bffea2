-------------------------- MODULE SocketServerProofs --------------------------
(***************************************************************************)
(* No slot of the socket server leaks or is given back twice, for any      *)
(* number of connections, any cap and any backlog.                         *)
(***************************************************************************)
EXTENDS SocketServer, FiniteSetTheorems, SequenceTheorems, TLAPS

\* The accept loop holds one connection, which is in the state that its place in the
\* loop says; only there is a slot taken and no thread behind it.
OneInHand ==
    /\ main = "admitting" => current \in Connections /\ conn[current] = "waiting"
    /\ main = "starting"  => current \in Connections /\ conn[current] = "admitted"
    /\ main = "draining"  => current \in Connections /\ conn[current] = "refused"

\* The backlog holds each connection once, waiting, and never the one in hand.
BacklogWaits ==
    /\ \A k \in DOMAIN backlog : conn[backlog[k]] = "waiting"
    /\ \A j, k \in DOMAIN backlog : backlog[j] = backlog[k] => j = k
    /\ main = "admitting" => \A k \in DOMAIN backlog : backlog[k] # current

Conserved == IsFiniteSet(Holding) /\ SlotsConserved

IInv == TypeOK /\ OneInHand /\ BacklogWaits /\ Conserved

\* A connection that enters or leaves the set of holders moves the count by one.
LEMMA HolderEnters ==
    ASSUME NEW S, IsFiniteSet(S), NEW c, c \notin S
    PROVE  IsFiniteSet(S \cup {c}) /\ Cardinality(S \cup {c}) = Cardinality(S) + 1
BY FS_AddElement

LEMMA HolderLeaves ==
    ASSUME NEW S, IsFiniteSet(S), NEW c, c \in S
    PROVE  /\ IsFiniteSet(S \ {c})
           /\ Cardinality(S) \in Nat
           /\ Cardinality(S \ {c}) = Cardinality(S) - 1
           /\ Cardinality(S) >= 1
<1>1. /\ IsFiniteSet(S \ {c}) /\ Cardinality(S \ {c}) = Cardinality(S) - 1
      /\ Cardinality(S) \in Nat /\ Cardinality(S \ {c}) \in Nat
  BY FS_RemoveElement, FS_CardinalityType
<1>. QED BY <1>1

LEMMA InitIInv == Init => IInv
<1>. SUFFICES ASSUME Init PROVE IInv
  OBVIOUS
<1>1. TypeOK
  <2>1. backlog \in Seq(Connections) /\ Len(backlog) <= Backlog
    BY ServerAssumption DEF Init
  <2>2. slots \in 0..MaxConnections
    BY ServerAssumption DEF Init
  <2>. QED BY <2>1, <2>2 DEF Init, TypeOK
<1>2. Holding = {}
  BY DEF Init, Holding
<1>3. Conserved
  BY <1>2, FS_EmptySet, ServerAssumption DEF Init, Conserved, SlotsConserved
<1>. QED BY <1>1, <1>3 DEF Init, IInv, OneInHand, BacklogWaits

-------------------------------------------------------------------------------
\* What each step does to the set of holders.
LEMMA AdmitConserves ==
    ASSUME IInv, Admit PROVE Conserved'
<1>1. current \in Connections /\ current \notin Holding
  BY DEF IInv, OneInHand, Admit, Holding
<1>2. Holding' = Holding \cup {current}
  BY <1>1 DEF IInv, TypeOK, Admit, Mark, Holding
<1>3. /\ IsFiniteSet(Holding') /\ Cardinality(Holding') = Cardinality(Holding) + 1
      /\ Cardinality(Holding) \in Nat
  BY <1>1, <1>2, HolderEnters, FS_CardinalityType DEF IInv, Conserved
<1>4. slots' = slots - 1 /\ slots \in Nat /\ MaxConnections \in Nat
  BY ServerAssumption DEF IInv, TypeOK, Admit
<1>. QED BY <1>3, <1>4 DEF IInv, Conserved, SlotsConserved

LEMMA StartThreadFailsConserves ==
    ASSUME IInv, StartThreadFails PROVE Conserved'
<1>1. current \in Connections /\ current \in Holding
  BY DEF IInv, OneInHand, StartThreadFails, Holding
<1>2. Holding' = Holding \ {current}
  BY <1>1 DEF IInv, TypeOK, StartThreadFails, Mark, Holding
<1>3. /\ IsFiniteSet(Holding') /\ Cardinality(Holding') = Cardinality(Holding) - 1
      /\ Cardinality(Holding) \in Nat
  BY <1>1, <1>2, HolderLeaves DEF IInv, Conserved
<1>4. slots' = slots + 1 /\ slots \in Nat /\ MaxConnections \in Nat
  BY ServerAssumption DEF IInv, TypeOK, StartThreadFails
<1>. QED BY <1>3, <1>4 DEF IInv, Conserved, SlotsConserved

LEMMA GiveBackSlotConserves ==
    ASSUME NEW c \in Connections, IInv, GiveBackSlot(c) PROVE Conserved'
<1>1. c \in Holding
  BY DEF GiveBackSlot, Holding
<1>2. Holding' = Holding \ {c}
  BY DEF IInv, TypeOK, GiveBackSlot, Mark, Holding
<1>3. /\ IsFiniteSet(Holding') /\ Cardinality(Holding') = Cardinality(Holding) - 1
      /\ Cardinality(Holding) \in Nat
  BY <1>1, <1>2, HolderLeaves DEF IInv, Conserved
<1>4. slots' = slots + 1 /\ slots \in Nat /\ MaxConnections \in Nat
  BY ServerAssumption DEF IInv, TypeOK, GiveBackSlot
<1>. QED BY <1>3, <1>4 DEF IInv, Conserved, SlotsConserved

\* The other steps move connections among the states that hold a slot, or among those
\* that do not.
LEMMA SameHolders ==
    ASSUME IInv, Holding' = Holding, slots' = slots PROVE Conserved'
BY DEF IInv, Conserved, SlotsConserved

LEMMA StepConserves == IInv /\ [Next]_vars => Conserved'
<1>. SUFFICES ASSUME IInv, [Next]_vars PROVE Conserved'
  OBVIOUS
<1>. USE DEF Holding
<1>1. CASE Bind \/ BindFails \/ Loop \/ Accept \/ AcceptRaises \/ Stop \/ DrainMore
             \/ PeerSends
  BY <1>1, SameHolders DEF Bind, BindFails, Loop, Accept, AcceptRaises, Stop, DrainMore,
     PeerSends
<1>2. CASE Admit
  BY <1>2, AdmitConserves
<1>3. CASE Refuse \/ Drained \/ StartThread
  <2>1. Holding' = Holding /\ slots' = slots
    BY <1>3 DEF IInv, TypeOK, OneInHand, Refuse, DrainMore, Drained, PeerSends, StartThread,
       Mark
  <2>. QED BY <2>1, SameHolders
<1>4. CASE StartThreadFails
  BY <1>4, StartThreadFailsConserves
<1>5. CASE CloseServer
  <2>1. Holding' = Holding /\ slots' = slots
    BY <1>5 DEF IInv, TypeOK, CloseServer
  <2>. QED BY <2>1, SameHolders
<1>6. ASSUME NEW c \in Connections, Connect(c) \/ HangUp(c) PROVE Conserved'
  <2>1. Holding' = Holding /\ slots' = slots
    BY <1>6 DEF IInv, TypeOK, Connect, HangUp, Mark
  <2>. QED BY <2>1, SameHolders
<1>7. ASSUME NEW c \in Connections, GiveBackSlot(c) PROVE Conserved'
  BY <1>7, GiveBackSlotConserves
<1>8. CASE UNCHANGED vars
  BY <1>8, SameHolders DEF vars
<1>. QED
  BY <1>1, <1>2, <1>3, <1>4, <1>5, <1>6, <1>7, <1>8 DEF Next, MainStep, ThreadStep

-------------------------------------------------------------------------------
\* Taking a slot that is free and giving one back keep the count within the cap.
LEMMA StepTypeOK == IInv /\ [Next]_vars => TypeOK'
<1>. SUFFICES ASSUME IInv, [Next]_vars PROVE TypeOK'
  OBVIOUS
<1>0. TypeOK /\ MaxConnections \in Nat /\ Backlog \in Nat
  BY ServerAssumption DEF IInv
<1>1. slots' \in 0..MaxConnections
  <2>1. slots' \in Int
    BY <1>0 DEF TypeOK, Next, MainStep, ThreadStep, vars, Bind, BindFails, Loop, Accept,
       AcceptRaises, Admit, Refuse, DrainMore, Drained, PeerSends, StartThread,
       StartThreadFails, CloseServer, Connect, HangUp, GiveBackSlot, Stop
  <2>2. slots' >= 0
    BY <1>0 DEF TypeOK, Next, MainStep, ThreadStep, vars, Bind, BindFails, Loop, Accept,
       AcceptRaises, Admit, Refuse, DrainMore, Drained, PeerSends, StartThread,
       StartThreadFails, CloseServer, Connect, HangUp, GiveBackSlot, Stop
  <2>3. Conserved'
    BY StepConserves
  <2>4. slots' + Cardinality(Holding') = MaxConnections /\ Cardinality(Holding') \in Nat
    BY <2>3, FS_CardinalityType DEF Conserved, SlotsConserved
  <2>. QED BY <1>0, <2>1, <2>2, <2>4
<1>2. backlog' \in Seq(Connections) /\ Len(backlog') <= Backlog
  <2>1. CASE Accept
    BY <1>0, <2>1 DEF TypeOK, Accept
  <2>2. CASE CloseServer
    BY <1>0, <2>2 DEF CloseServer
  <2>3. ASSUME NEW c \in Connections, Connect(c)
        PROVE  backlog' \in Seq(Connections) /\ Len(backlog') <= Backlog
    BY <1>0, <2>3 DEF TypeOK, Connect
  <2>4. CASE UNCHANGED backlog
    BY <1>0, <2>4 DEF TypeOK
  <2>. QED
    BY <2>1, <2>2, <2>3, <2>4 DEF Next, MainStep, ThreadStep, vars, Bind, BindFails, Loop,
       AcceptRaises, Admit, Refuse, DrainMore, Drained, PeerSends, StartThread,
       StartThreadFails, HangUp, GiveBackSlot, Stop
<1>3. conn' \in [Connections -> {"new", "waiting", "admitted", "served", "refused",
                                "hungUp", "closed", "reset"}]
  BY <1>0 DEF TypeOK, Next, MainStep, ThreadStep, vars, Bind, BindFails, Loop, Accept,
     AcceptRaises, Admit, Refuse, DrainMore, Drained, PeerSends, StartThread,
     StartThreadFails, CloseServer, Connect, HangUp, GiveBackSlot, Stop, Mark
<1>4. current' \in Connections \cup {NoConnection}
  <2>1. CASE Accept
    BY <1>0, <2>1 DEF TypeOK, Accept
  <2>2. CASE current' = current \/ current' = NoConnection
    BY <1>0, <2>2 DEF TypeOK
  <2>. QED
    BY <2>1, <2>2 DEF Next, MainStep, ThreadStep, vars, Bind, BindFails, Loop, AcceptRaises,
       Admit, Refuse, DrainMore, Drained, PeerSends, StartThread, StartThreadFails,
       CloseServer, Connect, HangUp, GiveBackSlot, Stop
<1>5. /\ main' \in {"binding", "looping", "accepting", "admitting", "starting", "draining",
                    "closing", "exited"}
      /\ socket' \in {"none", "open", "shutdown", "closed"}
      /\ path' \in BOOLEAN /\ stopping' \in BOOLEAN /\ bound' \in BOOLEAN
  BY <1>0 DEF TypeOK, Next, MainStep, ThreadStep, vars, Bind, BindFails, Loop, Accept,
     AcceptRaises, Admit, Refuse, DrainMore, Drained, PeerSends, StartThread,
     StartThreadFails, CloseServer, Connect, HangUp, GiveBackSlot, Stop
<1>6. queued' \in BOOLEAN
  <2>1. CASE Refuse \/ DrainMore \/ Drained \/ PeerSends
    BY <2>1 DEF Refuse, DrainMore, Drained, PeerSends
  <2>2. CASE UNCHANGED queued
    BY <1>0, <2>2 DEF TypeOK
  <2>. QED
    BY <2>1, <2>2 DEF Next, MainStep, ThreadStep, vars, Bind, BindFails, Loop, Accept,
       AcceptRaises, Admit, StartThread, StartThreadFails, CloseServer, Connect, HangUp,
       GiveBackSlot, Stop
<1>. QED BY <1>1, <1>2, <1>3, <1>4, <1>5, <1>6 DEF TypeOK

-------------------------------------------------------------------------------
\* Only Accept takes a connection in hand, and no thread touches that one.
LEMMA StepOneInHand == IInv /\ [Next]_vars => OneInHand'
<1>. SUFFICES ASSUME IInv, [Next]_vars PROVE OneInHand'
  OBVIOUS
<1>. USE DEF IInv, TypeOK, OneInHand
<1>1. CASE Accept
  <2>1. backlog \in Seq(Connections) /\ backlog # <<>>
    BY <1>1 DEF Accept
  <2>2. 1 \in DOMAIN backlog /\ Head(backlog) = backlog[1] /\ Head(backlog) \in Connections
    BY <2>1
  <2>. QED BY <1>1, <2>2 DEF Accept, BacklogWaits
<1>2. CASE Bind \/ BindFails \/ Loop \/ AcceptRaises \/ Stop \/ DrainMore \/ PeerSends
  BY <1>2 DEF Bind, BindFails, Loop, AcceptRaises, Stop, DrainMore, PeerSends
<1>3. CASE Admit \/ Refuse
  BY <1>3 DEF Admit, Refuse, Mark
<1>4. CASE Drained \/ StartThread \/ StartThreadFails \/ CloseServer
  BY <1>4 DEF Drained, StartThread, StartThreadFails, CloseServer, Mark
<1>5. ASSUME NEW c \in Connections, Connect(c) \/ HangUp(c) \/ GiveBackSlot(c)
      PROVE  OneInHand'
  BY <1>5 DEF Connect, HangUp, GiveBackSlot, Mark
<1>6. CASE UNCHANGED vars
  BY <1>6 DEF vars
<1>. QED
  BY <1>1, <1>2, <1>3, <1>4, <1>5, <1>6 DEF Next, MainStep, ThreadStep

LEMMA StepBacklogWaits == IInv /\ [Next]_vars => BacklogWaits'
<1>. SUFFICES ASSUME IInv, [Next]_vars PROVE BacklogWaits'
  OBVIOUS
<1>. USE DEF IInv, TypeOK, BacklogWaits
<1>1. CASE Accept
  <2>1. /\ backlog \in Seq(Connections) /\ backlog # <<>>
        /\ backlog' = Tail(backlog) /\ current' = Head(backlog) /\ conn' = conn
    BY <1>1 DEF Accept
  <2>2. \A k \in DOMAIN backlog' : /\ k + 1 \in DOMAIN backlog
                                   /\ backlog'[k] = backlog[k + 1]
    BY <2>1
  <2>3. Head(backlog) = backlog[1] /\ 1 \in DOMAIN backlog
    BY <2>1
  <2>4. DOMAIN backlog' \subseteq Nat \ {0}
    BY <2>1
  <2>. QED BY <2>1, <2>2, <2>3, <2>4
<1>2. ASSUME NEW c \in Connections, Connect(c) PROVE BacklogWaits'
  <2>1. /\ backlog \in Seq(Connections)
        /\ backlog' = Append(backlog, c)
        /\ conn[c] = "new" /\ conn' = [conn EXCEPT ![c] = "waiting"]
        /\ main' = main /\ current' = current
    BY <1>2 DEF Connect, Mark
  <2>2. \A k \in DOMAIN backlog : backlog[k] \in Connections /\ backlog[k] # c
    BY <2>1
  <2>3. /\ DOMAIN backlog' = DOMAIN backlog \cup {Len(backlog) + 1}
        /\ \A k \in DOMAIN backlog : backlog'[k] = backlog[k]
        /\ backlog'[Len(backlog) + 1] = c
    BY <2>1
  <2>4. main = "admitting" => current # c
    BY <2>1 DEF OneInHand
  <2>. QED BY <2>1, <2>2, <2>3, <2>4
<1>3. CASE CloseServer
  BY <1>3 DEF CloseServer
<1>4. CASE Bind \/ BindFails \/ Loop \/ AcceptRaises \/ Stop \/ DrainMore \/ PeerSends
  BY <1>4 DEF Bind, BindFails, Loop, AcceptRaises, Stop, DrainMore, PeerSends
<1>5. CASE Admit \/ Refuse \/ Drained \/ StartThread \/ StartThreadFails
  <2>1. \A k \in DOMAIN backlog : backlog[k] \in Connections
    OBVIOUS
  <2>2. /\ current \in Connections
        /\ \A k \in DOMAIN backlog : backlog[k] # current
        /\ backlog' = backlog /\ main' # "admitting"
    BY <1>5 DEF OneInHand, Admit, Refuse, DrainMore, Drained, PeerSends, StartThread,
       StartThreadFails
  <2>3. \E state : conn' = [conn EXCEPT ![current] = state]
    BY <1>5 DEF Admit, Refuse, DrainMore, Drained, PeerSends, StartThread, StartThreadFails,
       Mark
  <2>. QED BY <2>1, <2>2, <2>3
<1>6. ASSUME NEW c \in Connections, HangUp(c) \/ GiveBackSlot(c) PROVE BacklogWaits'
  <2>1. \A k \in DOMAIN backlog : backlog[k] \in Connections /\ backlog[k] # c
    BY <1>6 DEF HangUp, GiveBackSlot
  <2>. QED BY <1>6, <2>1 DEF HangUp, GiveBackSlot, Mark
<1>7. CASE UNCHANGED vars
  BY <1>7 DEF vars
<1>. QED
  BY <1>1, <1>2, <1>3, <1>4, <1>5, <1>6, <1>7 DEF Next, MainStep, ThreadStep

-------------------------------------------------------------------------------
LEMMA SpecIInv == Spec => []IInv
<1>1. IInv /\ [Next]_vars => IInv'
  BY StepTypeOK, StepOneInHand, StepBacklogWaits, StepConserves DEF IInv
<1>. QED BY InitIInv, <1>1, PTL DEF Spec

\* The variables of the server keep to their domains (server.py:141-151).
THEOREM ServerTypeCorrect == Spec => []TypeOK
<1>1. IInv => TypeOK
  BY DEF IInv
<1>. QED BY SpecIInv, <1>1, PTL

\* For every cap, backlog and set of connections, the free slots and the holders add
\* up to the cap: no slot leaks and none is released twice (server.py:165-187, 237-238).
THEOREM SlotsConservedHolds == Spec => []SlotsConserved
<1>1. IInv => SlotsConserved
  BY DEF IInv, Conserved
<1>. QED BY SpecIInv, <1>1, PTL
===============================================================================
