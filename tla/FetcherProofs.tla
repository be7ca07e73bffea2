----------------------------- MODULE FetcherProofs -----------------------------
(***************************************************************************)
(* What ensure_model promises a process that shares its models directory   *)
(* with nobody, for any files in any order, whatever the endpoint sends,   *)
(* and wherever a process or the machine stops.                            *)
(***************************************************************************)
EXTENDS Fetcher, SequenceTheorems, FiniteSetTheorems, TLAPS

\* No other process writes to the models directory.
Alone == \A p, q \in Processes : p = q

(***************************************************************************)
(* The inductive invariant.  An object has at most one name, and one that  *)
(* is being written is not a file of the model.                            *)
(***************************************************************************)
FilesApart ==
    \A f, g \in Files :
        /\ Exists(destination[f]) => destination[f] # part[g]
        /\ Exists(destination[f]) /\ f # g => destination[f] # destination[g]
        /\ Exists(part[f]) /\ f # g => part[f] # part[g]
WritesApart ==
    \A p \in Processes :
        IF pc[p] = "streaming"
        THEN /\ Exists(out[p])
             /\ \A f \in Files : out[p] # destination[f] /\ (out[p] = part[f] => f = File(p))
        ELSE out[p] = NoObject

\* What a process remembers of a file is the time of pinned bytes, but for a file that it
\* was misled about: no other bytes have that time, and whatever has a name has been
\* written.
Dated ==
    \A f \in Files :
        /\ Exists(destination[f]) => mtime[destination[f]] # NoMtime
        /\ Exists(part[f]) => mtime[part[f]] # NoMtime
Remembered ==
    \A p \in Processes, f \in Files :
        Exists(destination[f]) /\ verified[p][f] = mtime[destination[f]]
            => bytes[destination[f]] = "pinned" \/ f \in misled[p]

\* File f is the one that p hashed, or p was misled about it, or someone took it away; it
\* is in place for p, if nobody replaced it since.  The same of its part.
Gone(p, f) == f \in taken[p] /\ ~Exists(destination[f])
Trusted(p, f) ==
    Holds(f, "pinned") \/ (Exists(destination[f]) /\ f \in misled[p]) \/ Gone(p, f)
InPlace(p, f) ==
    Holds(f, "pinned") \/ Gone(p, f) \/ f \in misled[p] \/ f \in replaced[p]
PartGone(p) == File(p) \in taken[p] /\ ~Exists(part[File(p)])
PartHolds(p, content) ==
    (Exists(part[File(p)]) /\ bytes[part[File(p)]] = content) \/ PartGone(p)

\* A registry that leaves out a digest of a model that is downloaded.
LeftOut == spec.needs_download /\ spec.unpinned # {}

\* The file in hand is not the one that p remembers.
NotRemembered(p) ==
    Exists(destination[File(p)]) => verified[p][File(p)] # mtime[destination[File(p)]]

\* Where a process is tells what it knows of the file in hand, and of those before it.
Knows(p) ==
    /\ pc[p] # "idle" =>
          /\ outcome[p] = "none" /\ ~LeftOut
          /\ \A i \in DOMAIN Order : i < at[p] => InPlace(p, Order[i])
    /\ pc[p] \in {"recalling", "measuring", "hashing", "discarding"} =>
          Exists(destination[File(p)]) \/ Gone(p, File(p))
    /\ pc[p] \in {"measuring", "hashing"} => NotRemembered(p)
    /\ pc[p] = "discarding" /\ Holds(File(p), "pinned") => File(p) \in replaced[p]
    /\ pc[p] = "remembering" => Trusted(p, File(p))
    /\ pc[p] = "streaming" => out[p] = part[File(p)] \/ PartGone(p)
    /\ pc[p] = "proving" => served[p] \in Contents /\ PartHolds(p, served[p])
    /\ pc[p] = "replacing" => PartHolds(p, "pinned")
    /\ pc[p] = "ensured" /\ spec.needs_download => \A f \in Files : InPlace(p, f)
    /\ outcome[p] \in {"refused", "broken"} =>
          served[p] \in {"failed", "wrong", "short"} \/ File(p) \in taken[p] \/ LeftOut

Sound == FilesApart /\ WritesApart /\ Dated /\ Remembered /\ \A p \in Processes : Knows(p)

IInv == TypeOK /\ (Alone => Sound)

-------------------------------------------------------------------------------
(***************************************************************************)
(* There is always a new object to write to, and a time nobody remembers.  *)
(***************************************************************************)
LEMMA ImageBound ==
    ASSUME NEW S, IsFiniteSet(S), NEW f, f = [x \in S |-> f[x]]
    PROVE  /\ IsFiniteSet({f[x] : x \in S}) /\ Cardinality({f[x] : x \in S}) \in Nat
           /\ Cardinality({f[x] : x \in S}) <= Cardinality(S)
<1>. DEFINE T == {f[x] : x \in S}
<1>1. f \in Surjection(S, T)
  BY DEF Surjection
<1>. HIDE DEF T
<1>2. IsFiniteSet(T) /\ Cardinality(T) <= Cardinality(S)
  BY <1>1, FS_Surjection
<1>3. Cardinality(T) \in Nat
  BY <1>2, FS_CardinalityType
<1>. QED BY <1>2, <1>3 DEF T

LEMMA UnionBound ==
    ASSUME NEW S, IsFiniteSet(S), NEW T, IsFiniteSet(T)
    PROVE  /\ IsFiniteSet(S \cup T) /\ Cardinality(S \cup T) \in Nat
           /\ Cardinality(S \cup T) <= Cardinality(S) + Cardinality(T)
<1>1. /\ IsFiniteSet(S \cup T)
      /\ Cardinality(S \cup T) = Cardinality(S) + Cardinality(T) - Cardinality(S \cap T)
  BY FS_Union
<1>2. IsFiniteSet(S \cap T)
  BY FS_Subset
<1>3. /\ Cardinality(S) \in Nat /\ Cardinality(T) \in Nat /\ Cardinality(S \cap T) \in Nat
      /\ Cardinality(S \cup T) \in Nat
  BY <1>1, <1>2, FS_CardinalityType
<1>. QED BY <1>1, <1>3

LEMMA Spare ==
    ASSUME NEW S, IsFiniteSet(S), NEW T, IsFiniteSet(T), Cardinality(T) < Cardinality(S)
    PROVE  \E x \in S : x \notin T
<1>. SUFFICES ASSUME S \subseteq T PROVE FALSE
  OBVIOUS
<1>1. Cardinality(S) <= Cardinality(T)
  BY FS_Subset
<1>2. Cardinality(S) \in Nat /\ Cardinality(T) \in Nat
  BY FS_CardinalityType
<1>. QED BY <1>1, <1>2

LEMMA FilesAre ==
    /\ Len(Order) \in Nat \ {0} /\ DOMAIN Order = 1..Len(Order)
    /\ \A i \in DOMAIN Order : Order[i] \in Files
    /\ \A f \in Files : \E i \in DOMAIN Order : f = Order[i]
    /\ \A i, j \in DOMAIN Order : Order[i] = Order[j] => i = j
    /\ IsFiniteSet(Files) /\ Cardinality(Files) \in Nat /\ Cardinality(Files) <= Len(Order)
<1>1. Len(Order) \in Nat /\ DOMAIN Order = 1..Len(Order) /\ Order \in [1..Len(Order) -> Files]
  BY FetcherAssumption, LenProperties
<1>2. Len(Order) # 0
  BY FetcherAssumption, EmptySeq
<1>3. Files = {Order[i] : i \in 1..Len(Order)}
  BY <1>1 DEF Files, ToSet
<1>4. IsFiniteSet(1..Len(Order)) /\ Cardinality(1..Len(Order)) = Len(Order)
  <2>1. 1 \in Int /\ Len(Order) \in Int
    BY <1>1
  <2>2. IsFiniteSet(1..Len(Order)) /\ Cardinality(1..Len(Order)) = IF 1 > Len(Order) THEN 0 ELSE Len(Order) - 1 + 1
    BY <2>1, FS_Interval
  <2>. QED BY <1>1, <1>2, <2>2
<1>5. IsFiniteSet(Files) /\ Cardinality(Files) \in Nat /\ Cardinality(Files) <= Len(Order)
  <2>1. Order = [i \in 1..Len(Order) |-> Order[i]]
    BY <1>1
  <2>. QED BY <1>3, <1>4, <2>1, ImageBound
<1>6. \A i, j \in DOMAIN Order : Order[i] = Order[j] => i = j
  BY FetcherAssumption DEF IsInjective
<1>. QED BY <1>1, <1>2, <1>3, <1>5, <1>6

LEMMA NewObjectIs == TypeOK => NewObject \in Objects /\ NewObject \notin Named
<1>. SUFFICES ASSUME TypeOK PROVE NewObject \in Objects /\ NewObject \notin Named
  OBVIOUS
<1>. DEFINE D == {destination[f] : f \in Files}
            P == {part[f] : f \in Files}
            O == {out[p] : p \in Processes}
<1>1. /\ IsFiniteSet(Files) /\ IsFiniteSet(Processes) /\ IsFiniteSet(Objects)
      /\ Cardinality(Files) \in Nat /\ Cardinality(Files) <= Len(Order) /\ Len(Order) \in Nat
      /\ Cardinality(Processes) \in Nat /\ Cardinality(Objects) \in Nat
      /\ Cardinality(Objects) > 2 * Len(Order) + Cardinality(Processes)
  BY FetcherAssumption, FilesAre, FS_CardinalityType
<1>2. IsFiniteSet(D) /\ Cardinality(D) \in Nat /\ Cardinality(D) <= Cardinality(Files)
  <2>1. destination = [f \in Files |-> destination[f]]
    BY DEF TypeOK
  <2>. QED BY <1>1, <2>1, ImageBound
<1>3. IsFiniteSet(P) /\ Cardinality(P) \in Nat /\ Cardinality(P) <= Cardinality(Files)
  <2>1. part = [f \in Files |-> part[f]]
    BY DEF TypeOK
  <2>. QED BY <1>1, <2>1, ImageBound
<1>4. IsFiniteSet(O) /\ Cardinality(O) \in Nat /\ Cardinality(O) <= Cardinality(Processes)
  <2>1. out = [p \in Processes |-> out[p]]
    BY DEF TypeOK
  <2>. QED BY <1>1, <2>1, ImageBound
<1>5. Named = (D \cup P) \cup O
  BY DEF Named
<1>. HIDE DEF D, P, O
<1>6. /\ IsFiniteSet(D \cup P) /\ Cardinality(D \cup P) \in Nat
      /\ Cardinality(D \cup P) <= Cardinality(D) + Cardinality(P)
  BY <1>2, <1>3, UnionBound
<1>7. /\ IsFiniteSet(Named) /\ Cardinality(Named) \in Nat
      /\ Cardinality(Named) <= Cardinality(D \cup P) + Cardinality(O)
  BY <1>4, <1>5, <1>6, UnionBound
<1>8. Cardinality(Named) < Cardinality(Objects)
  BY <1>1, <1>2, <1>3, <1>4, <1>6, <1>7
<1>9. \E o \in Objects : o \notin Named
  BY <1>1, <1>7, <1>8, Spare
<1>. QED BY <1>9 DEF NewObject

LEMMA NewMtimeIs ==
    TypeOK => /\ NewMtime \in Mtimes
              /\ \A p \in Processes, f \in Files : verified[p][f] # NewMtime
              /\ \A o \in Named \ {NoObject} : mtime[o] # NewMtime
<1>. SUFFICES ASSUME TypeOK
              PROVE  /\ NewMtime \in Mtimes
                     /\ \A p \in Processes, f \in Files : verified[p][f] # NewMtime
                     /\ \A o \in Named \ {NoObject} : mtime[o] # NewMtime
  OBVIOUS
<1>. DEFINE pairs == Processes \X Files
            recall == [x \in pairs |-> verified[x[1]][x[2]]]
            V == {recall[x] : x \in pairs}
            M == {mtime[o] : o \in Objects}
<1>1. /\ IsFiniteSet(Files) /\ IsFiniteSet(Processes) /\ IsFiniteSet(Objects) /\ IsFiniteSet(Mtimes)
      /\ Cardinality(Files) \in Nat /\ Cardinality(Files) <= Len(Order) /\ Len(Order) \in Nat
      /\ Cardinality(Processes) \in Nat /\ Cardinality(Objects) \in Nat
      /\ Cardinality(Mtimes) > (Cardinality(Processes) * Len(Order)) + Cardinality(Objects)
  BY FetcherAssumption, FilesAre, FS_CardinalityType
<1>2. IsFiniteSet(pairs) /\ Cardinality(pairs) = Cardinality(Processes) * Cardinality(Files)
  BY <1>1, FS_Product
<1>3. IsFiniteSet(V) /\ Cardinality(V) \in Nat /\ Cardinality(V) <= Cardinality(pairs)
  <2>. HIDE DEF pairs
  <2>1. recall = [x \in pairs |-> recall[x]]
    OBVIOUS
  <2>. HIDE DEF recall
  <2>. QED BY <1>2, <2>1, ImageBound
<1>4. IsFiniteSet(M) /\ Cardinality(M) \in Nat /\ Cardinality(M) <= Cardinality(Objects)
  <2>1. mtime = [o \in Objects |-> mtime[o]]
    BY DEF TypeOK
  <2>. QED BY <1>1, <2>1, ImageBound
<1>5. \A p \in Processes, f \in Files : verified[p][f] \in V
  <2>. SUFFICES ASSUME NEW p \in Processes, NEW f \in Files PROVE verified[p][f] \in V
    OBVIOUS
  <2>1. <<p, f>> \in pairs /\ recall[<<p, f>>] = verified[p][f]
    OBVIOUS
  <2>. HIDE DEF pairs, recall
  <2>. QED BY <2>1
<1>6. \A o \in Named \ {NoObject} : mtime[o] \in M
  BY DEF Named, TypeOK
<1>. HIDE DEF V, M, pairs, recall
<1>7. /\ IsFiniteSet(V \cup M) /\ Cardinality(V \cup M) \in Nat
      /\ Cardinality(V \cup M) <= Cardinality(V) + Cardinality(M)
  BY <1>3, <1>4, UnionBound
<1>8. Cardinality(V \cup M) < Cardinality(Mtimes)
  <2>. DEFINE files == Cardinality(Processes) * Cardinality(Files)
              places == Cardinality(Processes) * Len(Order)
              times == Cardinality(Mtimes)
  <2>1. files <= places /\ files \in Nat /\ places \in Nat
    BY <1>1
  <2>2. times \in Nat /\ times > places + Cardinality(Objects)
    BY <1>1, FS_CardinalityType
  <2>3. Cardinality(V) <= files
    BY <1>2, <1>3
  <2>. HIDE DEF files, places, times
  <2>4. Cardinality(V \cup M) < times
    BY <1>1, <1>3, <1>4, <1>7, <2>1, <2>2, <2>3
  <2>. QED BY <2>4 DEF times
<1>9. PICK t \in Mtimes : t \notin V \cup M
  BY <1>1, <1>7, <1>8, Spare
<1>10. /\ \A p \in Processes, f \in Files : verified[p][f] # t
       /\ \A o \in Named \ {NoObject} : mtime[o] # t
  BY <1>5, <1>6, <1>9
<1>. QED BY <1>10 DEF NewMtime

-------------------------------------------------------------------------------
(***************************************************************************)
(* Every variable keeps to its domain.                                     *)
(***************************************************************************)
LEMMA FileIs == TypeOK => \A p \in Processes : File(p) \in Files /\ at[p] \in 1..Len(Order)
BY FilesAre DEF TypeOK, File

LEMMA WriteTyped ==
    ASSUME TypeOK, NEW o, NEW content \in Contents, Write(o, content)
    PROVE  bytes' \in [Objects -> Contents] /\ mtime' \in [Objects -> Mtimes \cup {NoMtime}]
BY NewMtimeIs DEF TypeOK, Write

LEMMA AdvanceTyped ==
    ASSUME TypeOK, NEW p \in Processes, Advance(p)
    PROVE  /\ pc' \in [Processes -> {"idle", "looking", "recalling", "measuring", "hashing",
                             "discarding", "remembering", "asking", "streaming", "proving", "replacing",
                             "ensured"}]
           /\ at' \in [Processes -> DOMAIN Order]
           /\ served' \in [Processes -> Contents \cup {"nothing", "failed"}]
           /\ UNCHANGED <<out, outcome>>
<1>1. at[p] \in DOMAIN Order /\ DOMAIN Order = 1..Len(Order) /\ Len(Order) \in Nat
  BY FilesAre DEF TypeOK
<1>2. at' \in [Processes -> DOMAIN Order]
  <2>1. at[p] < Len(Order) => at[p] + 1 \in DOMAIN Order
    BY <1>1
  <2>. QED BY <2>1 DEF TypeOK, Advance
<1>. QED BY <1>2 DEF TypeOK, Advance

LEMMA StepTyped == TypeOK /\ [Next]_vars => TypeOK'
<1>. SUFFICES ASSUME TypeOK, [Next]_vars PROVE TypeOK'
  OBVIOUS
<1>. USE DEF process, others, disk
<1>0. /\ \A p \in Processes : File(p) \in Files /\ at[p] \in 1..Len(Order)
      /\ NewObject \in Objects /\ NewMtime \in Mtimes /\ 1 \in DOMAIN Order
      /\ MaxStops \in Nat /\ MaxRewrites \in Nat
  BY FileIs, NewObjectIs, NewMtimeIs, FilesAre, FetcherAssumption
<1>1. CASE UNCHANGED vars
  BY <1>1 DEF TypeOK, vars
<1>2. ASSUME NEW p \in Processes, Call(p)
      PROVE  TypeOK'
  BY <1>0, <1>2 DEF TypeOK, Call
<1>3. ASSUME NEW p \in Processes, Look(p)
      PROVE  TypeOK'
  BY <1>3 DEF TypeOK, Look, Goto
<1>4. ASSUME NEW p \in Processes, Recall(p)
      PROVE  TypeOK'
  <2>1. CASE AlreadyVerified(p)
    <3>1. Advance(p) /\ UNCHANGED <<disk, verified, others>>
      BY <1>4, <2>1 DEF Recall
    <3>. QED BY <3>1, AdvanceTyped DEF TypeOK
  <2>2. CASE ~AlreadyVerified(p)
    BY <1>4, <2>2 DEF TypeOK, Recall, Goto
  <2>. QED BY <2>1, <2>2
<1>5. ASSUME NEW p \in Processes, Vanished(p)
      PROVE  TypeOK'
  BY <1>5 DEF TypeOK, Vanished, Raise
<1>6. ASSUME NEW p \in Processes, Measure(p) \/ Hash(p) \/ Discard(p)
      PROVE  TypeOK'
  <2>1. destination' \in [Files -> Objects \cup {NoObject}] /\ UNCHANGED <<part, bytes, mtime>>
    BY <1>6 DEF TypeOK, Measure, Hash, Discard
  <2>2. /\ pc' \in [Processes -> {"idle", "looking", "recalling", "measuring", "hashing",
                             "discarding", "remembering", "asking", "streaming", "proving", "replacing",
                             "ensured"}]
        /\ UNCHANGED <<at, out, served, outcome>>
    BY <1>6 DEF TypeOK, Measure, Hash, Discard, Goto
  <2>3. UNCHANGED <<verified, taken, replaced, spec, stops, rewrites>>
    BY <1>6 DEF Measure, Hash, Discard
  <2>4. misled' \in [Processes -> SUBSET Files]
    BY <1>6 DEF TypeOK, Measure, Hash, Discard, Hashed
  <2>. QED BY <2>1, <2>2, <2>3, <2>4 DEF TypeOK
<1>7. ASSUME NEW p \in Processes, Remember(p)
      PROVE  TypeOK'
  <2>1. Advance(p) /\ UNCHANGED <<disk, others>>
    BY <1>7 DEF Remember
  <2>2. mtime[destination[File(p)]] \in Mtimes \cup {NoMtime}
    BY <1>0, <1>7 DEF TypeOK, Remember, Exists
  <2>3. verified' \in [Processes -> [Files -> Mtimes \cup {NoMtime}]]
    BY <1>0, <1>7, <2>2 DEF TypeOK, Remember
  <2>. QED BY <2>1, <2>3, AdvanceTyped DEF TypeOK
<1>8. ASSUME NEW p \in Processes, OpenPart(p)
      PROVE  TypeOK'
  <2>. DEFINE o == IF Exists(part[File(p)]) THEN part[File(p)] ELSE NewObject
  <2>1. o \in Objects
    BY <1>0 DEF TypeOK, Exists
  <2>2. /\ part' = [part EXCEPT ![File(p)] = o] /\ out' = [out EXCEPT ![p] = o] /\ Write(o, "short")
        /\ pc' = [pc EXCEPT ![p] = "streaming"]
        /\ UNCHANGED <<destination, at, served, outcome, verified, others>>
    BY <1>8 DEF OpenPart
  <2>. HIDE DEF o
  <2>3. bytes' \in [Objects -> Contents] /\ mtime' \in [Objects -> Mtimes \cup {NoMtime}]
    BY <2>2, WriteTyped DEF Contents
  <2>. QED BY <2>1, <2>2, <2>3 DEF TypeOK
<1>9. ASSUME NEW p \in Processes, DownloadFails(p) \/ BreaksOff(p)
      PROVE  TypeOK'
  BY <1>9 DEF TypeOK, DownloadFails, BreaksOff, Unlink, Raise
<1>10. ASSUME NEW p \in Processes, NEW content \in Contents, Stream(p, content)
       PROVE  TypeOK'
  <2>1. \E left \in Contents : Write(out[p], left)
    BY <1>10 DEF Stream, Streamed, Contents
  <2>2. bytes' \in [Objects -> Contents] /\ mtime' \in [Objects -> Mtimes \cup {NoMtime}]
    BY <2>1, WriteTyped
  <2>3. UNCHANGED <<destination, at, verified, others>>
    BY <1>10 DEF Stream
  <2>4. /\ part' \in [Files -> Objects \cup {NoObject}] /\ out' \in [Processes -> Objects \cup {NoObject}]
        /\ served' \in [Processes -> Contents \cup {"nothing", "failed"}]
    BY <1>10 DEF TypeOK, Stream
  <2>5. /\ outcome' \in [Processes -> {"none", "refused", "broken", "ensured"}]
        /\ pc' = [pc EXCEPT ![p] = "idle"] \/ pc' = [pc EXCEPT ![p] = "proving"]
    BY <1>10 DEF TypeOK, Stream
  <2>. QED BY <2>2, <2>3, <2>4, <2>5 DEF TypeOK
<1>11. ASSUME NEW p \in Processes, Prove(p)
       PROVE  TypeOK'
  BY <1>11 DEF TypeOK, Prove, Goto, Raise, Unlink
<1>12. ASSUME NEW p \in Processes, Replace(p) \/ Use(p)
       PROVE  TypeOK'
  <2>1. CASE Replace(p)
    BY <1>0, <2>1 DEF TypeOK, Replace, Goto, Hashed
  <2>2. CASE Use(p)
    BY <2>2 DEF TypeOK, Use, Goto
  <2>. QED BY <1>12, <2>1, <2>2
<1>13. ASSUME NEW p \in Processes, Restart(p)
       PROVE  TypeOK'
  BY <1>0, <1>13 DEF TypeOK, Restart
<1>14. CASE PowerLoss
  <2>1. bytes' \in [Objects -> Contents]
    BY <1>14 DEF TypeOK, PowerLoss
  <2>. QED BY <1>0, <1>14, <2>1 DEF TypeOK, PowerLoss
<1>15. ASSUME NEW f \in Files, Rewrite(f)
       PROVE  TypeOK'
  <2>1. bytes' \in [Objects -> Contents] /\ mtime' \in [Objects -> Mtimes \cup {NoMtime}]
    BY <1>15, WriteTyped DEF Rewrite
  <2>2. destination' \in [Files -> Objects \cup {NoObject}] /\ rewrites' \in 0..MaxRewrites
    BY <1>0, <1>15 DEF TypeOK, Rewrite
  <2>3. replaced' \in [Processes -> SUBSET Files] /\ misled' \in [Processes -> SUBSET Files]
    BY <1>15 DEF TypeOK, Rewrite
  <2>4. UNCHANGED <<part, verified, process, taken, spec, stops>>
    BY <1>15 DEF Rewrite
  <2>. QED BY <2>1, <2>2, <2>3, <2>4 DEF TypeOK
<1>16. ASSUME NEW f \in Files, TakeAway(f)
       PROVE  TypeOK'
  <2>1. /\ destination' \in [Files -> Objects \cup {NoObject}]
        /\ part' \in [Files -> Objects \cup {NoObject}]
    BY <1>16 DEF TypeOK, TakeAway
  <2>2. taken' \in [Processes -> SUBSET Files]
    BY <1>16 DEF TypeOK, TakeAway
  <2>3. rewrites' \in 0..MaxRewrites
    BY <1>0, <1>16 DEF TypeOK, TakeAway
  <2>4. UNCHANGED <<bytes, mtime, verified, process, replaced, misled, spec, stops>>
    BY <1>16 DEF TakeAway
  <2>. QED BY <2>1, <2>2, <2>3, <2>4 DEF TypeOK
<1>. QED
  BY <1>1, <1>2, <1>3, <1>4, <1>5, <1>6, <1>7, <1>8, <1>9, <1>10, <1>11, <1>12, <1>13, <1>14, <1>15, <1>16
     DEF Next, FetchStep

LEMMA InitTyped == Init => TypeOK
<1>1. 1 \in DOMAIN Order /\ MaxStops \in Nat /\ MaxRewrites \in Nat
  BY FilesAre, FetcherAssumption
<1>. QED BY <1>1 DEF Init, TypeOK, Contents

\* Every variable keeps to its domain, however many processes share the directory: an
\* object to write to and a time nobody remembers can always be found.
THEOREM FetcherTypeCorrect == Spec => []TypeOK
BY InitTyped, StepTyped, PTL DEF Spec

-------------------------------------------------------------------------------
(***************************************************************************)
(* A process that shares its directory with nobody.                        *)
(***************************************************************************)
\* Nobody is writing once p is not.
LEMMA NobodyWrites ==
    ASSUME Alone, NEW p \in Processes, pc'[p] # "streaming", out'[p] = NoObject
    PROVE  WritesApart'
BY DEF Alone, WritesApart

\* What is on disk and what is remembered of it stay as they are.
LEMMA DiskStays ==
    ASSUME FilesApart, Dated, Remembered, UNCHANGED <<disk, verified, misled>>
    PROVE  FilesApart' /\ Dated' /\ Remembered'
<1>1. UNCHANGED <<destination, part, bytes, mtime, verified>>
  BY DEF disk
<1>. QED BY <1>1 DEF FilesApart, Dated, Remembered

\* The file in hand is in place: on to the next, or done.
LEMMA AdvanceKnows ==
    ASSUME TypeOK, NEW p \in Processes, pc[p] # "idle", Knows(p), InPlace(p, File(p)), Advance(p),
           UNCHANGED <<disk, others>>
    PROVE  Knows(p)' /\ pc'[p] # "streaming" /\ out'[p] = out[p]
<1>1. UNCHANGED <<destination, bytes, taken, replaced, misled, spec, out, outcome>>
  BY DEF disk, others, Advance
<1>2. \A f : InPlace(p, f)' <=> InPlace(p, f)
  BY <1>1 DEF InPlace, Holds, Gone
<1>3. /\ at[p] \in DOMAIN Order /\ DOMAIN Order = 1..Len(Order) /\ Len(Order) \in Nat
      /\ \A f \in Files : \E i \in DOMAIN Order : f = Order[i]
  BY FilesAre DEF TypeOK
<1>4. /\ outcome[p] = "none" /\ ~LeftOut /\ ~LeftOut'
      /\ \A i \in DOMAIN Order : i < at[p] => InPlace(p, Order[i])
  BY <1>1 DEF Knows, LeftOut
<1>5. \A i \in DOMAIN Order : i <= at[p] => InPlace(p, Order[i])
  <2>. SUFFICES ASSUME NEW i \in DOMAIN Order, i <= at[p] PROVE InPlace(p, Order[i])
    OBVIOUS
  <2>1. i < at[p] \/ i = at[p]
    BY <1>3
  <2>. QED BY <1>4, <2>1 DEF File
<1>6. CASE at[p] < Len(Order)
  <2>1. pc'[p] = "looking" /\ at'[p] = at[p] + 1
    BY <1>6 DEF Advance, TypeOK
  <2>2. \A i \in DOMAIN Order : i < at'[p] => InPlace(p, Order[i])'
    <3>. SUFFICES ASSUME NEW i \in DOMAIN Order, i < at'[p] PROVE InPlace(p, Order[i])'
      OBVIOUS
    <3>1. i <= at[p]
      BY <1>3, <2>1
    <3>. QED BY <1>2, <1>5, <3>1
  <2>. QED BY <1>1, <1>4, <2>1, <2>2 DEF Knows
<1>7. CASE ~(at[p] < Len(Order))
  <2>1. pc'[p] = "ensured" /\ at'[p] = at[p]
    BY <1>7 DEF Advance, TypeOK
  <2>2. \A i \in DOMAIN Order : InPlace(p, Order[i])'
    <3>. SUFFICES ASSUME NEW i \in DOMAIN Order PROVE InPlace(p, Order[i])'
      OBVIOUS
    <3>1. i <= at[p]
      BY <1>3, <1>7
    <3>. QED BY <1>2, <1>5, <3>1
  <2>3. \A f \in Files : InPlace(p, f)'
    BY <1>3, <2>2
  <2>. QED BY <1>1, <1>4, <2>1, <2>2, <2>3 DEF Knows
<1>. QED BY <1>6, <1>7

\* The files before the one in hand are other files.
LEMMA EarlierStay ==
    ASSUME TypeOK, NEW p \in Processes, pc[p] # "idle", Knows(p), UNCHANGED <<taken, replaced, at>>,
           \A f \in Files \ {File(p)} :
               destination'[f] = destination[f] /\ (f \in misled[p] => f \in misled'[p])
               /\ (Exists(destination[f]) => bytes'[destination[f]] = bytes[destination[f]])
    PROVE  \A i \in DOMAIN Order : i < at'[p] => InPlace(p, Order[i])'
<1>. SUFFICES ASSUME NEW i \in DOMAIN Order, i < at[p] PROVE InPlace(p, Order[i])'
  OBVIOUS
<1>1. /\ \A j \in DOMAIN Order : Order[j] \in Files
      /\ \A j, k \in DOMAIN Order : Order[j] = Order[k] => j = k
      /\ at[p] \in DOMAIN Order /\ DOMAIN Order = 1..Len(Order) /\ Len(Order) \in Nat
  BY FilesAre DEF TypeOK
<1>2. Order[i] \in Files \ {File(p)}
  <2>1. i # at[p]
    BY <1>1
  <2>. QED BY <1>1, <2>1 DEF File
<1>3. InPlace(p, Order[i])
  BY DEF Knows
<1>. DEFINE f == Order[i]
<1>. HIDE DEF f
<1>4. f \in Files \ {File(p)} /\ InPlace(p, f)
  BY <1>2, <1>3 DEF f
<1>5. InPlace(p, f)'
  BY <1>4 DEF InPlace, Holds, Gone
<1>. QED BY <1>5 DEF f

\* A step of p that only changes where it is, and perhaps what it knows to be hashed.
LEMMA GotoKnows ==
    ASSUME NEW p \in Processes, Knows(p), NEW label, Goto(p, label), TypeOK,
           pc[p] # "idle", label \notin {"idle", "streaming", "ensured"},
           UNCHANGED <<disk, verified, taken, replaced, spec>>,
           UNCHANGED misled \/ Hashed(p),
           label \in {"recalling", "measuring", "hashing", "discarding"} =>
               Exists(destination[File(p)]) \/ Gone(p, File(p)),
           label \in {"measuring", "hashing"} => NotRemembered(p),
           label = "discarding" => ~Holds(File(p), "pinned"),
           label = "remembering" => Holds(File(p), "pinned"),
           label = "proving" => served[p] \in Contents /\ PartHolds(p, served[p]),
           label = "replacing" => PartHolds(p, "pinned")
    PROVE  Knows(p)' /\ pc'[p] # "streaming" /\ out'[p] = out[p]
<1>1. /\ UNCHANGED <<destination, part, bytes, mtime, verified, taken, replaced, spec>>
      /\ UNCHANGED <<at, out, served, outcome>> /\ pc'[p] = label
  BY DEF disk, Goto, TypeOK
<1>2. \A f \in Files \ {File(p)} : f \in misled[p] => f \in misled'[p]
  BY DEF Hashed, TypeOK
<1>3. \A i \in DOMAIN Order : i < at'[p] => InPlace(p, Order[i])'
  BY <1>1, <1>2, EarlierStay
<1>4. outcome[p] = "none" /\ ~LeftOut /\ ~LeftOut'
  BY <1>1 DEF Knows, LeftOut
<1>5. /\ File(p)' = File(p) /\ NotRemembered(p)' = NotRemembered(p)
      /\ Gone(p, File(p))' = Gone(p, File(p)) /\ Holds(File(p), "pinned")' = Holds(File(p), "pinned")
      /\ PartHolds(p, "pinned")' = PartHolds(p, "pinned")
      /\ PartHolds(p, served[p])' = PartHolds(p, served[p])
  BY <1>1 DEF File, NotRemembered, Gone, Holds, PartHolds, PartGone
<1>6. label = "remembering" => Trusted(p, File(p))'
  BY <1>5 DEF Trusted
<1>. QED BY <1>1, <1>3, <1>4, <1>5, <1>6 DEF Knows

\* A process is out of ensure_model: nothing is known of it but how its last call ended.
LEMMA IdleKnows ==
    ASSUME NEW p \in Processes, pc'[p] = "idle",
           outcome'[p] \in {"refused", "broken"} =>
               served'[p] \in {"failed", "wrong", "short"} \/ File(p)' \in taken'[p] \/ LeftOut'
    PROVE  Knows(p)'
BY DEF Knows

\* A step of p that leaves the disk and what p remembers as they are, and p not writing.
LEMMA QuietSound ==
    ASSUME Alone, Sound, NEW p \in Processes, UNCHANGED <<disk, verified, misled>>,
           pc'[p] # "streaming", out'[p] = NoObject, Knows(p)'
    PROVE  Sound'
<1>1. FilesApart' /\ Dated' /\ Remembered'
  BY DiskStays DEF Sound
<1>2. WritesApart'
  BY NobodyWrites
<1>3. \A q \in Processes : Knows(q)'
  BY DEF Alone
<1>. QED BY <1>1, <1>2, <1>3 DEF Sound

\* What is known of a process that is alone, spelled out.
LEMMA Known ==
    ASSUME TypeOK, Sound, NEW p \in Processes
    PROVE  /\ Knows(p) /\ File(p) \in Files
           /\ pc[p] # "streaming" => out[p] = NoObject
           /\ NoObject \notin Objects /\ NoMtime \notin Mtimes
BY FileIs, FetcherAssumption DEF Sound, WritesApart

LEMMA CallSound ==
    ASSUME TypeOK, Alone, Sound, NEW p \in Processes, Call(p) \/ Use(p)
    PROVE  Sound'
<1>0. Knows(p) /\ (pc[p] # "streaming" => out[p] = NoObject)
  BY Known
<1>1. UNCHANGED <<disk, verified, misled>> /\ pc'[p] # "streaming" /\ out'[p] = NoObject
  BY <1>0 DEF Call, Use, TypeOK, others
<1>2. ASSUME Call(p) PROVE Knows(p)'
  <2>1. spec' = spec /\ at'[p] = 1
    BY <1>2 DEF Call, TypeOK
  <2>2. \A i \in DOMAIN Order : ~(i < 1)
    BY FilesAre
  <2>3. CASE LeftOut
    <3>1. pc'[p] = "idle" /\ LeftOut'
      BY <1>2, <2>1, <2>3 DEF Call, TypeOK, LeftOut
    <3>. QED BY <3>1, IdleKnows
  <2>4. CASE ~LeftOut
    <3>1. /\ outcome'[p] = "none" /\ ~LeftOut'
          /\ pc'[p] = IF spec.needs_download THEN "looking" ELSE "ensured"
      BY <1>2, <2>1, <2>4 DEF Call, TypeOK, LeftOut
    <3>. QED BY <2>1, <2>2, <3>1 DEF Knows
  <2>. QED BY <2>3, <2>4
<1>3. ASSUME Use(p) PROVE Knows(p)'
  BY <1>3 DEF Use, TypeOK, Knows
<1>. QED BY <1>1, <1>2, <1>3, QuietSound

LEMMA LookSound ==
    ASSUME TypeOK, Alone, Sound, NEW p \in Processes, Look(p)
    PROVE  Sound'
<1>0. Knows(p) /\ (pc[p] # "streaming" => out[p] = NoObject)
  BY Known
<1>1. UNCHANGED <<disk, verified, taken, replaced, misled, spec>> /\ pc[p] = "looking"
  BY DEF Look, others
<1>2. CASE Exists(destination[File(p)])
  <2>1. Goto(p, "recalling")
    BY <1>2 DEF Look
  <2>2. Knows(p)' /\ pc'[p] # "streaming" /\ out'[p] = out[p]
    BY <1>0, <1>1, <1>2, <2>1, GotoKnows
  <2>. QED BY <1>0, <1>1, <2>2, QuietSound
<1>3. CASE ~Exists(destination[File(p)])
  <2>1. Goto(p, "asking")
    BY <1>3 DEF Look
  <2>2. Knows(p)' /\ pc'[p] # "streaming" /\ out'[p] = out[p]
    BY <1>0, <1>1, <2>1, GotoKnows
  <2>. QED BY <1>0, <1>1, <2>2, QuietSound
<1>. QED BY <1>2, <1>3

LEMMA RecallSound ==
    ASSUME TypeOK, Alone, Sound, NEW p \in Processes, Recall(p)
    PROVE  Sound'
<1>0. Knows(p) /\ (pc[p] # "streaming" => out[p] = NoObject) /\ File(p) \in Files
  BY Known
<1>1. UNCHANGED <<disk, verified, taken, replaced, misled, spec, others>> /\ pc[p] = "recalling"
  BY DEF Recall, others
<1>2. CASE AlreadyVerified(p)
  <2>1. InPlace(p, File(p))
    BY <1>0, <1>2 DEF AlreadyVerified, Sound, Remembered, InPlace, Holds
  <2>2. Knows(p)' /\ pc'[p] # "streaming" /\ out'[p] = out[p]
    <3>1. Advance(p)
      BY <1>2 DEF Recall
    <3>. QED BY <1>0, <1>1, <2>1, <3>1, AdvanceKnows
  <2>. QED BY <1>0, <1>1, <2>2, QuietSound
<1>3. CASE ~AlreadyVerified(p)
  <2>1. Goto(p, "measuring")
    BY <1>3 DEF Recall
  <2>2. (Exists(destination[File(p)]) \/ Gone(p, File(p))) /\ NotRemembered(p)
    BY <1>0, <1>1, <1>3 DEF Knows, NotRemembered, AlreadyVerified
  <2>3. Knows(p)' /\ pc'[p] # "streaming" /\ out'[p] = out[p]
    BY <1>0, <1>1, <2>1, <2>2, GotoKnows
  <2>. QED BY <1>0, <1>1, <2>3, QuietSound
<1>. QED BY <1>2, <1>3

LEMMA RaiseSound ==
    ASSUME TypeOK, Alone, Sound, NEW p \in Processes, Vanished(p) \/ BreaksOff(p)
    PROVE  Sound'
<1>0. Knows(p)
  BY Known
<1>1. /\ UNCHANGED <<disk, verified, misled, taken, at>> /\ pc'[p] = "idle" /\ out'[p] = NoObject
  BY DEF Vanished, BreaksOff, Raise, TypeOK, others
<1>2. ASSUME Vanished(p)
      PROVE  File(p)' \in taken'[p]
  <2>1. File(p) \in taken[p]
    BY <1>0, <1>2 DEF Vanished, Knows, Gone, Trusted, Holds, PartHolds, PartGone
  <2>. QED BY <1>1, <2>1 DEF File
<1>3. ASSUME BreaksOff(p)
      PROVE  served'[p] = "failed"
  BY <1>3 DEF BreaksOff, TypeOK
<1>4. Knows(p)'
  BY <1>1, <1>2, <1>3, IdleKnows
<1>. QED BY <1>1, <1>4, QuietSound

\* A file that was not the pinned one is taken out of the way.
LEMMA DiscardSound ==
    ASSUME TypeOK, Alone, Sound, NEW p \in Processes, Discard(p)
    PROVE  Sound'
<1>0. Knows(p) /\ pc[p] = "discarding" /\ out[p] = NoObject /\ File(p) \in Files
  BY Known DEF Discard
<1>1. /\ UNCHANGED <<part, bytes, mtime, verified, taken, replaced, misled, spec>>
      /\ UNCHANGED <<at, out, outcome>> /\ pc'[p] = "asking"
      /\ destination'[File(p)] = NoObject
      /\ \A f \in Files \ {File(p)} : destination'[f] = destination[f]
  BY <1>0 DEF Discard, Goto, TypeOK, others
<1>2. \A f \in Files : Exists(destination'[f]) => destination'[f] = destination[f]
  BY <1>1 DEF Exists
<1>3. FilesApart' /\ Dated' /\ Remembered'
  BY <1>1, <1>2 DEF Sound, FilesApart, Dated, Remembered
<1>4. WritesApart'
  BY <1>0, <1>1, NobodyWrites
<1>5. Knows(p)'
  <2>1. \A i \in DOMAIN Order : i < at'[p] => InPlace(p, Order[i])'
    BY <1>0, <1>1, EarlierStay
  <2>2. outcome[p] = "none" /\ ~LeftOut'
    BY <1>0, <1>1 DEF Knows, LeftOut
  <2>. QED BY <1>1, <2>1, <2>2 DEF Knows
<1>. QED BY <1>3, <1>4, <1>5 DEF Sound, Alone

\* A file is measured and hashed: p takes it for what it was found to be.
LEMMA CheckSound ==
    ASSUME TypeOK, Alone, Sound, NEW p \in Processes, Measure(p) \/ Hash(p)
    PROVE  Sound'
<1>0. Knows(p) /\ out[p] = NoObject /\ File(p) \in Files
  BY Known DEF Measure, Hash
<1>1. /\ UNCHANGED <<disk, verified, taken, replaced, spec>> /\ (UNCHANGED misled \/ Hashed(p))
      /\ pc[p] \in {"measuring", "hashing"} /\ Exists(destination[File(p)])
  BY DEF Measure, Hash, others
<1>2. \E label \in {"hashing", "discarding", "remembering"} :
          /\ Goto(p, label)
          /\ label = "discarding" => ~Holds(File(p), "pinned")
          /\ label = "remembering" => Holds(File(p), "pinned")
  BY DEF Measure, Hash, Holds
<1>3. NotRemembered(p)
  BY <1>0, <1>1 DEF Knows
<1>4. Knows(p)' /\ pc'[p] # "streaming" /\ out'[p] = NoObject
  BY <1>0, <1>1, <1>2, <1>3, GotoKnows
<1>5. FilesApart' /\ Dated'
  BY <1>1 DEF disk, Sound, FilesApart, Dated
<1>6. Remembered'
  <2>. SUFFICES ASSUME NEW q \in Processes, NEW f \in Files, Exists(destination[f]),
                       verified[q][f] = mtime[destination[f]]
                PROVE  bytes[destination[f]] = "pinned" \/ f \in misled'[q]
    BY <1>1 DEF disk, Remembered
  <2>1. q = p
    BY DEF Alone
  <2>2. f # File(p)
    BY <1>3, <2>1 DEF NotRemembered
  <2>3. f \in misled[p] => f \in misled'[p]
    BY <1>1, <2>2 DEF Hashed, TypeOK
  <2>. QED BY <2>1, <2>3 DEF Sound, Remembered
<1>7. WritesApart'
  BY <1>4, NobodyWrites
<1>. QED BY <1>4, <1>5, <1>6, <1>7 DEF Sound, Alone

LEMMA RememberSound ==
    ASSUME TypeOK, Alone, Sound, NEW p \in Processes, Remember(p)
    PROVE  Sound'
<1>0. Knows(p) /\ out[p] = NoObject /\ File(p) \in Files
  BY Known DEF Remember
<1>1. /\ pc[p] = "remembering" /\ Exists(destination[File(p)]) /\ Advance(p)
      /\ UNCHANGED <<disk, others>>
      /\ verified' = [verified EXCEPT ![p][File(p)] = mtime[destination[File(p)]]]
  BY DEF Remember
<1>2. /\ InPlace(p, File(p))
      /\ bytes[destination[File(p)]] = "pinned" \/ File(p) \in misled[p]
  BY <1>0, <1>1 DEF Knows, Trusted, InPlace, Holds, Gone
<1>3. Knows(p)' /\ pc'[p] # "streaming" /\ out'[p] = NoObject
  BY <1>0, <1>1, <1>2, AdvanceKnows
<1>4. UNCHANGED <<destination, part, bytes, mtime, misled>>
  BY <1>1 DEF disk, others
<1>5. FilesApart' /\ Dated'
  BY <1>4 DEF Sound, FilesApart, Dated
<1>6. Remembered'
  <2>1. \A q \in Processes, f \in Files :
            verified'[q][f] = verified[q][f] \/ f = File(p)
    BY <1>1 DEF TypeOK
  <2>2. \A q \in Processes : q = p
    BY DEF Alone
  <2>. QED BY <1>2, <1>4, <2>1, <2>2 DEF Sound, Remembered
<1>7. WritesApart'
  BY <1>3, NobodyWrites
<1>. QED BY <1>3, <1>5, <1>6, <1>7 DEF Sound, Alone

\* What has a name is not the object that NewObject finds.
LEMMA NewIsApart ==
    ASSUME TypeOK
    PROVE  /\ NewObject \in Objects /\ Exists(NewObject)
           /\ \A f \in Files : NewObject # destination[f] /\ NewObject # part[f]
           /\ \A p \in Processes : NewObject # out[p]
           /\ NewMtime # NoMtime
           /\ \A p \in Processes, f \in Files : verified[p][f] # NewMtime
BY NewObjectIs, NewMtimeIs, FetcherAssumption DEF Named, Exists

\* Writing to an object that is no file of the model leaves the files as they are.
LEMMA WriteElsewhere ==
    ASSUME TypeOK, NEW o \in Objects, NEW content, Write(o, content),
           \A f \in Files : o # destination[f]
    PROVE  /\ bytes'[o] = content /\ mtime'[o] = NewMtime
           /\ \A x \in Objects \ {o} : bytes'[x] = bytes[x] /\ mtime'[x] = mtime[x]
           /\ \A f \in Files : Exists(destination[f]) =>
                  /\ bytes'[destination[f]] = bytes[destination[f]]
                  /\ mtime'[destination[f]] = mtime[destination[f]]
<1>1. \A x \in Objects \ {o} : bytes'[x] = bytes[x] /\ mtime'[x] = mtime[x]
  BY DEF Write, TypeOK
<1>2. bytes'[o] = content /\ mtime'[o] = NewMtime
  BY DEF Write, TypeOK
<1>3. \A f \in Files : Exists(destination[f]) => destination[f] \in Objects \ {o}
  BY DEF TypeOK, Exists
<1>. QED BY <1>1, <1>2, <1>3

LEMMA OpenSound ==
    ASSUME TypeOK, Alone, Sound, NEW p \in Processes, OpenPart(p)
    PROVE  Sound'
<1>. DEFINE o == IF Exists(part[File(p)]) THEN part[File(p)] ELSE NewObject
<1>0. Knows(p) /\ File(p) \in Files
  BY Known
<1>1. /\ pc[p] = "asking" /\ part' = [part EXCEPT ![File(p)] = o] /\ out' = [out EXCEPT ![p] = o]
      /\ Write(o, "short") /\ pc' = [pc EXCEPT ![p] = "streaming"]
      /\ UNCHANGED <<destination, at, served, outcome, verified, taken, replaced, misled, spec>>
  BY DEF OpenPart, others
<1>2. /\ o \in Objects /\ Exists(o) /\ \A f \in Files : o # destination[f]
      /\ \A f \in Files : f # File(p) => o # part[f]
  <2>1. CASE Exists(part[File(p)])
    BY <1>0, <2>1 DEF Sound, FilesApart, TypeOK, Exists
  <2>2. CASE ~Exists(part[File(p)])
    BY <2>2, NewIsApart
  <2>. QED BY <2>1, <2>2
<1>. HIDE DEF o
<1>3. /\ part'[File(p)] = o /\ \A f \in Files \ {File(p)} : part'[f] = part[f]
      /\ out'[p] = o /\ pc'[p] = "streaming"
  BY <1>0, <1>1 DEF TypeOK
<1>4. /\ mtime'[o] = NewMtime
      /\ \A x \in Objects \ {o} : bytes'[x] = bytes[x] /\ mtime'[x] = mtime[x]
      /\ \A f \in Files : Exists(destination[f]) =>
             /\ bytes'[destination[f]] = bytes[destination[f]]
             /\ mtime'[destination[f]] = mtime[destination[f]]
  BY <1>1, <1>2, WriteElsewhere
<1>5. FilesApart'
  BY <1>1, <1>2, <1>3 DEF Sound, FilesApart
<1>6. WritesApart'
  BY <1>1, <1>2, <1>3 DEF Alone, WritesApart, File
<1>7. Dated'
  <2>1. \A f \in Files \ {File(p)} : Exists(part[f]) => part[f] \in Objects \ {o}
    BY <1>2 DEF TypeOK, Exists
  <2>2. NewMtime # NoMtime
    BY NewIsApart
  <2>. QED BY <1>1, <1>3, <1>4, <2>1, <2>2 DEF Sound, Dated
<1>8. Remembered'
  BY <1>1, <1>4 DEF Sound, Remembered
<1>9. Knows(p)'
  <2>1. \A i \in DOMAIN Order : i < at'[p] => InPlace(p, Order[i])'
    BY <1>0, <1>1, <1>4, EarlierStay
  <2>2. outcome'[p] = "none" /\ ~LeftOut' /\ out'[p] = part'[File(p)] /\ File(p)' = File(p)
    BY <1>0, <1>1, <1>3 DEF Knows, LeftOut, File
  <2>. QED BY <1>3, <2>1, <2>2 DEF Knows
<1>. QED BY <1>5, <1>6, <1>7, <1>8, <1>9 DEF Sound, Alone

\* The part is unlinked and ensure_model raises.
LEMMA UnlinkSound ==
    ASSUME TypeOK, Alone, Sound, NEW p \in Processes, Unlink(File(p)), Raise(p, "refused"),
           UNCHANGED <<verified, misled>>, served'[p] \in {"failed", "wrong", "short"}
    PROVE  Sound'
<1>0. File(p) \in Files
  BY Known
<1>1. /\ UNCHANGED <<destination, bytes, mtime, at>> /\ pc'[p] = "idle" /\ out'[p] = NoObject
      /\ part'[File(p)] = NoObject /\ \A f \in Files \ {File(p)} : part'[f] = part[f]
  BY <1>0 DEF Unlink, Raise, TypeOK
<1>2. \A f \in Files : Exists(part'[f]) => part'[f] = part[f]
  BY <1>1 DEF Exists
<1>3. FilesApart'
  <2>. SUFFICES ASSUME NEW f \in Files, NEW g \in Files
                PROVE  /\ Exists(destination[f]) => destination[f] # part'[g]
                       /\ Exists(destination[f]) /\ f # g => destination[f] # destination[g]
                       /\ Exists(part'[f]) /\ f # g => part'[f] # part'[g]
    BY <1>1 DEF FilesApart
  <2>1. /\ Exists(destination[f]) => destination[f] # part[g]
        /\ Exists(destination[f]) /\ f # g => destination[f] # destination[g]
        /\ Exists(part[f]) /\ f # g => part[f] # part[g]
    BY DEF Sound, FilesApart
  <2>2. /\ part'[f] \in {part[f], NoObject} /\ part'[g] \in {part[g], NoObject}
    BY <1>1
  <2>. QED BY <2>1, <2>2 DEF Exists
<1>4. Dated' /\ Remembered'
  BY <1>1, <1>2 DEF Sound, Dated, Remembered
<1>5. WritesApart'
  BY <1>1, NobodyWrites
<1>6. Knows(p)'
  BY <1>1, IdleKnows
<1>. QED BY <1>3, <1>4, <1>5, <1>6 DEF Sound, Alone

LEMMA DownloadFailsSound ==
    ASSUME TypeOK, Alone, Sound, NEW p \in Processes, DownloadFails(p)
    PROVE  Sound'
<1>1. served'[p] = "failed"
  BY DEF DownloadFails, TypeOK
<1>2. Unlink(File(p)) /\ Raise(p, "refused") /\ UNCHANGED <<verified, misled>>
  BY DEF DownloadFails, others
<1>. QED BY <1>1, <1>2, UnlinkSound

LEMMA ProveSound ==
    ASSUME TypeOK, Alone, Sound, NEW p \in Processes, Prove(p)
    PROVE  Sound'
<1>0. Knows(p) /\ out[p] = NoObject
  BY Known DEF Prove
<1>1. /\ pc[p] = "proving" /\ Exists(part[File(p)])
      /\ UNCHANGED <<verified, taken, replaced, misled, spec>>
  BY DEF Prove, others
<1>2. CASE bytes[part[File(p)]] = "pinned"
  <2>1. Goto(p, "replacing") /\ UNCHANGED disk
    BY <1>2 DEF Prove
  <2>2. PartHolds(p, "pinned")
    BY <1>1, <1>2 DEF PartHolds
  <2>3. Knows(p)' /\ pc'[p] # "streaming" /\ out'[p] = out[p]
    BY <1>0, <1>1, <2>1, <2>2, GotoKnows
  <2>. QED BY <1>0, <1>1, <2>1, <2>3, QuietSound
<1>3. CASE bytes[part[File(p)]] # "pinned"
  <2>1. served[p] \in {"wrong", "short"}
    BY <1>0, <1>1, <1>3 DEF Knows, PartHolds, PartGone, Contents
  <2>2. Unlink(File(p)) /\ Raise(p, "refused") /\ UNCHANGED served
    BY <1>3 DEF Prove
  <2>. QED BY <1>1, <2>1, <2>2, UnlinkSound
<1>. QED BY <1>2, <1>3

LEMMA StreamSound ==
    ASSUME TypeOK, Alone, Sound, NEW p \in Processes, NEW content \in Contents, Stream(p, content)
    PROVE  Sound'
<1>. DEFINE o == out[p]
<1>0. Knows(p) /\ File(p) \in Files
  BY Known
<1>1. /\ pc[p] = "streaming" /\ out' = [out EXCEPT ![p] = NoObject] /\ served' = [served EXCEPT ![p] = content]
      /\ UNCHANGED <<destination, at, verified, taken, replaced, misled, spec>>
      /\ IF File(p) \in Sized /\ content = "short"
         THEN /\ part' = [part EXCEPT ![File(p)] = NoObject]
              /\ pc' = [pc EXCEPT ![p] = "idle"]
              /\ outcome' = [outcome EXCEPT ![p] = "refused"]
         ELSE /\ pc' = [pc EXCEPT ![p] = "proving"]
              /\ UNCHANGED <<part, outcome>>
  BY DEF Stream, others
<1>2. Write(o, content)
  <2>1. Streamed(p, content) = {content}
    BY DEF Streamed, Alone
  <2>2. \E left \in Streamed(p, content) : Write(o, left)
    BY DEF Stream
  <2>. QED BY <2>1, <2>2
<1>3. /\ o \in Objects /\ \A f \in Files : o # destination[f] /\ (o = part[f] => f = File(p))
  BY <1>1 DEF Sound, WritesApart, TypeOK, Exists
<1>. HIDE DEF o
<1>4. /\ bytes'[o] = content /\ mtime'[o] = NewMtime
      /\ \A x \in Objects \ {o} : bytes'[x] = bytes[x] /\ mtime'[x] = mtime[x]
      /\ \A f \in Files : Exists(destination[f]) =>
             /\ bytes'[destination[f]] = bytes[destination[f]]
             /\ mtime'[destination[f]] = mtime[destination[f]]
  BY <1>2, <1>3, WriteElsewhere
<1>5. /\ pc'[p] # "streaming" /\ out'[p] = NoObject /\ served'[p] = content
      /\ \A f \in Files : part'[f] \in {part[f], NoObject}
  BY <1>1 DEF TypeOK
<1>6. FilesApart'
  <2>. SUFFICES ASSUME NEW f \in Files, NEW g \in Files
                PROVE  /\ Exists(destination[f]) => destination[f] # part'[g]
                       /\ Exists(destination[f]) /\ f # g => destination[f] # destination[g]
                       /\ Exists(part'[f]) /\ f # g => part'[f] # part'[g]
    BY <1>1 DEF FilesApart
  <2>1. /\ Exists(destination[f]) => destination[f] # part[g]
        /\ Exists(destination[f]) /\ f # g => destination[f] # destination[g]
        /\ Exists(part[f]) /\ f # g => part[f] # part[g]
    BY DEF Sound, FilesApart
  <2>2. /\ part'[f] \in {part[f], NoObject} /\ part'[g] \in {part[g], NoObject}
    BY <1>5
  <2>. QED BY <2>1, <2>2 DEF Exists
<1>7. WritesApart'
  BY <1>5, NobodyWrites
<1>8. Dated'
  <2>1. \A f \in Files : Exists(part'[f]) => part'[f] = part[f] /\ part[f] \in Objects
    BY <1>5 DEF TypeOK, Exists
  <2>2. NewMtime # NoMtime
    BY NewIsApart
  <2>. QED BY <1>1, <1>4, <2>1, <2>2 DEF Sound, Dated
<1>9. Remembered'
  BY <1>1, <1>4 DEF Sound, Remembered
<1>10. Knows(p)'
  <2>1. CASE File(p) \in Sized /\ content = "short"
    <3>1. pc'[p] = "idle"
      BY <1>1, <2>1 DEF TypeOK
    <3>. QED BY <1>5, <2>1, <3>1, IdleKnows
  <2>2. CASE ~(File(p) \in Sized /\ content = "short")
    <3>1. pc'[p] = "proving" /\ UNCHANGED <<part, outcome, at, taken, destination>>
      BY <1>1, <2>2 DEF TypeOK
    <3>2. \A i \in DOMAIN Order : i < at'[p] => InPlace(p, Order[i])'
      BY <1>0, <1>1, <1>4, EarlierStay
    <3>3. outcome'[p] = "none" /\ ~LeftOut'
      BY <1>0, <1>1, <3>1 DEF Knows, LeftOut
    <3>4. PartHolds(p, content)'
      <4>1. o = part[File(p)] \/ PartGone(p)
        BY <1>0, <1>1 DEF Knows, o
      <4>2. File(p)' = File(p)
        BY <3>1 DEF File
      <4>3. Exists(o)
        BY <1>3, FetcherAssumption DEF Exists
      <4>. QED BY <1>4, <3>1, <4>1, <4>2, <4>3 DEF PartHolds, PartGone
    <3>. QED BY <1>5, <3>1, <3>2, <3>3, <3>4 DEF Knows
  <2>. QED BY <2>1, <2>2
<1>. QED BY <1>6, <1>7, <1>8, <1>9, <1>10 DEF Sound, Alone

LEMMA ReplaceSound ==
    ASSUME TypeOK, Alone, Sound, NEW p \in Processes, Replace(p)
    PROVE  Sound'
<1>0. Knows(p) /\ File(p) \in Files /\ out[p] = NoObject
  BY Known DEF Replace
<1>1. /\ pc[p] = "replacing" /\ Exists(part[File(p)]) /\ pc'[p] = "remembering"
      /\ UNCHANGED <<bytes, mtime, verified, taken, replaced, spec, at, out, outcome>>
      /\ \A f \in Files \ {File(p)} : f \in misled[p] => f \in misled'[p]
      /\ destination'[File(p)] = part[File(p)] /\ part'[File(p)] = NoObject
      /\ \A f \in Files \ {File(p)} : destination'[f] = destination[f] /\ part'[f] = part[f]
  BY <1>0 DEF Replace, Goto, Hashed, TypeOK
<1>2. bytes[part[File(p)]] = "pinned"
  BY <1>0, <1>1 DEF Knows, PartHolds, PartGone
<1>3. FilesApart'
  <2>. SUFFICES ASSUME NEW f \in Files, NEW g \in Files
                PROVE  /\ Exists(destination'[f]) => destination'[f] # part'[g]
                       /\ Exists(destination'[f]) /\ f # g => destination'[f] # destination'[g]
                       /\ Exists(part'[f]) /\ f # g => part'[f] # part'[g]
    BY DEF FilesApart
  <2>1. \A x, y \in Files :
            /\ Exists(destination[x]) => destination[x] # part[y]
            /\ Exists(destination[x]) /\ x # y => destination[x] # destination[y]
            /\ Exists(part[x]) /\ x # y => part[x] # part[y]
    BY DEF Sound, FilesApart
  <2>2. CASE f = File(p)
    BY <1>0, <1>1, <2>1, <2>2 DEF Exists
  <2>3. CASE f # File(p)
    BY <1>0, <1>1, <2>1, <2>3 DEF Exists
  <2>. QED BY <2>2, <2>3
<1>4. Dated' /\ Remembered'
  <2>1. Dated'
    BY <1>0, <1>1 DEF Sound, Dated, Exists
  <2>2. \A q \in Processes : q = p
    BY DEF Alone
  <2>. QED BY <1>0, <1>1, <1>2, <2>1, <2>2 DEF Sound, Remembered
<1>5. WritesApart'
  BY <1>0, <1>1, NobodyWrites
<1>6. Knows(p)'
  <2>1. \A i \in DOMAIN Order : i < at'[p] => InPlace(p, Order[i])'
    BY <1>0, <1>1, EarlierStay
  <2>2. outcome'[p] = "none" /\ ~LeftOut' /\ File(p)' = File(p)
    BY <1>0, <1>1 DEF Knows, LeftOut, File
  <2>3. Trusted(p, File(p))'
    BY <1>1, <1>2, <2>2 DEF Trusted, Holds
  <2>. QED BY <1>1, <2>1, <2>2, <2>3 DEF Knows
<1>. QED BY <1>3, <1>4, <1>5, <1>6 DEF Sound, Alone

\* The processes that a restart or a power loss stops remember nothing.
LEMMA ForgottenSound ==
    ASSUME TypeOK, Sound, UNCHANGED <<destination, part, mtime>>,
           \A p \in Processes : /\ pc'[p] = "idle" /\ out'[p] = NoObject /\ outcome'[p] = "none"
                                /\ \A f \in Files : verified'[p][f] = NoMtime
    PROVE  Sound'
<1>1. FilesApart' /\ Dated'
  BY DEF Sound, FilesApart, Dated
<1>2. Remembered'
  BY DEF Sound, Dated, Remembered
<1>3. WritesApart'
  BY DEF WritesApart
<1>4. \A p \in Processes : Knows(p)'
  BY DEF Knows
<1>. QED BY <1>1, <1>2, <1>3, <1>4 DEF Sound

LEMMA StopSound ==
    ASSUME TypeOK, Alone, Sound, (\E p \in Processes : Restart(p)) \/ PowerLoss
    PROVE  Sound'
<1>1. ASSUME NEW p \in Processes, Restart(p)
      PROVE  Sound'
  <2>1. UNCHANGED <<destination, part, mtime>>
    BY <1>1 DEF Restart, disk
  <2>2. /\ pc'[p] = "idle" /\ out'[p] = NoObject /\ outcome'[p] = "none"
        /\ \A f \in Files : verified'[p][f] = NoMtime
    BY <1>1 DEF Restart, TypeOK
  <2>3. \A q \in Processes : q = p
    BY DEF Alone
  <2>. QED BY <2>1, <2>2, <2>3, ForgottenSound
<1>2. CASE PowerLoss
  <2>1. UNCHANGED <<destination, part, mtime>>
    BY <1>2 DEF PowerLoss
  <2>2. \A p \in Processes : /\ pc'[p] = "idle" /\ out'[p] = NoObject /\ outcome'[p] = "none"
                             /\ \A f \in Files : verified'[p][f] = NoMtime
    BY <1>2 DEF PowerLoss
  <2>. QED BY <2>1, <2>2, ForgottenSound
<1>. QED BY <1>1, <1>2

\* Someone puts another file there: it is nobody's, and nobody remembers its time.
LEMMA RewriteSound ==
    ASSUME TypeOK, Sound, NEW f \in Files, Rewrite(f)
    PROVE  Sound'
<1>1. /\ destination'[f] = NewObject /\ \A g \in Files \ {f} : destination'[g] = destination[g]
      /\ UNCHANGED <<part, verified, pc, at, out, served, outcome, taken, spec>>
      /\ \A p \in Processes :
             /\ replaced'[p] = replaced[p] \cup {f} /\ misled[p] \subseteq misled'[p]
             /\ pc[p] = "remembering" /\ File(p) = f => f \in misled'[p]
      /\ \E content \in Contents : Write(NewObject, content)
  BY DEF Rewrite, TypeOK, process
<1>2. /\ NewObject \in Objects /\ Exists(NewObject)
      /\ \A g \in Files : NewObject # destination[g] /\ NewObject # part[g]
      /\ \A p \in Processes : NewObject # out[p]
      /\ NewMtime # NoMtime
      /\ \A p \in Processes, g \in Files : verified[p][g] # NewMtime
  BY NewIsApart
<1>3. /\ mtime'[NewObject] = NewMtime
      /\ \A x \in Objects \ {NewObject} : bytes'[x] = bytes[x] /\ mtime'[x] = mtime[x]
      /\ \A g \in Files : Exists(destination[g]) =>
             /\ bytes'[destination[g]] = bytes[destination[g]]
             /\ mtime'[destination[g]] = mtime[destination[g]]
  BY <1>1, <1>2, WriteElsewhere
<1>4. FilesApart'
  BY <1>1, <1>2 DEF Sound, FilesApart
<1>5. WritesApart'
  BY <1>1, <1>2 DEF Sound, WritesApart, File
<1>6. \A g \in Files : Exists(part[g]) =>
          bytes'[part[g]] = bytes[part[g]] /\ mtime'[part[g]] = mtime[part[g]]
  <2>1. \A g \in Files : Exists(part[g]) => part[g] \in Objects \ {NewObject}
    BY <1>2 DEF TypeOK, Exists
  <2>. QED BY <1>3, <2>1
<1>7. Dated' /\ Remembered'
  <2>1. Dated'
    BY <1>1, <1>2, <1>3, <1>6 DEF Sound, Dated
  <2>. QED BY <1>1, <1>2, <1>3, <2>1 DEF Sound, Remembered
<1>8. ASSUME NEW p \in Processes
      PROVE  Knows(p)'
  <2>0. Knows(p) /\ File(p) \in Files /\ File(p)' = File(p) /\ LeftOut' = LeftOut
    BY <1>1, Known DEF File, LeftOut
  <2>1. \A g \in Files : InPlace(p, g) => InPlace(p, g)'
    BY <1>1, <1>3 DEF InPlace, Holds, Gone
  <2>2. pc[p] # "idle" =>
            /\ outcome'[p] = "none" /\ ~LeftOut'
            /\ \A i \in DOMAIN Order : i < at'[p] => InPlace(p, Order[i])'
    BY <1>1, <2>0, <2>1, FilesAre DEF Knows
  <2>3. pc[p] \in {"recalling", "measuring", "hashing", "discarding"} =>
            (Exists(destination[File(p)]) \/ Gone(p, File(p)))'
    BY <1>1, <1>2, <2>0 DEF Knows, Gone
  <2>4. pc[p] \in {"measuring", "hashing"} => NotRemembered(p)'
    BY <1>1, <1>2, <1>3, <2>0 DEF Knows, NotRemembered
  <2>5. pc[p] = "discarding" /\ Holds(File(p), "pinned")' => File(p)' \in replaced'[p]
    <3>1. CASE File(p) = f
      BY <1>1, <2>0, <3>1
    <3>2. CASE File(p) # f
      BY <1>1, <1>3, <2>0, <3>2 DEF Knows, Holds
    <3>. QED BY <3>1, <3>2
  <2>6. pc[p] = "remembering" => Trusted(p, File(p))'
    <3>1. CASE File(p) = f
      BY <1>1, <1>2, <2>0, <3>1 DEF Trusted
    <3>2. CASE File(p) # f
      BY <1>1, <1>3, <2>0, <3>2 DEF Knows, Trusted, Holds, Gone
    <3>. QED BY <3>1, <3>2
  <2>7. /\ pc[p] = "streaming" => out'[p] = part'[File(p)] \/ PartGone(p)'
        /\ \A content : PartHolds(p, content) => PartHolds(p, content)'
    BY <1>1, <1>6, <2>0 DEF Knows, PartHolds, PartGone
  <2>8. /\ pc[p] = "proving" => served'[p] \in Contents /\ PartHolds(p, served[p])'
        /\ pc[p] = "replacing" => PartHolds(p, "pinned")'
    BY <1>1, <2>0, <2>7 DEF Knows
  <2>9. pc[p] = "ensured" /\ spec'.needs_download => \A g \in Files : InPlace(p, g)'
    BY <1>1, <2>0, <2>1 DEF Knows
  <2>10. outcome'[p] \in {"refused", "broken"} =>
             served'[p] \in {"failed", "wrong", "short"} \/ File(p)' \in taken'[p] \/ LeftOut'
    BY <1>1, <2>0 DEF Knows
  <2>11. served'[p] = served[p] /\ pc'[p] = pc[p]
    BY <1>1
  <2>. QED BY <2>0, <2>2, <2>3, <2>4, <2>5, <2>6, <2>7, <2>8, <2>9, <2>10, <2>11 DEF Knows
<1>. QED BY <1>4, <1>5, <1>7, <1>8 DEF Sound

LEMMA TakeAwaySound ==
    ASSUME TypeOK, Sound, NEW f \in Files, TakeAway(f)
    PROVE  Sound'
<1>1. /\ UNCHANGED <<bytes, mtime, verified, pc, at, out, served, outcome, replaced, misled, spec>>
      /\ \A p \in Processes : taken'[p] = taken[p] \cup {f}
      /\ \A g \in Files \ {f} : destination'[g] = destination[g] /\ part'[g] = part[g]
      /\ destination'[f] \in {destination[f], NoObject} /\ part'[f] \in {part[f], NoObject}
  BY DEF TakeAway, TypeOK, process
<1>2. \A g \in Files : /\ Exists(destination'[g]) => destination'[g] = destination[g]
                       /\ Exists(part'[g]) => part'[g] = part[g]
  BY <1>1 DEF Exists
<1>3. FilesApart'
  <2>. SUFFICES ASSUME NEW g \in Files, NEW h \in Files
                PROVE  /\ Exists(destination'[g]) => destination'[g] # part'[h]
                       /\ Exists(destination'[g]) /\ g # h => destination'[g] # destination'[h]
                       /\ Exists(part'[g]) /\ g # h => part'[g] # part'[h]
    BY DEF FilesApart
  <2>1. /\ Exists(destination[g]) => destination[g] # part[h]
        /\ Exists(destination[g]) /\ g # h => destination[g] # destination[h]
        /\ Exists(part[g]) /\ g # h => part[g] # part[h]
    BY DEF Sound, FilesApart
  <2>2. /\ destination'[g] \in {destination[g], NoObject} /\ destination'[h] \in {destination[h], NoObject}
        /\ part'[g] \in {part[g], NoObject} /\ part'[h] \in {part[h], NoObject}
    BY <1>1
  <2>. QED BY <2>1, <2>2 DEF Exists
<1>4. WritesApart'
  <2>. SUFFICES ASSUME NEW p \in Processes, pc[p] = "streaming", NEW g \in Files
                PROVE  Exists(out[p]) /\ out[p] # destination'[g] /\ (out[p] = part'[g] => g = File(p))
    BY <1>1 DEF Sound, WritesApart, File
  <2>1. Exists(out[p]) /\ out[p] # destination[g] /\ (out[p] = part[g] => g = File(p))
    BY DEF Sound, WritesApart
  <2>2. destination'[g] \in {destination[g], NoObject} /\ part'[g] \in {part[g], NoObject}
    BY <1>1
  <2>. QED BY <2>1, <2>2 DEF Exists
<1>5. Dated' /\ Remembered'
  BY <1>1, <1>2 DEF Sound, Dated, Remembered
<1>6. ASSUME NEW p \in Processes
      PROVE  Knows(p)'
  <2>0. Knows(p) /\ File(p) \in Files /\ File(p)' = File(p) /\ LeftOut' = LeftOut
    BY <1>1, Known DEF File, LeftOut
  <2>1. \A g \in Files : InPlace(p, g) => InPlace(p, g)'
    BY <1>1 DEF InPlace, Holds, Gone, Exists
  <2>2. \A g \in Files : (Exists(destination[g]) \/ Gone(p, g)) => (Exists(destination[g]) \/ Gone(p, g))'
    BY <1>1 DEF Gone, Exists
  <2>3. PartGone(p) => PartGone(p)'
    BY <1>1, <2>0 DEF PartGone, Exists
  <2>4. \A content : PartHolds(p, content) => PartHolds(p, content)'
    BY <1>1, <2>0 DEF PartHolds, PartGone, Exists
  <2>5. out[p] = part[File(p)] => out'[p] = part'[File(p)] \/ PartGone(p)'
    BY <1>1, <2>0 DEF PartGone, Exists
  <2>6. \A i \in DOMAIN Order : Order[i] \in Files
    BY FilesAre
  <2>7. UNCHANGED <<pc, at, served, outcome>> /\ taken[p] \subseteq taken'[p]
    BY <1>1
  <2>8. pc[p] # "idle" =>
            /\ outcome[p] = "none" /\ ~LeftOut'
            /\ \A i \in DOMAIN Order : i < at[p] => InPlace(p, Order[i])'
    BY <2>0, <2>1, <2>6 DEF Knows
  <2>9. /\ pc[p] \in {"recalling", "measuring", "hashing", "discarding"} =>
               (Exists(destination[File(p)]) \/ Gone(p, File(p)))'
        /\ pc[p] \in {"measuring", "hashing"} => NotRemembered(p)'
        /\ pc[p] = "discarding" /\ Holds(File(p), "pinned")' => File(p) \in replaced'[p]
        /\ pc[p] = "remembering" => Trusted(p, File(p))'
        /\ pc[p] = "ensured" /\ spec'.needs_download => \A g \in Files : InPlace(p, g)'
    <3>1. (Exists(destination[File(p)]) \/ Gone(p, File(p))) => (Exists(destination[File(p)]) \/ Gone(p, File(p)))'
      BY <1>1, <2>0 DEF Gone, Exists
    <3>2. Trusted(p, File(p)) => Trusted(p, File(p))'
      BY <1>1, <2>0 DEF Trusted, Holds, Gone, Exists
    <3>3. NotRemembered(p) => NotRemembered(p)'
      BY <1>1, <1>2, <2>0 DEF NotRemembered
    <3>4. Holds(File(p), "pinned")' => Holds(File(p), "pinned")
      BY <1>1, <1>2, <2>0 DEF Holds
    <3>. QED BY <1>1, <2>0, <2>1, <3>1, <3>2, <3>3, <3>4 DEF Knows
  <2>10. /\ pc[p] = "streaming" => out'[p] = part'[File(p)] \/ PartGone(p)'
         /\ pc[p] = "proving" => served[p] \in Contents /\ PartHolds(p, served[p])'
         /\ pc[p] = "replacing" => PartHolds(p, "pinned")'
    <3>1. PartHolds(p, served[p]) => PartHolds(p, served[p])'
      BY <1>1, <2>0 DEF PartHolds, PartGone, Exists
    <3>. QED BY <2>0, <2>3, <2>4, <2>5, <3>1 DEF Knows
  <2>11. outcome[p] \in {"refused", "broken"} =>
             served[p] \in {"failed", "wrong", "short"} \/ File(p) \in taken'[p] \/ LeftOut'
    BY <2>0, <2>7 DEF Knows
  <2>. QED BY <2>0, <2>7, <2>8, <2>9, <2>10, <2>11 DEF Knows
<1>. QED BY <1>3, <1>4, <1>5, <1>6 DEF Sound

LEMMA StepSound == TypeOK /\ Alone /\ Sound /\ [Next]_vars => Sound'
<1>. SUFFICES ASSUME TypeOK, Alone, Sound, [Next]_vars PROVE Sound'
  OBVIOUS
<1>1. ASSUME NEW p \in Processes, FetchStep(p)
      PROVE  Sound'
  BY <1>1, CallSound, LookSound, RecallSound, RaiseSound, CheckSound, DiscardSound, RememberSound, OpenSound,
     DownloadFailsSound, StreamSound, ProveSound, ReplaceSound DEF FetchStep
<1>2. CASE UNCHANGED vars
  <2>1. /\ UNCHANGED <<destination, part, bytes, mtime, verified, pc, at, out, served, outcome>>
        /\ UNCHANGED <<taken, replaced, misled, spec>>
    BY <1>2 DEF vars, disk, process, others
  <2>2. FilesApart' /\ WritesApart' /\ Dated' /\ Remembered'
    BY <2>1 DEF Sound, FilesApart, WritesApart, Dated, Remembered, File
  <2>3. \A p \in Processes : Knows(p)'
    BY <2>1 DEF Sound, Knows, InPlace, Trusted, Gone, Holds, PartHolds, PartGone, File, LeftOut,
                NotRemembered
  <2>. QED BY <2>2, <2>3 DEF Sound
<1>. QED BY <1>1, <1>2, CallSound, StopSound, RewriteSound, TakeAwaySound DEF Next

\* What holds in every state of a process that shares its directory with nobody.
THEOREM FetcherInvariant == Spec => []IInv
<1>1. Init => IInv
  <2>. SUFFICES ASSUME Init PROVE IInv
    OBVIOUS
  <2>1. \A f \in Files : ~Exists(destination[f]) /\ ~Exists(part[f])
    BY DEF Init, Exists
  <2>2. \A p \in Processes : pc[p] = "idle" /\ out[p] = NoObject /\ outcome[p] = "none"
    BY DEF Init
  <2>3. FilesApart /\ WritesApart /\ Dated /\ Remembered
    BY <2>1, <2>2 DEF FilesApart, WritesApart, Dated, Remembered
  <2>4. \A p \in Processes : Knows(p)
    BY <2>2 DEF Knows
  <2>. QED BY <2>3, <2>4, InitTyped DEF IInv, Sound
<1>2. IInv /\ [Next]_vars => IInv'
  BY StepTyped, StepSound DEF IInv, Alone
<1>. QED BY <1>1, <1>2, PTL DEF Spec

\* A process alone in its directory: whatever was on disk, whatever the endpoint sent
\* and wherever an earlier attempt was stopped, what ensure_model returns is pinned, but
\* for what someone put there meanwhile, or once put in place of a file between its hash
\* and _remember.
THEOREM PinnedWhenEnsuredHolds ==
    ASSUME Alone
    PROVE  Spec => []PinnedWhenEnsured
<1>1. IInv => PinnedWhenEnsured
  BY DEF IInv, Sound, Knows, PinnedWhenEnsured, InPlace, Gone, LeftOut
<1>. QED BY <1>1, FetcherInvariant, PTL

\* And a call of it fails only over what the endpoint did, over a file taken away, or over
\* a registry that leaves out a digest.
THEOREM OnlyTheEndpointFailsHolds ==
    ASSUME Alone
    PROVE  Spec => []OnlyTheEndpointFails
<1>1. IInv => OnlyTheEndpointFails
  BY DEF IInv, Sound, Knows, OnlyTheEndpointFails, LeftOut
<1>. QED BY <1>1, FetcherInvariant, PTL

\* And no step of it takes a file that has the pinned bytes away or writes to it, unless
\* someone put it there after the call began.
THEOREM GoodFilesStayHolds ==
    ASSUME Alone
    PROVE  Spec => GoodFilesStay
<1>. DEFINE Kept(f) == Holds(f, "pinned") /\ ~Holds(f, "pinned")'
                           => \E p \in Processes : f \in replaced[p]
<1>1. ASSUME IInv, [Next]_vars
      PROVE  (\A f \in Files : Kept(f)) \/ rewrites' # rewrites \/ stops' # stops
  <2>0. TypeOK /\ Sound
    BY <1>1 DEF IInv
  <2>1. ASSUME UNCHANGED <<destination, bytes>>
        PROVE  \A f \in Files : Kept(f)
    BY <2>1 DEF Holds
  <2>2. ASSUME NEW p \in Processes, FetchStep(p)
        PROVE  \A f \in Files : Kept(f)
    <3>0. File(p) \in Files
      BY <2>0, FileIs
    <3>1. CASE \/ Look(p) \/ Recall(p) \/ Vanished(p) \/ Remember(p) \/ DownloadFails(p)
               \/ BreaksOff(p) \/ Prove(p) \/ Use(p) \/ Measure(p) \/ Hash(p)
      <4>1. UNCHANGED <<destination, bytes>>
        BY <3>1 DEF Look, Recall, Vanished, Measure, Hash, Remember, DownloadFails, BreaksOff, Prove, Use, Unlink, disk
      <4>. QED BY <2>1, <4>1
    <3>2. CASE Discard(p)
      <4>1. /\ destination' = [destination EXCEPT ![File(p)] = NoObject] /\ bytes' = bytes
            /\ Holds(File(p), "pinned") => File(p) \in replaced[p]
        BY <2>0, <3>2 DEF Discard, Sound, Knows
      <4>. QED BY <2>0, <3>0, <4>1 DEF TypeOK, Holds
    <3>3. CASE OpenPart(p) \/ \E content \in Contents : Stream(p, content)
      <4>1. \E o \in Objects : \E content : Write(o, content) /\ \A f \in Files : o # destination[f]
        <5>1. CASE OpenPart(p)
          <6>1. CASE Exists(part[File(p)])
            <7>1. Write(part[File(p)], "short")
              BY <5>1, <6>1 DEF OpenPart
            <7>. QED BY <2>0, <3>0, <6>1, <7>1 DEF Sound, FilesApart, TypeOK, Exists
          <6>2. CASE ~Exists(part[File(p)])
            <7>1. Write(NewObject, "short")
              BY <5>1, <6>2 DEF OpenPart
            <7>. QED BY <2>0, <7>1, NewIsApart
          <6>. QED BY <6>1, <6>2
        <5>2. ASSUME NEW content \in Contents, Stream(p, content)
              PROVE  \E left : Write(out[p], left)
          BY <5>2 DEF Stream
        <5>3. pc[p] = "streaming" => out[p] \in Objects /\ \A f \in Files : out[p] # destination[f]
          BY <2>0 DEF Sound, WritesApart, TypeOK, Exists
        <5>4. \A content : Stream(p, content) => pc[p] = "streaming"
          BY DEF Stream
        <5>. QED BY <3>3, <5>1, <5>2, <5>3, <5>4
      <4>2. \A f \in Files : Exists(destination[f]) => bytes'[destination[f]] = bytes[destination[f]]
        BY <2>0, <4>1, WriteElsewhere
      <4>3. UNCHANGED destination
        BY <3>3 DEF OpenPart, Stream
      <4>. QED BY <4>2, <4>3 DEF Holds
    <3>4. CASE Replace(p)
      <4>1. /\ pc[p] = "replacing" /\ Exists(part[File(p)]) /\ bytes' = bytes
            /\ destination' = [destination EXCEPT ![File(p)] = part[File(p)]]
        BY <3>4 DEF Replace
      <4>2. bytes[part[File(p)]] = "pinned"
        BY <2>0, <4>1 DEF Sound, Knows, PartHolds, PartGone
      <4>. QED BY <2>0, <3>0, <4>1, <4>2 DEF TypeOK, Holds
    <3>. QED BY <2>2, <3>1, <3>2, <3>3, <3>4 DEF FetchStep
  <2>3. ASSUME NEW p \in Processes, Call(p)
        PROVE  \A f \in Files : Kept(f)
    <3>1. UNCHANGED <<destination, bytes>>
      BY <2>3 DEF Call, disk
    <3>. QED BY <2>1, <3>1
  <2>4. ASSUME (\E p \in Processes : Restart(p)) \/ PowerLoss
        PROVE  stops' # stops
    <3>1. stops' = stops + 1 /\ stops \in Nat
      BY <2>0, <2>4, FetcherAssumption DEF Restart, PowerLoss, TypeOK
    <3>. QED BY <3>1
  <2>5. ASSUME NEW f \in Files, Rewrite(f) \/ TakeAway(f)
        PROVE  rewrites' # rewrites
    <3>1. rewrites' = rewrites + 1 /\ rewrites \in Nat
      BY <2>0, <2>5, FetcherAssumption DEF Rewrite, TakeAway, TypeOK
    <3>. QED BY <3>1
  <2>6. CASE UNCHANGED vars
    <3>1. UNCHANGED <<destination, bytes>>
      BY <2>6 DEF vars, disk
    <3>. QED BY <2>1, <3>1
  <2>. HIDE DEF Kept
  <2>. QED BY <1>1, <2>2, <2>3, <2>4, <2>5, <2>6 DEF Next
<1>2. IInv /\ [Next]_vars =>
          [\A f \in Files : Holds(f, "pinned") /\ ~Holds(f, "pinned")' =>
              \/ rewrites' # rewrites \/ stops' # stops
              \/ \E p \in Processes : f \in replaced[p]]_vars
  BY <1>1
<1>. QED BY <1>2, FetcherInvariant, PTL DEF Spec, GoodFilesStay
===============================================================================
