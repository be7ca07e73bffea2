-------------------------------- MODULE Fetcher --------------------------------
(***************************************************************************)
(* Making the files of one model present and proven                        *)
(* (packages/pylibs/worker/src/worker/fetcher.py): ensure_model, in one    *)
(* process at a time for each thread that holds the manager's _fetch_lock, *)
(* and in as many processes as share a models directory: a worker, and the *)
(* export scripts of inferences-system-one.                                *)
(*                                                                         *)
(* A step is one call on the file system or one answer of the endpoint.    *)
(* Sizes and digests are what they tell apart: the pinned bytes, other     *)
(* bytes of the pinned size, and bytes of another size.                    *)
(***************************************************************************)
EXTENDS Naturals, Sequences, FiniteSets, SequencesExt

CONSTANTS
    Processes,
    Order,          \* the files of the model, in registry order
    Sized,          \* the files whose registry entry has `bytes`
    Objects,        \* identities of files on disk, reused once nothing names them
    NoObject,
    Mtimes,         \* modification times; one that nobody remembers may be used again
    NoMtime,
    MaxStops,       \* bound: restarts of processes and power losses
    MaxRewrites     \* bound: files replaced behind the fetcher's back

Files == ToSet(Order)
Contents == {"pinned", "wrong", "short"}

ASSUME FetcherAssumption ==
    /\ Order \in Seq(Files) /\ Order # <<>> /\ IsInjective(Order) /\ Sized \subseteq Files
    /\ NoObject \notin Objects /\ NoMtime \notin Mtimes
    /\ IsFiniteSet(Processes) /\ IsFiniteSet(Objects) /\ IsFiniteSet(Mtimes)
    /\ Cardinality(Objects) > 2 * Len(Order) + Cardinality(Processes)
    /\ Cardinality(Mtimes) > (Cardinality(Processes) * Len(Order)) + Cardinality(Objects)
    /\ MaxStops \in Nat /\ MaxRewrites \in Nat

VARIABLES
    destination, part,  \* the object a file's path names, and that of its .part
    bytes, mtime,       \* what an object holds, and when it was last written
    verified,           \* _verified of each process, as the mtime it remembers
    pc, at,             \* where each process is, and the place in Order of its file
    out,                \* the object it has open for writing
    served,             \* history: what the endpoint sent it for its file
    outcome,            \* history: how its last call ended
    taken, replaced,    \* history: the files someone removed, or put others in place of,
                        \* since that call began
    misled,             \* history: the files replaced after the process hashed them, and
                        \* before it remembered that
    spec,               \* whether the model is downloaded, and its files without a digest
    stops, rewrites

disk == <<destination, part, bytes, mtime>>
process == <<pc, at, out, served, outcome>>
others == <<taken, replaced, misled, spec, stops, rewrites>>
vars == <<disk, verified, process, others>>

File(p) == Order[at[p]]

Init ==
    /\ destination = [f \in Files |-> NoObject] /\ part = [f \in Files |-> NoObject]
    /\ bytes = [o \in Objects |-> "short"] /\ mtime = [o \in Objects |-> NoMtime]
    /\ verified = [p \in Processes |-> [f \in Files |-> NoMtime]]
    /\ pc = [p \in Processes |-> "idle"] /\ at = [p \in Processes |-> 1]
    /\ out = [p \in Processes |-> NoObject]
    /\ served = [p \in Processes |-> "nothing"]
    /\ outcome = [p \in Processes |-> "none"]
    /\ taken = [p \in Processes |-> {}] /\ replaced = [p \in Processes |-> {}]
    /\ misled = [p \in Processes |-> {}]
    /\ spec \in [needs_download : BOOLEAN, unpinned : SUBSET Files]
    /\ stops = 0 /\ rewrites = 0

-------------------------------------------------------------------------------
(***************************************************************************)
(* The file system.                                                        *)
(***************************************************************************)
Named == {destination[f] : f \in Files} \cup {part[f] : f \in Files}
         \cup {out[p] : p \in Processes}
NewObject == CHOOSE o \in Objects : o \notin Named
NewMtime == CHOOSE t \in Mtimes :
    /\ \A p \in Processes, f \in Files : verified[p][f] # t
    /\ \A o \in Named \ {NoObject} : mtime[o] # t

\* Object o now holds `content`.
Write(o, content) ==
    /\ bytes' = [bytes EXCEPT ![o] = content]
    /\ mtime' = [mtime EXCEPT ![o] = NewMtime]

Exists(path) == path # NoObject

Goto(p, label) ==
    /\ pc' = [pc EXCEPT ![p] = label]
    /\ UNCHANGED <<at, out, served, outcome>>

\* ensure_model raises: the endpoint or the bytes were refused ("refused"), or an
\* exception came that _ensure_file does not expect ("broken").
Raise(p, how) ==
    /\ pc' = [pc EXCEPT ![p] = "idle"]
    /\ out' = [out EXCEPT ![p] = NoObject]
    /\ outcome' = [outcome EXCEPT ![p] = how]
    /\ UNCHANGED at

\* What a bug would do instead: miscount the files.
AdvancePastTheEnd(p) ==
    /\ pc' = [pc EXCEPT ![p] = IF at[p] <= Len(Order) THEN "looking" ELSE "ensured"]
    /\ at' = [at EXCEPT ![p] = @ + 1]
    /\ served' = [served EXCEPT ![p] = "nothing"]
    /\ UNCHANGED <<out, outcome>>

\* The next file of the model, or the return of ensure_model.
Advance(p) ==
    /\ IF at[p] < Len(Order)
       THEN pc' = [pc EXCEPT ![p] = "looking"] /\ at' = [at EXCEPT ![p] = @ + 1]
       ELSE pc' = [pc EXCEPT ![p] = "ensured"] /\ UNCHANGED at
    /\ served' = [served EXCEPT ![p] = "nothing"]
    /\ UNCHANGED <<out, outcome>>

-------------------------------------------------------------------------------
(***************************************************************************)
(* ensure_model and _ensure_file.                                          *)
(***************************************************************************)
\* A model that is not downloaded has no files to look at; one with a file that has no
\* digest is refused before any of its files is.
Call(p) ==
    /\ pc[p] = "idle"
    /\ LET refused == spec.needs_download /\ spec.unpinned # {} IN
         /\ pc' = [pc EXCEPT ![p] = IF ~spec.needs_download THEN "ensured"
                                    ELSE IF refused THEN "idle" ELSE "looking"]
         /\ outcome' = [outcome EXCEPT ![p] = IF refused THEN "refused" ELSE "none"]
    /\ at' = [at EXCEPT ![p] = 1]
    /\ served' = [served EXCEPT ![p] = "nothing"]
    /\ taken' = [taken EXCEPT ![p] = {}] /\ replaced' = [replaced EXCEPT ![p] = {}]
    /\ UNCHANGED <<out, disk, verified, misled, spec, stops, rewrites>>

Look(p) ==
    /\ pc[p] = "looking"
    /\ Goto(p, IF Exists(destination[File(p)]) THEN "recalling" ELSE "asking")
    /\ UNCHANGED <<disk, verified, others>>

AlreadyVerified(p) ==
    /\ Exists(destination[File(p)])
    /\ verified[p][File(p)] = mtime[destination[File(p)]]

\* What a bug would do instead: remember by path alone.
RecallThePath(p) ==
    /\ pc[p] = "recalling"
    /\ IF Exists(destination[File(p)]) /\ verified[p][File(p)] # NoMtime
       THEN Advance(p) ELSE Goto(p, "measuring")
    /\ UNCHANGED <<disk, verified, others>>

Recall(p) ==
    /\ pc[p] = "recalling"
    /\ IF AlreadyVerified(p) THEN Advance(p) ELSE Goto(p, "measuring")
    /\ UNCHANGED <<disk, verified, others>>

\* The file that a step expected is gone.
Vanished(p) ==
    /\ \/ /\ pc[p] \in {"measuring", "hashing", "discarding", "remembering"}
          /\ ~Exists(destination[File(p)])
       \/ pc[p] \in {"proving", "replacing"} /\ ~Exists(part[File(p)])
    /\ Raise(p, "broken")
    /\ UNCHANGED <<served, disk, verified, others>>

Measure(p) ==
    /\ pc[p] = "measuring" /\ Exists(destination[File(p)])
    /\ Goto(p, IF File(p) \in Sized /\ bytes[destination[File(p)]] = "short"
               THEN "discarding" ELSE "hashing")
    /\ UNCHANGED <<disk, verified, others>>

\* The file has been hashed: what is put in its place from now on has not.
Hashed(p) == misled' = [misled EXCEPT ![p] = @ \ {File(p)}]

\* What a bug would do instead: download again whatever is not remembered.
HashNothing(p) ==
    /\ pc[p] = "hashing" /\ Exists(destination[File(p)])
    /\ Goto(p, "discarding")
    /\ Hashed(p)
    /\ UNCHANGED <<disk, verified, taken, replaced, spec, stops, rewrites>>

Hash(p) ==
    /\ pc[p] = "hashing" /\ Exists(destination[File(p)])
    /\ Goto(p, IF bytes[destination[File(p)]] = "pinned" THEN "remembering" ELSE "discarding")
    /\ Hashed(p)
    /\ UNCHANGED <<disk, verified, taken, replaced, spec, stops, rewrites>>

\* The cached file was not the one that was pinned: unlink it and download.
Discard(p) ==
    /\ pc[p] = "discarding" /\ Exists(destination[File(p)])
    /\ destination' = [destination EXCEPT ![File(p)] = NoObject]
    /\ Goto(p, "asking")
    /\ UNCHANGED <<part, bytes, mtime, verified, others>>

\* _remember looks at the file again, after it was hashed or put in place.
Remember(p) ==
    /\ pc[p] = "remembering" /\ Exists(destination[File(p)])
    /\ verified' = [verified EXCEPT ![p][File(p)] = mtime[destination[File(p)]]]
    /\ Advance(p)
    /\ UNCHANGED <<disk, others>>

-------------------------------------------------------------------------------
(***************************************************************************)
(* The download.                                                           *)
(***************************************************************************)
Unlink(f) ==
    /\ part' = [part EXCEPT ![f] = NoObject]
    /\ UNCHANGED <<destination, bytes, mtime>>

\* What a bug would do instead: leave a .part to whoever began it.
OpenNewPart(p) ==
    /\ pc[p] = "asking"
    /\ IF Exists(part[File(p)])
       THEN Raise(p, "broken") /\ UNCHANGED <<served, disk>>
       ELSE /\ part' = [part EXCEPT ![File(p)] = NewObject]
            /\ out' = [out EXCEPT ![p] = NewObject]
            /\ Write(NewObject, "short")
            /\ pc' = [pc EXCEPT ![p] = "streaming"]
            /\ UNCHANGED <<destination, at, served, outcome>>
    /\ UNCHANGED <<verified, others>>

\* urlopen answers and the .part is opened, which empties one that is there.
OpenPart(p) ==
    /\ pc[p] = "asking"
    /\ LET o == IF Exists(part[File(p)]) THEN part[File(p)] ELSE NewObject IN
         /\ part' = [part EXCEPT ![File(p)] = o]
         /\ out' = [out EXCEPT ![p] = o]
         /\ Write(o, "short")
    /\ pc' = [pc EXCEPT ![p] = "streaming"]
    /\ UNCHANGED <<destination, at, served, outcome, verified, others>>

\* URLError, OSError, or more bytes than the registry pins.
DownloadFails(p) ==
    /\ pc[p] \in {"asking", "streaming"}
    /\ Unlink(File(p))
    /\ served' = [served EXCEPT ![p] = "failed"]
    /\ Raise(p, "refused")
    /\ UNCHANGED <<verified, others>>

\* An HTTPException, as when a chunked body ends early: no clause catches it.
BreaksOff(p) ==
    /\ pc[p] \in {"asking", "streaming"}
    /\ served' = [served EXCEPT ![p] = "failed"]
    /\ Raise(p, "broken")
    /\ UNCHANGED <<disk, verified, others>>

\* What else is being written to the same object can be in what this stream leaves.
Streamed(p, content) ==
    IF \E q \in Processes \ {p} : out[q] = out[p] THEN {content, "wrong"} ELSE {content}

\* The whole body: the size counted is that of this stream.
Stream(p, content) ==
    /\ pc[p] = "streaming"
    /\ served' = [served EXCEPT ![p] = content]
    /\ \E left \in Streamed(p, content) : Write(out[p], left)
    /\ out' = [out EXCEPT ![p] = NoObject]
    /\ IF File(p) \in Sized /\ content = "short"
       THEN /\ part' = [part EXCEPT ![File(p)] = NoObject]
            /\ pc' = [pc EXCEPT ![p] = "idle"]
            /\ outcome' = [outcome EXCEPT ![p] = "refused"]
       ELSE /\ pc' = [pc EXCEPT ![p] = "proving"]
            /\ UNCHANGED <<part, outcome>>
    /\ UNCHANGED <<destination, at, verified, others>>

\* What a bug would do instead: ask again until the endpoint has the pinned bytes.
ProveOrAskAgain(p) ==
    /\ pc[p] = "proving" /\ Exists(part[File(p)])
    /\ Goto(p, IF bytes[part[File(p)]] = "pinned" THEN "replacing" ELSE "asking")
    /\ UNCHANGED <<disk, verified, others>>

Prove(p) ==
    /\ pc[p] = "proving" /\ Exists(part[File(p)])
    /\ IF bytes[part[File(p)]] = "pinned"
       THEN Goto(p, "replacing") /\ UNCHANGED disk
       ELSE Raise(p, "refused") /\ Unlink(File(p)) /\ UNCHANGED served
    /\ UNCHANGED <<verified, others>>

Replace(p) ==
    /\ pc[p] = "replacing" /\ Exists(part[File(p)])
    /\ destination' = [destination EXCEPT ![File(p)] = part[File(p)]]
    /\ part' = [part EXCEPT ![File(p)] = NoObject]
    /\ Goto(p, "remembering")
    /\ Hashed(p)
    /\ UNCHANGED <<bytes, mtime, verified, taken, replaced, spec, stops, rewrites>>

\* The caller has opened what it was told is there: the engine is built.
Use(p) ==
    /\ pc[p] = "ensured"
    /\ pc' = [pc EXCEPT ![p] = "idle"]
    /\ outcome' = [outcome EXCEPT ![p] = "ensured"]
    /\ UNCHANGED <<at, out, served, disk, verified, others>>

-------------------------------------------------------------------------------
(***************************************************************************)
(* What happens to a models directory.                                     *)
(***************************************************************************)
\* A process stops and starts again, anywhere in ensure_model.
Restart(p) ==
    /\ stops < MaxStops /\ stops' = stops + 1
    /\ pc' = [pc EXCEPT ![p] = "idle"]
    /\ out' = [out EXCEPT ![p] = NoObject]
    /\ outcome' = [outcome EXCEPT ![p] = "none"]
    /\ verified' = [verified EXCEPT ![p] = [f \in Files |-> NoMtime]]
    /\ misled' = [misled EXCEPT ![p] = {}]
    /\ UNCHANGED <<at, served, disk, taken, replaced, spec, rewrites>>

\* The machine stops: a file that was renamed and never synced may have lost its bytes.
PowerLoss ==
    /\ stops < MaxStops /\ stops' = stops + 1
    /\ \E f \in Files, content \in Contents :
         /\ Exists(destination[f])
         /\ bytes' = [bytes EXCEPT ![destination[f]] = content]
    /\ pc' = [p \in Processes |-> "idle"]
    /\ out' = [p \in Processes |-> NoObject]
    /\ outcome' = [p \in Processes |-> "none"]
    /\ verified' = [p \in Processes |-> [f \in Files |-> NoMtime]]
    /\ misled' = [p \in Processes |-> {}]
    /\ UNCHANGED <<at, served, destination, part, mtime, taken, replaced, spec, rewrites>>

\* Someone puts another file there, at any time.
Rewrite(f) ==
    /\ rewrites < MaxRewrites /\ rewrites' = rewrites + 1
    /\ destination' = [destination EXCEPT ![f] = NewObject]
    /\ \E content \in Contents : Write(NewObject, content)
    /\ replaced' = [p \in Processes |-> replaced[p] \cup {f}]
    /\ misled' = [p \in Processes |->
                     IF pc[p] = "remembering" /\ File(p) = f THEN misled[p] \cup {f} ELSE misled[p]]
    /\ UNCHANGED <<part, verified, process, taken, spec, stops>>

\* Someone removes a file, or its part, at any time.
TakeAway(f) ==
    /\ rewrites < MaxRewrites /\ rewrites' = rewrites + 1
    /\ \/ /\ Exists(destination[f])
          /\ destination' = [destination EXCEPT ![f] = NoObject]
          /\ UNCHANGED part
       \/ /\ Exists(part[f])
          /\ part' = [part EXCEPT ![f] = NoObject]
          /\ UNCHANGED destination
    /\ taken' = [p \in Processes |-> taken[p] \cup {f}]
    /\ UNCHANGED <<bytes, mtime, verified, process, replaced, misled, spec, stops>>

FetchStep(p) ==
    \/ Look(p) \/ Recall(p) \/ Vanished(p) \/ Measure(p) \/ Hash(p) \/ Discard(p)
    \/ Remember(p)
    \/ OpenPart(p) \/ DownloadFails(p) \/ BreaksOff(p)
    \/ (\E content \in Contents : Stream(p, content))
    \/ Prove(p) \/ Replace(p) \/ Use(p)

Next ==
    \/ \E p \in Processes : Call(p) \/ FetchStep(p) \/ Restart(p)
    \/ PowerLoss
    \/ \E f \in Files : Rewrite(f) \/ TakeAway(f)

Spec == Init /\ [][Next]_vars

\* Every call on the file system returns, and the endpoint answers or a read times out.
FairSpec == Spec /\ \A p \in Processes : WF_vars(FetchStep(p))

-------------------------------------------------------------------------------
\* Every variable keeps to its domain.
TypeOK ==
    /\ destination \in [Files -> Objects \cup {NoObject}]
    /\ part \in [Files -> Objects \cup {NoObject}]
    /\ bytes \in [Objects -> Contents]
    /\ mtime \in [Objects -> Mtimes \cup {NoMtime}]
    /\ verified \in [Processes -> [Files -> Mtimes \cup {NoMtime}]]
    /\ pc \in [Processes -> {"idle", "looking", "recalling", "measuring", "hashing",
                             "discarding", "remembering", "asking", "streaming", "proving", "replacing",
                             "ensured"}]
    /\ at \in [Processes -> DOMAIN Order]
    /\ out \in [Processes -> Objects \cup {NoObject}]
    /\ served \in [Processes -> Contents \cup {"nothing", "failed"}]
    /\ outcome \in [Processes -> {"none", "refused", "broken", "ensured"}]
    /\ taken \in [Processes -> SUBSET Files] /\ replaced \in [Processes -> SUBSET Files]
    /\ misled \in [Processes -> SUBSET Files]
    /\ spec \in [needs_download : BOOLEAN, unpinned : SUBSET Files]
    /\ stops \in 0..MaxStops /\ rewrites \in 0..MaxRewrites

Holds(f, content) == Exists(destination[f]) /\ bytes[destination[f]] = content

\* When ensure_model returns, every file of the model has a digest and is the one that was
\* pinned: a file that is not is "never silently accepted" (fetcher.py:47-48, 66-79),
\* whatever was on disk before, whatever this process remembers of it, and wherever an
\* earlier attempt was stopped.  The exceptions are what someone removes or replaces
\* meanwhile, and what someone once put in place of a file between its hash and _remember:
\* of that the process remembers the time, and takes it for the file it hashed until it
\* is written again (fetcher.py:106-108, 146-147, 180-183).
PinnedWhenEnsured ==
    \A p \in Processes : pc[p] = "ensured" /\ spec.needs_download =>
        /\ spec.unpinned = {}
        /\ \A f \in Files \ (replaced[p] \cup misled[p]) :
              Holds(f, "pinned") \/ (f \in taken[p] /\ ~Exists(destination[f]))

\* A call fails only over what the endpoint did, over a file that was removed while it was
\* being looked at, or over a registry that leaves out a digest: nothing that is found on
\* disk, be it a part left by an attempt that was stopped or a file that is not the pinned
\* one, keeps a load from succeeding when the endpoint has the pinned bytes
\* (fetcher.py:71-151).
OnlyTheEndpointFails ==
    \A p \in Processes : outcome[p] \in {"refused", "broken"} =>
        \/ served[p] \in {"failed", "wrong", "short"} \/ File(p) \in taken[p]
        \/ spec.needs_download /\ spec.unpinned # {}

\* Files that have the pinned bytes are left alone (fetcher.py:69): the fetcher never
\* takes one away or writes to it, not even when it has forgotten it.  Only one that was
\* put there after the call began can be unlinked for what was there before it
\* (fetcher.py:95-118).
GoodFilesStay ==
    [][\A f \in Files : Holds(f, "pinned") /\ ~Holds(f, "pinned")' =>
         \/ rewrites' # rewrites \/ stops' # stops
         \/ \E p \in Processes : f \in replaced[p]]_vars

\* A load does not hold _fetch_lock for ever (manager.py:117-121): ensure_model asks for
\* each file once, and returns or raises whatever the endpoint sends.
CallsEnd == \A p \in Processes : pc[p] # "idle" ~> pc[p] = "idle"
===============================================================================
