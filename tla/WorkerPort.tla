------------------------------- MODULE WorkerPort -------------------------------
(***************************************************************************)
(* The HTTP port of a worker (packages/pylibs/worker/src/worker/           *)
(* metrics.py): scrapes and the service's routes share a cap on live       *)
(* connections, a connection is kept alive between requests and costs a    *)
(* thread, and the routes that reach the model pass Admission              *)
(* (packages/pylibs/textinfer/src/textinfer/tei.py) and then the lock of   *)
(* the model manager, which DIP loads and inferences take as well.         *)
(*                                                                         *)
(* What a route computes is TextRequest's subject.                         *)
(***************************************************************************)
EXTENDS Naturals, FiniteSets

CONSTANTS
    Connections,    \* peers, each with one connection at a time
    NoOne, Dip,     \* who else may hold the manager lock: nobody, a DIP thread
    MaxScrapes,     \* MAX_SCRAPES
    MaxConcurrent   \* MAX_CONCURRENT_REQUESTS, the limit of Admission

ASSUME PortAssumption ==
    /\ NoOne \notin Connections /\ Dip \notin Connections /\ NoOne # Dip
    /\ MaxScrapes \in Nat /\ MaxConcurrent \in Nat \ {0}

\* Four requests in the model, eight connections (tei.py of each service).
ASSUME BelowThePort == MaxConcurrent < MaxScrapes

VARIABLES
    conn,       \* conn[c]: where the connection of a peer is, below
    slots,      \* the count of _ScrapeServer._slots
    admissions, \* the count of Admission._slots
    lock        \* who holds the manager lock

vars == <<conn, slots, admissions, lock>>

\* Where a connection is while it holds one of the port's slots...
Open == {"starting", "idle", "body", "route", "admission", "waiting", "model", "left",
         "reply", "final", "closing"}

\* ...and one of Admission's, between `acquire` and the `finally`.
Inside == {"waiting", "model", "left"}

Init ==
    /\ conn = [c \in Connections |-> "away"]
    /\ slots = MaxScrapes /\ admissions = MaxConcurrent
    /\ lock = NoOne

Goes(c, from, to) == conn[c] \in from /\ conn' = [conn EXCEPT ![c] = to]

-------------------------------------------------------------------------------
(***************************************************************************)
(* The thread of serve_forever, one connection at a time.                  *)
(***************************************************************************)
Connect(c) ==
    /\ Goes(c, {"away"}, "queued")
    /\ UNCHANGED <<slots, admissions, lock>>

Accepting == \A c \in Connections : conn[c] # "starting"

TakeSlot(c) ==
    /\ Accepting /\ slots > 0
    /\ Goes(c, {"queued"}, "starting")
    /\ slots' = slots - 1
    /\ UNCHANGED <<admissions, lock>>

\* What a bug would do instead: shut the refused connection down as a served one.
RefuseAndRelease(c) ==
    /\ Accepting /\ slots = 0
    /\ Goes(c, {"queued"}, "closing")
    /\ UNCHANGED <<slots, admissions, lock>>

\* At the cap the connection is closed without a word, and the loop goes on.
Refuse(c) ==
    /\ Accepting /\ slots = 0
    /\ Goes(c, {"queued"}, "away")
    /\ UNCHANGED <<slots, admissions, lock>>

StartThread(c) ==
    /\ Goes(c, {"starting"}, "idle")
    /\ UNCHANGED <<slots, admissions, lock>>

\* What a bug would do instead: leave the slot to the thread that never ran.
StartThreadLeaks(c) ==
    /\ Goes(c, {"starting"}, "away")
    /\ UNCHANGED <<slots, admissions, lock>>

\* Thread.start raises; the slot comes back and the loop goes on.
StartThreadFails(c) ==
    /\ Goes(c, {"starting"}, "away")
    /\ slots' = slots + 1
    /\ UNCHANGED <<admissions, lock>>

-------------------------------------------------------------------------------
(***************************************************************************)
(* The thread of a connection: requests, one after the other, and then the *)
(* slot is given back.                                                     *)
(***************************************************************************)

\* A GET goes to its route or to the metrics, a POST has a body to be read, and what is
\* neither, is too long or does not say how long it is, is refused with send_error.
Ask(c) ==
    /\ \/ Goes(c, {"idle"}, "route")
       \/ Goes(c, {"idle"}, "body")
       \/ Goes(c, {"idle"}, "final")
    /\ UNCHANGED <<slots, admissions, lock>>

ReadBody(c) ==
    /\ Goes(c, {"body"}, "route")
    /\ UNCHANGED <<slots, admissions, lock>>

\* The peer closes, or the socket times out: the thread is in a read in both states.
HangUp(c) ==
    /\ Goes(c, {"idle", "body"}, "closing")
    /\ UNCHANGED <<slots, admissions, lock>>

\* Metrics, /info, /health, a method or a body refused: nothing is waited for.
Answer(c) ==
    /\ Goes(c, {"route"}, "reply")
    /\ UNCHANGED <<slots, admissions, lock>>

\* A route that raises is answered with a 500; rendering the metrics is not caught.
Raise(c) ==
    /\ Goes(c, {"route"}, "final") \/ Goes(c, {"route"}, "closing")
    /\ UNCHANGED <<slots, admissions, lock>>

\* A request that parsed reaches Admission.run.
Parsed(c) ==
    /\ Goes(c, {"route"}, "admission")
    /\ UNCHANGED <<slots, admissions, lock>>

Admit(c) ==
    /\ admissions > 0
    /\ Goes(c, {"admission"}, "waiting")
    /\ admissions' = admissions - 1
    /\ UNCHANGED <<slots, lock>>

\* What a bug would do instead: acquire(), which waits.
WaitForAdmission(c) == FALSE

\* acquire(blocking=False): told 429 at once.
Overloaded(c) ==
    /\ admissions = 0
    /\ Goes(c, {"admission"}, "reply")
    /\ UNCHANGED <<slots, admissions, lock>>

\* manager.run: the lock, the engine or NoModelLoaded, and the lock given back.
TakeLock(c) ==
    /\ lock = NoOne
    /\ Goes(c, {"waiting"}, "model")
    /\ lock' = c
    /\ UNCHANGED <<slots, admissions>>

Work(c) ==
    /\ Goes(c, {"model"}, "left")
    /\ lock' = NoOne
    /\ UNCHANGED <<slots, admissions>>

\* The `finally` of Admission.run, whatever the work returned or raised.
GiveBackAdmission(c) ==
    /\ Goes(c, {"left"}, "reply")
    /\ admissions' = admissions + 1
    /\ UNCHANGED <<slots, lock>>

\* The connection is kept for the next request, unless the reply cannot be sent.
SendReply(c) ==
    /\ Goes(c, {"reply"}, "idle") \/ Goes(c, {"reply"}, "closing")
    /\ UNCHANGED <<slots, admissions, lock>>

\* send_error says `Connection: close`.
SendFinal(c) ==
    /\ Goes(c, {"final"}, "closing")
    /\ UNCHANGED <<slots, admissions, lock>>

GiveBackSlot(c) ==
    /\ Goes(c, {"closing"}, "away")
    /\ slots' = slots + 1
    /\ UNCHANGED <<admissions, lock>>

-------------------------------------------------------------------------------
\* A DIP thread loads or infers, for as long as that takes.
DipTakes   == lock = NoOne /\ lock' = Dip /\ UNCHANGED <<conn, slots, admissions>>
DipReturns == lock = Dip /\ lock' = NoOne /\ UNCHANGED <<conn, slots, admissions>>

LoopStep(c) == TakeSlot(c) \/ Refuse(c) \/ StartThread(c) \/ StartThreadFails(c)

\* What a thread does without waiting for the manager lock.
ThreadStep(c) ==
    \/ Ask(c) \/ ReadBody(c) \/ HangUp(c) \/ Answer(c) \/ Raise(c) \/ Parsed(c)
    \/ Admit(c) \/ Overloaded(c) \/ GiveBackAdmission(c)
    \/ SendReply(c) \/ SendFinal(c) \/ GiveBackSlot(c)

Next ==
    \/ \E c \in Connections :
          Connect(c) \/ LoopStep(c) \/ ThreadStep(c) \/ TakeLock(c) \/ Work(c)
    \/ DipTakes \/ DipReturns

Spec == Init /\ [][Next]_vars

\* Every read and write of a thread has a timeout, and a body has a bounded length.  The
\* manager lock is another matter: a load, or an inference, may keep it for ever.
Fairness == \A c \in Connections : WF_vars(LoopStep(c)) /\ WF_vars(ThreadStep(c))

FairSpec == Spec /\ Fairness
-------------------------------------------------------------------------------
\* Every variable keeps to its domain; BoundedSemaphore raises when its count would
\* pass its first value (metrics.py:288, tei.py:42).
TypeOK ==
    /\ conn \in [Connections -> {"away", "queued"} \cup Open]
    /\ slots \in 0..MaxScrapes
    /\ admissions \in 0..MaxConcurrent
    /\ lock \in Connections \cup {NoOne, Dip}

At(states) == {c \in Connections : conn[c] \in states}

\* However a request ends, each of the two counts is what its holders leave of it, and
\* the lock is held by whoever is in the model: no 404, refused body, overload, raising
\* route, lost peer or thread that never started costs the port a slot, and no failing
\* inference costs Admission one (metrics.py:291-306, tei.py:44-58).
Conserved ==
    /\ slots + Cardinality(At(Open)) = MaxScrapes
    /\ admissions + Cardinality(At(Inside)) = MaxConcurrent
    /\ \A c \in Connections : conn[c] = "model" <=> lock = c

\* A model that is busy for ever, or being loaded for ever, does not close the port:
\* again and again a slot is free or its peer has had its answer, so only peers that go
\* on asking can keep a scrape or /info out (metrics.py:318-319: "a route that can be
\* slow must bound itself", tei.py:44-47).
PortStaysOpen == []<>(slots > 0 \/ \E c \in Connections : conn[c] = "idle")
===============================================================================
