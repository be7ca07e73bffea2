------------------------------ MODULE Residency ------------------------------
(***************************************************************************)
(* What a worker promises about its memory, whatever its threads do: at    *)
(* most one model is resident, it is never replaced in place (the old one  *)
(* goes before the new one comes), it is never taken away under a call     *)
(* that is using it, and a call is served by the model that is resident.   *)
(*                                                                         *)
(* packages/pylibs/worker/src/worker/manager.py:3-7 states the promise;    *)
(* ModelManager is the code that keeps it.                                 *)
(***************************************************************************)
CONSTANTS
    Threads,    \* the callers
    Models,     \* the model ids of the registry
    NoModel     \* "no model"

VARIABLES
    resident,   \* the model in memory, or NoModel
    serving     \* serving[t]: the model that is working for t, or NoModel

vars == <<resident, serving>>

InUse == \E t \in Threads : serving[t] # NoModel

Init ==
    /\ resident = NoModel
    /\ serving = [t \in Threads |-> NoModel]

\* A model comes into memory only when nothing is there.
Install(m) ==
    /\ resident = NoModel
    /\ resident' = m
    /\ UNCHANGED serving

\* The resident model leaves only when no call is using it.
Evict ==
    /\ resident # NoModel
    /\ ~InUse
    /\ resident' = NoModel
    /\ UNCHANGED serving

\* A call is taken up by the resident model, one call at a time.
Serve(t) ==
    /\ resident # NoModel
    /\ ~InUse
    /\ serving' = [serving EXCEPT ![t] = resident]
    /\ UNCHANGED resident

Answer(t) ==
    /\ serving[t] # NoModel
    /\ serving' = [serving EXCEPT ![t] = NoModel]
    /\ UNCHANGED resident

Next ==
    \/ \E m \in Models : Install(m)
    \/ Evict
    \/ \E t \in Threads : Serve(t) \/ Answer(t)

Spec == Init /\ [][Next]_vars
==============================================================================
