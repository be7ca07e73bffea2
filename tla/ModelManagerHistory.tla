------------------------- MODULE ModelManagerHistory -------------------------
(***************************************************************************)
(* ModelManager with a history variable: how the last swap ended.  Swaps   *)
(* are ordered by _lock, so there is no doubt about which one was last.    *)
(***************************************************************************)
EXTENDS ModelManager

VARIABLE lastSwap   \* "none" yet, "built", "failed", or an "unload"

HInit == Init /\ lastSwap = "none"

\* BuildDone, BuildFails and ClearOnUnload end a swap; no other step does.
HNext ==
    \E t \in Threads :
        \/ BuildDone(t) /\ lastSwap' = "built"
        \/ BuildFails(t) /\ lastSwap' = "failed"
        \/ ClearOnUnload(t) /\ lastSwap' = "unload"
        \/ /\ Call(t) \/ Step(t)
           /\ pc[t] \notin {"building", "clearing"}
           /\ UNCHANGED lastSwap

HSpec == HInit /\ [][HNext]_<<vars, lastSwap>>

\* "Sticky until the next successful load or an unload, so readiness can tell a
\* worker with nothing loaded from one whose last load failed" (manager.py:56-57):
\* at rest, a worker that a failed swap has emptied still knows it.
FailureIsRemembered ==
    (\A t \in Threads : pc[t] = "idle") /\ resident = NoModel /\ lastSwap = "failed"
        => lastError # NoModel
==============================================================================
