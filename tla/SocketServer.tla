----------------------------- MODULE SocketServer -----------------------------
(***************************************************************************)
(* The socket server of a worker (packages/pylibs/worker/src/worker/       *)
(* server.py): the accept loop on the main thread, a thread for each       *)
(* connection it admits, and the signal handler that stops it.             *)
(*                                                                         *)
(* What is said on a connection is DipExchange's subject; here it is open  *)
(* until its peer leaves, its timeout passes or the server stops.          *)
(***************************************************************************)
EXTENDS Naturals, Sequences, FiniteSets

CONSTANTS
    Connections,    \* connections that peers make
    NoConnection,
    MaxConnections, \* MAX_CONNECTIONS
    Backlog         \* LISTEN_BACKLOG

ASSUME ServerAssumption ==
    /\ NoConnection \notin Connections
    /\ MaxConnections \in Nat \ {0} /\ Backlog \in Nat \ {0}

VARIABLES
    main,       \* where the main thread is
    current,    \* the connection it holds, between accept and the next accept
    socket,     \* the listening socket: "none", "open", "shutdown" or "closed"
    path,       \* the socket file exists
    backlog,    \* connections made and not yet accepted
    queued,     \* what the refused peer sent waits for the next recv of the drain
    slots,      \* the count of _slots
    conn,       \* conn[c]: "new", "waiting", "admitted", "served", "refused",
                \* "hungUp" (closed by its thread, the slot not yet given back),
                \* "closed" or "reset" (never accepted)
    stopping,   \* _stopping
    bound       \* the socket was bound, as Health is told

vars == <<main, current, socket, path, backlog, queued, slots, conn, stopping, bound>>

Init ==
    /\ main = "binding" /\ current = NoConnection
    /\ socket = "none" /\ path \in BOOLEAN    \* an unclean exit leaves the file
    /\ backlog = <<>> /\ queued = FALSE /\ slots = MaxConnections
    /\ conn = [c \in Connections |-> "new"]
    /\ stopping = FALSE /\ bound = FALSE

Mark(c, state) == conn' = [conn EXCEPT ![c] = state]

-------------------------------------------------------------------------------
(***************************************************************************)
(* serve_forever, on the main thread.                                      *)
(***************************************************************************)
Bind ==
    /\ main = "binding"
    /\ socket' = "open" /\ path' = TRUE /\ bound' = TRUE
    /\ main' = "looping"
    /\ UNCHANGED <<current, backlog, queued, slots, conn, stopping>>

\* The directory cannot be used: raised before the try, so close() is not called.
BindFails ==
    /\ main = "binding"
    /\ main' = "exited"
    /\ UNCHANGED <<current, socket, path, backlog, queued, slots, conn, stopping, bound>>

Loop ==
    /\ main = "looping"
    /\ main' = IF stopping THEN "closing" ELSE "accepting"
    /\ UNCHANGED <<current, socket, path, backlog, queued, slots, conn, stopping, bound>>

\* A connection made before the shutdown is still there to be accepted after it.
Accept ==
    /\ main = "accepting" /\ backlog # <<>>
    /\ current' = Head(backlog)
    /\ backlog' = Tail(backlog)
    /\ main' = "admitting"
    /\ UNCHANGED <<socket, path, queued, slots, conn, stopping, bound>>

\* accept() raises: the socket was shut down, or the process is out of descriptors,
\* which ends the server as well.
AcceptRaises ==
    /\ main = "accepting"
    /\ main' = "closing"
    /\ UNCHANGED <<current, socket, path, backlog, queued, slots, conn, stopping, bound>>

Admit ==
    /\ main = "admitting" /\ slots > 0
    /\ slots' = slots - 1
    /\ Mark(current, "admitted")
    /\ main' = "starting"
    /\ UNCHANGED <<current, socket, path, backlog, queued, stopping, bound>>

\* At the cap: `busy`, said by the accept loop itself, which then reads what the peer
\* sends, so that its answer is not lost to a reset.
Refuse ==
    /\ main = "admitting" /\ slots = 0
    /\ Mark(current, "refused")
    /\ queued' \in BOOLEAN
    /\ main' = "draining"
    /\ UNCHANGED <<current, socket, path, backlog, slots, stopping, bound>>

\* One recv of the drain: the half second it may last is its own, and starts again.
DrainMore ==
    /\ main = "draining" /\ queued
    /\ queued' = FALSE
    /\ UNCHANGED <<main, current, socket, path, backlog, slots, conn, stopping, bound>>

\* What a bug would do instead: give back a slot that was never taken.
DrainedAndReleased ==
    /\ main = "draining"
    /\ slots' = slots + 1
    /\ Mark(current, "closed")
    /\ current' = NoConnection
    /\ queued' = FALSE
    /\ main' = "looping"
    /\ UNCHANGED <<socket, path, backlog, stopping, bound>>

\* The peer closed, was quiet for as long as one recv waits, or reset the connection,
\* whatever it had sent before.
Drained ==
    /\ main = "draining"
    /\ Mark(current, "closed")
    /\ current' = NoConnection
    /\ queued' = FALSE
    /\ main' = "looping"
    /\ UNCHANGED <<socket, path, backlog, slots, stopping, bound>>

StartThread ==
    /\ main = "starting"
    /\ Mark(current, "served")
    /\ current' = NoConnection
    /\ main' = "looping"
    /\ UNCHANGED <<socket, path, backlog, queued, slots, stopping, bound>>

\* What a bug would do instead: leave the slot to the thread that never ran.
StartThreadLeaks ==
    /\ main = "starting"
    /\ Mark(current, "closed")
    /\ current' = NoConnection
    /\ main' = "looping"
    /\ UNCHANGED <<socket, path, backlog, queued, slots, stopping, bound>>

\* thread.start() raises RuntimeError.
StartThreadFails ==
    /\ main = "starting"
    /\ slots' = slots + 1
    /\ Mark(current, "closed")
    /\ current' = NoConnection
    /\ main' = "looping"
    /\ UNCHANGED <<socket, path, backlog, queued, stopping, bound>>

\* What a bug would do instead: remove the file and leave the socket to the process.
CloseFileOnly ==
    /\ main = "closing"
    /\ path' = FALSE
    /\ main' = "exited"
    /\ UNCHANGED <<current, socket, backlog, queued, slots, conn, stopping, bound>>

\* close(): whoever is still in the backlog is reset.
CloseServer ==
    /\ main = "closing"
    /\ socket' = "closed" /\ path' = FALSE
    /\ conn' = [c \in Connections |-> IF conn[c] = "waiting" /\ c # current
                                      THEN "reset" ELSE conn[c]]
    /\ backlog' = <<>>
    /\ main' = "exited"
    /\ UNCHANGED <<current, queued, slots, stopping, bound>>

-------------------------------------------------------------------------------
(***************************************************************************)
(* A connection thread: serve_connection, then the slot is given back.     *)
(***************************************************************************)

\* The peer left, a timeout passed, a response could not be sent, or the answer to a
\* message was the last one before a stop.
HangUp(c) ==
    /\ conn[c] = "served"
    /\ Mark(c, "hungUp")
    /\ UNCHANGED <<main, current, socket, path, backlog, queued, slots, stopping, bound>>

GiveBackSlot(c) ==
    /\ conn[c] = "hungUp"
    /\ slots' = slots + 1
    /\ Mark(c, "closed")
    /\ UNCHANGED <<main, current, socket, path, backlog, queued, stopping, bound>>

-------------------------------------------------------------------------------
\* The refused peer goes on sending.  Nothing bounds how often.
PeerSends ==
    /\ main = "draining" /\ ~queued
    /\ queued' = TRUE
    /\ UNCHANGED <<main, current, socket, path, backlog, slots, conn, stopping, bound>>

Connect(c) ==
    /\ conn[c] = "new"
    /\ socket = "open" /\ Len(backlog) < Backlog
    /\ backlog' = Append(backlog, c)
    /\ Mark(c, "waiting")
    /\ UNCHANGED <<main, current, socket, path, queued, slots, stopping, bound>>

\* What a bug would do instead: set the flag and wait for accept to notice.
StopFlagOnly ==
    /\ main # "exited" /\ ~stopping
    /\ stopping' = TRUE
    /\ UNCHANGED <<main, current, socket, path, backlog, queued, slots, conn, bound>>

\* stop(), in a signal handler: between any two steps of the main thread.  Before the
\* socket is bound there is nothing to shut down.  Health hears of it with the rest.
Stop ==
    /\ main # "exited" /\ ~stopping
    /\ stopping' = TRUE
    /\ socket' = IF socket = "open" THEN "shutdown" ELSE socket
    /\ UNCHANGED <<main, current, path, backlog, queued, slots, conn, bound>>

MainStep ==
    \/ Bind \/ BindFails \/ Loop \/ Accept \/ AcceptRaises \/ Admit \/ Refuse
    \/ DrainMore \/ Drained \/ StartThread \/ StartThreadFails \/ CloseServer

ThreadStep(c) == HangUp(c) \/ GiveBackSlot(c)

Next ==
    \/ MainStep \/ Stop \/ PeerSends
    \/ \E c \in Connections : Connect(c) \/ ThreadStep(c)

Spec == Init /\ [][Next]_vars

\* accept() returns when there is something to return or to raise, a recv of the drain
\* with what was sent or at its timeout, and a conversation ends, as its peer leaves or
\* its timeout passes.  Nothing makes a refused peer fall quiet.
Fairness ==
    /\ WF_vars(Bind \/ BindFails) /\ WF_vars(Loop) /\ WF_vars(Accept)
    /\ WF_vars(socket # "open" /\ AcceptRaises)
    /\ WF_vars(Admit) /\ WF_vars(Refuse) /\ WF_vars(DrainMore \/ Drained)
    /\ WF_vars(StartThread \/ StartThreadFails) /\ WF_vars(CloseServer)
    /\ \A c \in Connections : WF_vars(ThreadStep(c))

FairSpec == Spec /\ Fairness
-------------------------------------------------------------------------------
\* Every variable keeps to its domain (server.py:141-151, health.py:24).
TypeOK ==
    /\ main \in {"binding", "looping", "accepting", "admitting", "starting", "draining",
                 "closing", "exited"}
    /\ current \in Connections \cup {NoConnection}
    /\ socket \in {"none", "open", "shutdown", "closed"}
    /\ backlog \in Seq(Connections) /\ Len(backlog) <= Backlog
    /\ slots \in 0..MaxConnections
    /\ conn \in [Connections -> {"new", "waiting", "admitted", "served", "refused",
                                 "hungUp", "closed", "reset"}]
    /\ path \in BOOLEAN /\ queued \in BOOLEAN /\ stopping \in BOOLEAN /\ bound \in BOOLEAN

Holding == {c \in Connections : conn[c] \in {"admitted", "served", "hungUp"}}

\* Every slot is either free or held by one connection: none leaks, whether a thread
\* ends or never starts, and none is given back twice, which BoundedSemaphore would
\* raise for (server.py:149, 165-187, 237-238).
SlotsConserved == slots + Cardinality(Holding) = MaxConnections

\* The one thing that keeps the accept loop for ever: a refused peer that never stops
\* sending, since only each recv of the drain has a timeout (receiver.py:111-113).
HeldBySender == <>[](main = "draining") /\ []<>queued

\* Nobody is left waiting: unless a refused peer sends for ever, a connection that was
\* made is served, refused or reset (server.py:158-187, 200-204).
NobodyWaitsForEver ==
    HeldBySender \/ \A c \in Connections : conn[c] = "waiting" ~> conn[c] # "waiting"

\* A stop ends the accept loop and removes the socket file, whenever the signal comes
\* (server.py:191-204), unless a refused peer sends for ever: the stop does not reach its
\* connection.  Only a server that never bound leaves a stale file alone.
StopEndsTheServer == HeldBySender \/ (stopping ~> main = "exited" /\ (bound => ~path))
===============================================================================
