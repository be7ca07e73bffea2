----------------------------- MODULE DipExchange -----------------------------
(***************************************************************************)
(* One DIP connection: a requester (packages/golibs/dip/requester.go, or   *)
(* with RetireOnFailure = FALSE packages/pylibs/dip/src/dip/requester.py)  *)
(* and the receiver that serves it (packages/pylibs/dip/.../receiver.py),  *)
(* datagram by datagram.                                                   *)
(*                                                                         *)
(* A message is a prologue that announces lengths, then the datagrams of   *)
(* the two sections.  Nothing on the wire says which call a message        *)
(* belongs to: `of` is the modeller's knowledge, and no guard of the two   *)
(* programs reads it.                                                      *)
(***************************************************************************)
EXTENDS Naturals, Sequences

CONSTANTS
    RetireOnFailure,    \* a failed exchange closes the connection
    WithPayload,        \* requests carry a payload, as infer does
    Capacity,           \* datagrams a receive queue holds
    MaxCalls            \* bound: calls on this connection

ASSUME ExchangeAssumption ==
    /\ RetireOnFailure \in BOOLEAN /\ WithPayload \in BOOLEAN
    /\ Capacity \in Nat \ {0} /\ MaxCalls \in Nat

Calls == 1..MaxCalls
Goodbye == 0
Sides == {"requester", "receiver"}

\* Part 0 is the prologue, part 1 the control block, part 2 the payload.
Datagram(n, part) == [of |-> n, part |-> part]
Response(n) == <<Datagram(n, 0), Datagram(n, 1)>>
Request(n)  == IF WithPayload THEN Append(Response(n), Datagram(n, 2)) ELSE Response(n)

\* Reassembly counts bytes against what the prologue announced; it cannot see a
\* boundary.  The prologue and the control block must be JSON objects of the right
\* shape, the payload may be anything.
Complete(box, message) == Len(box) = Len(message)
Malformed(box, message) ==
    \/ box[1].part # 0
    \/ Complete(box, message) /\ box[2].part # 1

VARIABLES
    wire,       \* wire[s]: datagrams sent to side s and not yet read
    closed,     \* the sides that have closed
    reset,      \* the sides whose reads fail: the peer closed on unread datagrams
    rq,         \* requester: "ready", "sending" or "receiving"
    call,       \* the number of the last call
    rqBox,      \* datagrams read of the message the requester is reading
    rqOut,      \* datagrams the requester has still to send
    answers,    \* pairs <<call, whose answer it returned>>
    failed,     \* the calls that raised
    rc,         \* receiver: "idle", "reading", "handling" or "sending"
    rcBox, rcOut,
    last,       \* the receiver closes after what it is sending
    stopping,   \* the server was told to stop
    handled,    \* the messages given to the handler, in order
    room        \* datagrams the send buffers take, by the kernel's and the datagrams' sizes

requester == <<rq, call, rqBox, rqOut, answers, failed>>
receiver == <<rc, rcBox, rcOut, last, stopping, handled>>
vars == <<wire, closed, reset, requester, receiver, room>>

Init ==
    /\ wire = [s \in Sides |-> <<>>]
    /\ closed = {} /\ reset = {}
    /\ rq = "ready" /\ call = 0 /\ rqBox = <<>> /\ rqOut = <<>>
    /\ answers = {} /\ failed = {}
    /\ rc = "idle" /\ rcBox = <<>> /\ rcOut = <<>>
    /\ last = FALSE /\ stopping = FALSE /\ handled = <<>>
    /\ room \in 1..Capacity

(***************************************************************************)
(* SOCK_SEQPACKET.                                                         *)
(***************************************************************************)
Peer(s) == IF s = "requester" THEN "receiver" ELSE "requester"

CanRead(s) == s \notin reset /\ wire[s] # <<>>
\* A send waits while the peer's queue or the sender's own buffer is full.
CanSend(s) ==
    /\ Peer(s) \notin closed
    /\ Len(wire[Peer(s)]) < Capacity
    /\ Len(wire[Peer(s)]) < room

\* Closing a socket with datagrams still queued resets it for the peer.
Close(s) ==
    /\ closed' = closed \cup {s}
    /\ reset' = IF wire[s] = <<>> THEN reset ELSE reset \cup {Peer(s)}
    /\ wire' = [wire EXCEPT ![s] = <<>>]

-------------------------------------------------------------------------------
(***************************************************************************)
(* The requester.                                                          *)
(***************************************************************************)
Call ==
    /\ rq = "ready" /\ call < MaxCalls
    /\ "requester" \notin closed
    /\ call' = call + 1
    /\ rq' = "sending"
    /\ rqOut' = Request(call + 1)
    /\ rqBox' = <<>>
    /\ UNCHANGED <<wire, closed, reset, answers, failed, receiver, room>>

\* ErrConnectionRetired, or an error of the closed socket.
CallRetired ==
    /\ rq = "ready" /\ call < MaxCalls
    /\ "requester" \in closed
    /\ call' = call + 1
    /\ failed' = failed \cup {call + 1}
    /\ UNCHANGED <<wire, closed, reset, rq, rqBox, rqOut, answers, receiver, room>>

RequesterSends ==
    /\ rq = "sending" /\ CanSend("requester")
    /\ wire' = [wire EXCEPT !["receiver"] = Append(@, Head(rqOut))]
    /\ rqOut' = Tail(rqOut)
    /\ rq' = IF Tail(rqOut) = <<>> THEN "receiving" ELSE "sending"
    /\ UNCHANGED <<closed, reset, call, rqBox, answers, failed, receiver, room>>

\* What a bug would do instead: retire nothing, or only what failed while sending.
FailsUnretired(rest) ==
    /\ failed' = failed \cup {call}
    /\ rq' = "ready"
    /\ rqBox' = <<>> /\ rqOut' = <<>>
    /\ wire' = [wire EXCEPT !["requester"] = rest]
    /\ UNCHANGED <<closed, reset, call, answers, receiver, room>>

RetiresSendsOnly(rest) ==
    /\ failed' = failed \cup {call}
    /\ rq' = "ready"
    /\ rqBox' = <<>> /\ rqOut' = <<>>
    /\ IF rq = "sending"
       THEN Close("requester")
       ELSE wire' = [wire EXCEPT !["requester"] = rest] /\ UNCHANGED <<closed, reset>>
    /\ UNCHANGED <<call, answers, receiver, room>>

\* What an exchange that fails leaves: the call raises and the connection is retired,
\* or it is left with `rest` unread.
ExchangeFails(rest) ==
    /\ failed' = failed \cup {call}
    /\ rq' = "ready"
    /\ rqBox' = <<>> /\ rqOut' = <<>>
    /\ IF RetireOnFailure
       THEN Close("requester")
       ELSE wire' = [wire EXCEPT !["requester"] = rest] /\ UNCHANGED <<closed, reset>>
    /\ UNCHANGED <<call, answers, receiver, room>>

\* The deadline passed, the context was cancelled, or the peer closed; or a message
\* over the peer's limits was refused before anything was sent.
GiveUp ==
    /\ rq \in {"sending", "receiving"}
    /\ ExchangeFails(wire["requester"])

RequesterReads ==
    /\ rq = "receiving" /\ CanRead("requester")
    /\ LET box == Append(rqBox, Head(wire["requester"]))
           rest == Tail(wire["requester"])
           reply == Response(call)
       IN IF Malformed(box, reply)
          THEN ExchangeFails(rest)
          ELSE /\ rqBox' = box
               /\ IF Complete(box, reply)
                  THEN answers' = answers \cup {<<call, box[2].of>>} /\ rq' = "ready"
                  ELSE UNCHANGED <<answers, rq>>
               /\ wire' = [wire EXCEPT !["requester"] = rest]
               /\ UNCHANGED <<closed, reset, call, rqOut, failed, receiver, room>>

RequesterCloses ==
    /\ rq = "ready" /\ "requester" \notin closed
    /\ Close("requester")
    /\ UNCHANGED <<requester, receiver, room>>

-------------------------------------------------------------------------------
(***************************************************************************)
(* The receiver: serve_connection.                                         *)
(***************************************************************************)
Reading == rc \in {"idle", "reading"} /\ "receiver" \notin closed

\* The connection is done with: serve_connection returns and its socket is closed.
Hangup == Close("receiver") /\ rc' = "closed"

Say(n, thenClose) ==
    /\ rc' = "sending"
    /\ rcOut' = Response(n)
    /\ last' = thenClose

\* What a bug would do instead: keep the chunks of the last message.
ReadsOnto ==
    /\ Reading /\ CanRead("receiver")
    /\ LET box == Append(rcBox, Head(wire["receiver"])) IN
         /\ rcBox' = box
         /\ IF Complete(box, Request(1))
            THEN rc' = "handling" /\ handled' = Append(handled, box)
            ELSE rc' = "reading" /\ UNCHANGED handled
    /\ wire' = [wire EXCEPT !["receiver"] = Tail(@)]
    /\ UNCHANGED <<closed, reset, requester, rcOut, last, stopping, room>>

ReceiverReads ==
    /\ Reading /\ CanRead("receiver")
    /\ LET box == Append(rcBox, Head(wire["receiver"])) IN
         IF Malformed(box, Request(1))
         THEN Say(Goodbye, TRUE) /\ rcBox' = <<>> /\ UNCHANGED handled
         ELSE IF Complete(box, Request(1))
         THEN /\ rc' = "handling"
              /\ rcBox' = <<>>
              /\ handled' = Append(handled, box)
              /\ UNCHANGED <<rcOut, last>>
         ELSE rc' = "reading" /\ rcBox' = box /\ UNCHANGED <<rcOut, last, handled>>
    /\ wire' = [wire EXCEPT !["receiver"] = Tail(@)]
    /\ UNCHANGED <<closed, reset, requester, stopping, room>>

\* What a bug would do instead: take an empty read in the middle of a message for a
\* chunk of no bytes, and go on reading.
GoneBetweenMessages ==
    /\ Reading /\ rc = "idle"
    /\ "requester" \in closed
    /\ wire["receiver"] = <<>> \/ "receiver" \in reset
    /\ Hangup
    /\ UNCHANGED <<requester, rcBox, rcOut, last, stopping, handled, room>>

\* PeerGone, or the reset connection's OSError.
PeerIsGone ==
    /\ Reading
    /\ "requester" \in closed
    /\ wire["receiver"] = <<>> \/ "receiver" \in reset
    /\ Hangup
    /\ UNCHANGED <<requester, rcBox, rcOut, last, stopping, handled, room>>

\* Nothing came for the idle or the message timeout: a refusal nobody asked for.
TimesOut ==
    /\ Reading
    /\ wire["receiver"] = <<>> /\ "requester" \notin closed
    /\ Say(Goodbye, TRUE)
    /\ rcBox' = <<>>
    /\ UNCHANGED <<wire, closed, reset, requester, stopping, handled, room>>

\* The handler returns.  A response over the ceiling becomes a refusal, and the last.
Answer ==
    /\ rc = "handling"
    /\ LET n == handled[Len(handled)][2].of IN
         \/ Say(n, FALSE)
         \/ Say(n, TRUE)
    /\ UNCHANGED <<wire, closed, reset, requester, rcBox, stopping, handled, room>>

ReceiverSends ==
    /\ rc = "sending" /\ CanSend("receiver") /\ Len(rcOut) > 1
    /\ wire' = [wire EXCEPT !["requester"] = Append(@, Head(rcOut))]
    /\ rcOut' = Tail(rcOut)
    /\ UNCHANGED <<closed, reset, requester, rc, rcBox, last, stopping, handled, room>>

\* The last datagram is out: on to the next message, unless the server is stopping.
ReceiverAnswered ==
    /\ rc = "sending" /\ CanSend("receiver") /\ Len(rcOut) = 1
    /\ rcOut' = <<>>
    /\ LET sent == Append(wire["requester"], Head(rcOut)) IN
         IF last \/ stopping
         THEN /\ rc' = "closed"
              /\ closed' = closed \cup {"receiver"}
              /\ reset' = IF wire["receiver"] = <<>> THEN reset
                                                     ELSE reset \cup {"requester"}
              /\ wire' = [wire EXCEPT !["requester"] = sent, !["receiver"] = <<>>]
         ELSE /\ rc' = "idle"
              /\ wire' = [wire EXCEPT !["requester"] = sent]
              /\ UNCHANGED <<closed, reset>>
    /\ UNCHANGED <<requester, rcBox, last, stopping, handled, room>>

\* The peer is gone, or stopped reading for the send timeout.
ReceiverCannotSend ==
    /\ rc = "sending" /\ ~CanSend("receiver")
    /\ Hangup
    /\ UNCHANGED <<requester, rcBox, rcOut, last, stopping, handled, room>>

\* server.stop(): seen only between two messages.
Stop ==
    /\ ~stopping /\ rc # "closed"
    /\ stopping' = TRUE
    /\ UNCHANGED <<wire, closed, reset, requester, rc, rcBox, rcOut, last, handled, room>>

-------------------------------------------------------------------------------
RequesterStep ==
    \/ Call \/ CallRetired \/ RequesterSends \/ GiveUp
    \/ RequesterReads \/ RequesterCloses

ReceiverStep ==
    \/ ReceiverReads \/ PeerIsGone \/ TimesOut \/ Answer
    \/ ReceiverSends \/ ReceiverAnswered \/ ReceiverCannotSend

Next == RequesterStep \/ ReceiverStep \/ Stop

Spec == Init /\ [][Next]_vars

\* The connection thread runs, the handler returns and every wait has its timeout.
FairSpec == Spec /\ WF_vars(ReceiverStep)
-------------------------------------------------------------------------------
\* Every variable keeps to its domain.
TypeOK ==
    LET Datagrams == [of : 0..MaxCalls, part : 0..2]
        Few == UNION {[1..k -> Datagrams] : k \in 0..3}
    IN /\ \A s \in Sides : \A k \in DOMAIN wire[s] : wire[s][k] \in Datagrams
       /\ \A s \in Sides : Len(wire[s]) <= Capacity
       /\ closed \subseteq Sides /\ reset \subseteq Sides
       /\ rq \in {"ready", "sending", "receiving"} /\ call \in 0..MaxCalls
       /\ \A box \in {rqBox, rqOut, rcBox, rcOut} : box \in Few
       /\ answers \subseteq Calls \X (0..MaxCalls) /\ failed \subseteq Calls
       /\ rc \in {"idle", "reading", "handling", "sending", "closed"}
       /\ last \in BOOLEAN /\ stopping \in BOOLEAN
       /\ \A k \in DOMAIN handled : handled[k] \in Few
       /\ room \in 1..Capacity

\* "One message out, one message back" (requester.py:66): an answer a call returns
\* is the receiver's answer to that call, or the refusal of a receiver that closes.
\* A late answer is never taken for the next one (requester.go:16-20).
AnswersTheCall == \A a \in answers : a[2] = a[1] \/ a[2] = Goodbye

\* What the handler is given is one request, whole: its prologue, its control block
\* and its own payload, although reassembly counts bytes and sees no boundary
\* (framing.py:200-214).
HandledWhole == \A k \in DOMAIN handled : \E n \in Calls : handled[k] = Request(n)

\* Every request is carried out at most once and in order, and an answer means that
\* its own request was carried out.
Rpc == INSTANCE AtMostOnce WITH
    asked <- call,
    executed <- [k \in DOMAIN handled |-> handled[k][2].of]

KeepsAtMostOnce == Rpc!Spec

\* Once the requester has closed, the receiver's connection ends too, so its thread
\* and its slot come back (receiver.py:38-64, server.py:225-238); and while the requester
\* stays but sends no more, or reads no more, also when both wait on full buffers, a
\* message begun and an answer being sent come to an end (receiver.py:67-97).
ReceiverLetsGo ==
    /\ "requester" \in closed ~> "receiver" \in closed
    /\ rc \in {"reading", "handling", "sending"} ~> rc \in {"idle", "closed"}
===============================================================================
