--------------------------- MODULE DipExchangeProofs ---------------------------
(***************************************************************************)
(* What one DIP connection promises, for any number of calls and any       *)
(* buffer: that its variables keep to their domains whatever the requester *)
(* does after a failure, and, when a failed exchange retires the           *)
(* connection, that every message the two sides read is one that the other *)
(* side sent, whole.                                                       *)
(***************************************************************************)
EXTENDS DipExchange, SequenceTheorems, TLAPS

Datagrams == [of : 0..MaxCalls, part : 0..2]

\* The datagrams of a request.
Parts == IF WithPayload THEN 3 ELSE 2

(***************************************************************************)
(* What holds however the requester goes on after a failure.               *)
(***************************************************************************)
Plain ==
    /\ \A s \in Sides : Len(wire[s]) <= Capacity
    /\ closed \subseteq Sides /\ reset \subseteq Sides
    /\ rq \in {"ready", "sending", "receiving"} /\ call \in 0..MaxCalls
    /\ answers \subseteq Calls \X (0..MaxCalls) /\ failed \subseteq Calls
    /\ rc \in {"idle", "reading", "handling", "sending", "closed"}
    /\ last \in BOOLEAN /\ stopping \in BOOLEAN

Typed ==
    /\ wire \in [Sides -> Seq(Datagrams)]
    /\ rqBox \in Seq(Datagrams) /\ rqOut \in Seq(Datagrams)
    /\ rcBox \in Seq(Datagrams) /\ rcOut \in Seq(Datagrams)
    /\ handled \in Seq(Seq(Datagrams))

RequesterAt ==
    /\ rq # "ready" => call \in Calls /\ "requester" \notin closed
    /\ rq = "sending" => rqBox = <<>> /\ rqOut # <<>>
    /\ rq = "receiving" => rqOut = <<>> /\ Len(rqBox) < 2
    /\ rq = "ready" => Len(rqBox) <= 2
    /\ Len(rqOut) <= 3

ReceiverAt ==
    /\ rc = "closed" <=> "receiver" \in closed
    /\ rc \in {"idle", "reading", "handling"} => ~last
    /\ rc = "reading" => Len(rcBox) < Parts
    /\ rc \notin {"reading", "closed"} => rcBox = <<>>
    /\ Len(rcBox) <= 3
    /\ rc = "handling" => handled # <<>>
    /\ \A k \in 1..Len(handled) : Len(handled[k]) = Parts
    /\ rc = "sending" => rcOut # <<>>
    /\ Len(rcOut) <= 2

\* A call ends once, and the requester is ready when its last one has.
Ends ==
    /\ \A a \in answers : a[1] <= call
    /\ \A n \in failed : n <= call
    /\ call # 0 => (rq = "ready" <=> Rpc!Ended(call))

General == Plain /\ Typed /\ RequesterAt /\ ReceiverAt /\ Ends

(***************************************************************************)
(* What retiring a failed connection adds.  As long as the receiver goes   *)
(* on reading, what it has read of a message, what is on the wire and what *)
(* the requester has still to send are one request, cut in three.          *)
(***************************************************************************)
Open == "requester" \notin closed
Listens == rc # "closed" /\ ~(rc = "sending" /\ last)
Slice(s, a, b) == SubSeq(s, a + 1, b)

UpAt(a, b) ==
    LET n == Len(handled) + 1
        message == Request(n)
    IN /\ a <= b /\ b <= Parts
       /\ rcBox = Slice(message, 0, a) /\ wire["receiver"] = Slice(message, a, b)
       /\ b > 0 => n <= call
       /\ rq = "sending" => n = call /\ b < Parts /\ rqOut = Slice(message, b, Parts)
       /\ rq = "receiving" => IF n = call THEN b = Parts ELSE n = call + 1 /\ b = 0
       /\ rq = "ready" /\ Open => n = call + 1 /\ b = 0
       /\ rc \in {"handling", "sending"} => b = 0 /\ (Open => rq = "receiving")
Up == Listens => \E a, b \in 0..3 : UpAt(a, b)

\* The other way there is the answer to the call, if there is one (m is the call then,
\* and Goodbye if not), and after it the refusal of a receiver that has given up.
Script(m) == Response(m) \o Response(Goodbye)
Inbox == IF rq = "ready" THEN <<>> ELSE rqBox

DownAt(m, a, b, c) ==
    LET script == Script(m) IN
    /\ a <= b /\ b <= c
    /\ Inbox = Slice(script, 0, a) /\ wire["requester"] = Slice(script, a, b)
    /\ rc = "sending" => b < c /\ c <= b + 2 /\ rcOut = Slice(script, b, c)
    /\ rc \in {"idle", "reading", "handling"} => b = c
    /\ rc = "handling" => c = 0
    /\ m = Goodbye => c <= 2 /\ (c = 2 => ~Listens)
    /\ m # Goodbye => m = call /\ c > 0 /\ rq = "receiving" /\ Len(handled) = call
    /\ c = 4 => ~Listens
Down ==
    Open => \E m \in {Goodbye, call}, a, b \in 0..4, c \in {0, 2, 4} : DownAt(m, a, b, c)

Handled ==
    /\ Len(handled) <= call
    /\ \A k \in 1..Len(handled) : handled[k] = Request(k)
Answered ==
    \A a \in answers : a[2] = Goodbye \/ (a[2] = a[1] /\ a[1] \in 1..Len(handled))

Aligned == Up /\ Down /\ Handled /\ Answered

IInv == General /\ (RetireOnFailure => Aligned)

-------------------------------------------------------------------------------
(***************************************************************************)
(* Sequences.                                                              *)
(***************************************************************************)
LEMMA Taken ==
    ASSUME NEW S, NEW s \in Seq(S), s # <<>>
    PROVE  /\ Head(s) \in S /\ Head(s) = s[1] /\ Tail(s) \in Seq(S) /\ Len(Tail(s)) = Len(s) - 1
           /\ Len(s) \in Nat /\ Len(s) > 0
           /\ Tail(s) = <<>> <=> Len(s) = 1
<1>1. /\ Head(s) \in S /\ Head(s) = s[1] /\ Tail(s) \in Seq(S) /\ Len(Tail(s)) = Len(s) - 1
      /\ Len(s) \in Nat /\ Len(s) > 0
  BY HeadTailProperties, EmptySeq, LenProperties
<1>2. Tail(s) = <<>> <=> Len(Tail(s)) = 0
  BY <1>1, EmptySeq
<1>. QED BY <1>1, <1>2

LEMMA NotEmpty == \A s : Len(s) # 0 => s # <<>>
<1>1. Len(<<>>) = 0
  BY EmptySeq
<1>. QED BY <1>1

LEMMA Third ==
    ASSUME NEW S, NEW s \in Seq(S), NEW x \in S
    PROVE  Len(s) = 2 => /\ Append(s, x) \in Seq(S) /\ Len(Append(s, x)) = 3
                         /\ Append(s, x)[1] = s[1] /\ Append(s, x)[2] = s[2]
<1>1. /\ Append(s, x) \in Seq(S) /\ Len(Append(s, x)) = Len(s) + 1
      /\ \A i \in 1..Len(s) : Append(s, x)[i] = s[i]
  BY AppendProperties
<1>. DEFINE more == Append(s, x)
<1>. HIDE DEF more
<1>2. Len(s) = 2 => more \in Seq(S) /\ Len(more) = 3 /\ more[1] = s[1] /\ more[2] = s[2]
  BY <1>1 DEF more
<1>. QED BY <1>2 DEF more

LEMMA FewIs ==
    ASSUME NEW S, NEW box \in Seq(S), Len(box) <= 3
    PROVE  box \in UNION {[1..k -> S] : k \in 0..3}
<1>1. Len(box) \in Nat /\ box \in [1..Len(box) -> S]
  BY LenProperties
<1>. DEFINE k == Len(box)
<1>2. k \in 0..3 /\ box \in [1..k -> S]
  BY <1>1
<1>. QED BY <1>2

\* The messages: what is in them is their own, and starts with a prologue.
LEMMA MessageIs ==
    ASSUME NEW n \in 0..MaxCalls
    PROVE  /\ Response(n) \in Seq(Datagrams) /\ Len(Response(n)) = 2
           /\ Request(n) \in Seq(Datagrams) /\ Len(Request(n)) = Parts
           /\ Request(n)[1].part = 0 /\ Request(n)[2].part = 1 /\ Request(n)[2].of = n
           /\ Response(n)[1] = Datagram(n, 0) /\ Response(n)[2] = Datagram(n, 1)
           /\ Datagram(n, 1).of = n
           /\ Parts \in {2, 3}
<1>1. Datagram(n, 0) \in Datagrams /\ Datagram(n, 1) \in Datagrams /\ Datagram(n, 2) \in Datagrams
  BY DEF Datagram, Datagrams
<1>2. /\ Response(n) \in Seq(Datagrams) /\ Len(Response(n)) = 2
      /\ Response(n)[1] = Datagram(n, 0) /\ Response(n)[2] = Datagram(n, 1)
  BY <1>1 DEF Response
<1>3. WithPayload => /\ Request(n) \in Seq(Datagrams) /\ Len(Request(n)) = 3
                     /\ Request(n)[1] = Response(n)[1] /\ Request(n)[2] = Response(n)[2]
  BY <1>1, <1>2, Third DEF Request
<1>4. /\ Request(n) \in Seq(Datagrams) /\ Len(Request(n)) = Parts
      /\ Request(n)[1] = Datagram(n, 0) /\ Request(n)[2] = Datagram(n, 1)
  BY <1>2, <1>3 DEF Request, Parts
<1>5. /\ Datagram(n, 0).part = 0 /\ Datagram(n, 1).part = 1 /\ Datagram(n, 1).of = n
  BY DEF Datagram
<1>. QED BY <1>2, <1>4, <1>5 DEF Parts

\* How many datagrams make a message complete, whatever they are.
LEMMA CompleteIs ==
    ASSUME NEW n \in 0..MaxCalls, NEW box
    PROVE  /\ Complete(box, Response(n)) <=> Len(box) = 2
           /\ Complete(box, Request(1)) <=> Len(box) = Parts
<1>1. Len(Request(1)) = Parts
  <2>. DEFINE S == {Datagram(1, 0), Datagram(1, 1), Datagram(1, 2)}
  <2>1. Response(1) \in Seq(S) /\ Len(Response(1)) = 2 /\ Datagram(1, 2) \in S
    BY DEF Response
  <2>. HIDE DEF S
  <2>2. Len(Append(Response(1), Datagram(1, 2))) = 3
    BY <2>1, Third
  <2>. QED BY <2>1, <2>2 DEF Request, Parts
<1>. QED BY <1>1, MessageIs DEF Complete

-------------------------------------------------------------------------------
(***************************************************************************)
(* The general part of the invariant.                                      *)
(***************************************************************************)
LEMMA FrameReceiver ==
    ASSUME ReceiverAt, UNCHANGED receiver, "receiver" \in closed' <=> "receiver" \in closed
    PROVE  ReceiverAt'
BY DEF ReceiverAt, receiver

LEMMA FrameRequester ==
    ASSUME RequesterAt, Ends, UNCHANGED requester,
           rq # "ready" => ("requester" \in closed' <=> "requester" \in closed)
    PROVE  RequesterAt' /\ Ends'
<1>1. RequesterAt'
  BY DEF RequesterAt, requester
<1>2. Ends'
  BY DEF Ends, requester, Rpc!Ended
<1>. QED BY <1>1, <1>2

\* Closing empties one's own buffer.
LEMMA CloseIs ==
    ASSUME General, NEW s \in Sides, Close(s)
    PROVE  /\ wire' \in [Sides -> Seq(Datagrams)] /\ \A t \in Sides : Len(wire'[t]) <= Capacity
           /\ closed' = closed \cup {s} /\ closed' \subseteq Sides /\ reset' \subseteq Sides
           /\ \A t \in Sides : t # s => wire'[t] = wire[t]
<1>1. <<>> \in Seq(Datagrams) /\ Len(<<>>) = 0 /\ Capacity \in Nat
  BY EmptySeq, ExchangeAssumption
<1>2. wire' \in [Sides -> Seq(Datagrams)] /\ \A t \in Sides : wire'[t] = IF t = s THEN <<>> ELSE wire[t]
  BY <1>1 DEF Close, General, Typed
<1>3. \A t \in Sides : Len(wire'[t]) <= Capacity
  BY <1>1, <1>2 DEF General, Plain
<1>4. closed' \subseteq Sides /\ reset' \subseteq Sides
  BY DEF Close, General, Plain, Peer, Sides
<1>. QED BY <1>2, <1>3, <1>4 DEF Close

\* One datagram put on the wire or taken off it.
LEMMA WireMoves ==
    ASSUME General, NEW s \in Sides, NEW d \in Datagrams,
           \/ Len(wire[s]) < Capacity /\ wire' = [wire EXCEPT ![s] = Append(@, d)]
           \/ wire[s] # <<>> /\ wire' = [wire EXCEPT ![s] = Tail(@)]
    PROVE  /\ wire' \in [Sides -> Seq(Datagrams)] /\ \A t \in Sides : Len(wire'[t]) <= Capacity
           /\ \A t \in Sides : t # s => wire'[t] = wire[t]
<1>1. /\ wire \in [Sides -> Seq(Datagrams)] /\ \A t \in Sides : Len(wire[t]) <= Capacity
      /\ Len(wire[s]) \in Nat /\ Capacity \in Nat
  BY LenProperties, ExchangeAssumption DEF General, Plain, Typed
<1>2. CASE Len(wire[s]) < Capacity /\ wire' = [wire EXCEPT ![s] = Append(@, d)]
  <2>1. Append(wire[s], d) \in Seq(Datagrams) /\ Len(Append(wire[s], d)) = Len(wire[s]) + 1
    BY <1>1, AppendProperties
  <2>2. Len(Append(wire[s], d)) <= Capacity
    BY <1>1, <1>2, <2>1
  <2>. QED BY <1>1, <1>2, <2>1, <2>2
<1>3. CASE wire[s] # <<>> /\ wire' = [wire EXCEPT ![s] = Tail(@)]
  <2>1. Tail(wire[s]) \in Seq(Datagrams) /\ Len(Tail(wire[s])) = Len(wire[s]) - 1
    BY <1>1, <1>3, Taken
  <2>2. Len(Tail(wire[s])) <= Capacity
    BY <1>1, <2>1
  <2>. QED BY <1>1, <1>3, <2>1, <2>2
<1>. QED BY <1>2, <1>3

LEMMA FailGeneral ==
    ASSUME General, rq \in {"sending", "receiving"}, NEW rest \in Seq(Datagrams),
           Len(rest) <= Capacity, ExchangeFails(rest)
    PROVE  General'
<1>1. <<>> \in Seq(Datagrams) /\ Len(<<>>) = 0
  BY EmptySeq
<1>2. /\ call \in Calls /\ call' = call /\ answers' = answers /\ failed' = failed \cup {call}
      /\ rq' = "ready" /\ rqBox' = <<>> /\ rqOut' = <<>> /\ UNCHANGED receiver
  BY DEF General, RequesterAt, ExchangeFails
<1>3. /\ wire' \in [Sides -> Seq(Datagrams)] /\ \A t \in Sides : Len(wire'[t]) <= Capacity
      /\ closed' \subseteq Sides /\ reset' \subseteq Sides
      /\ "receiver" \in closed' <=> "receiver" \in closed
  <2>1. CASE RetireOnFailure
    <3>1. Close("requester") /\ "requester" \in Sides
      BY <2>1 DEF ExchangeFails, Sides
    <3>. QED BY <3>1, CloseIs
  <2>2. CASE ~RetireOnFailure
    BY <2>2 DEF ExchangeFails, General, Typed, Plain, Sides
  <2>. QED BY <2>1, <2>2
<1>4. Plain'
  BY <1>2, <1>3 DEF General, Plain, receiver
<1>5. Typed'
  BY <1>1, <1>2, <1>3 DEF General, Typed, receiver
<1>6. RequesterAt'
  BY <1>1, <1>2 DEF RequesterAt
<1>7. ReceiverAt'
  BY <1>2, <1>3, FrameReceiver DEF General
<1>8. Ends'
  BY <1>2 DEF General, Ends, Rpc!Ended, Calls
<1>. QED BY <1>4, <1>5, <1>6, <1>7, <1>8 DEF General

LEMMA RequesterGeneral == General /\ RequesterStep => General'
<1>. SUFFICES ASSUME General, RequesterStep PROVE General'
  OBVIOUS
<1>. USE DEF General
<1>0. /\ wire \in [Sides -> Seq(Datagrams)] /\ "requester" \in Sides /\ "receiver" \in Sides
      /\ rqBox \in Seq(Datagrams) /\ rqOut \in Seq(Datagrams) /\ MaxCalls \in Nat
      /\ <<>> \in Seq(Datagrams) /\ Len(<<>>) = 0
  BY EmptySeq, ExchangeAssumption DEF Typed, Sides
<1>1. CASE Call
  <2>1. /\ rq = "ready" /\ call' = call + 1 /\ call' \in Calls /\ call \in 0..MaxCalls /\ rq' = "sending"
        /\ rqOut' = Request(call') /\ rqBox' = <<>> /\ "requester" \notin closed
        /\ UNCHANGED <<wire, closed, reset, answers, failed, receiver>>
    BY <1>0, <1>1 DEF Call, Plain, Calls
  <2>2. rqOut' \in Seq(Datagrams) /\ rqOut' # <<>> /\ Len(rqOut') <= 3
    <3>1. call' \in 0..MaxCalls
      BY <2>1 DEF Calls
    <3>2. rqOut' \in Seq(Datagrams) /\ Len(rqOut') \in {2, 3}
      BY <2>1, <3>1, MessageIs
    <3>. DEFINE k == Len(rqOut')
    <3>. HIDE DEF k
    <3>3. k # 0 /\ k <= 3
      <4>1. k \in {2, 3}
        BY <3>2 DEF k
      <4>. QED BY <4>1
    <3>. QED BY <3>2, <3>3, NotEmpty DEF k
  <2>3. Plain' /\ Typed'
    BY <1>0, <2>1, <2>2 DEF Plain, Typed, receiver, Calls
  <2>4. RequesterAt'
    BY <1>0, <2>1, <2>2 DEF RequesterAt
  <2>5. Ends'
    <3>1. (\A a \in answers : a[1] <= call) /\ (\A n \in failed : n <= call)
      BY DEF Ends
    <3>2. \A a \in answers : a[1] \in Calls
      BY DEF Plain
    <3>3. \A n \in failed : n \in Calls
      BY DEF Plain
    <3>. QED BY <2>1, <3>1, <3>2, <3>3 DEF Ends, Rpc!Ended, Calls
  <2>6. ReceiverAt'
    BY <2>1, FrameReceiver
  <2>. QED BY <2>3, <2>4, <2>5, <2>6
<1>2. CASE CallRetired
  <2>1. /\ rq = "ready" /\ call' = call + 1 /\ call' \in Calls /\ call \in 0..MaxCalls
        /\ failed' = failed \cup {call'}
        /\ UNCHANGED <<wire, closed, reset, rq, rqBox, rqOut, answers, receiver>>
    BY <1>0, <1>2 DEF CallRetired, Plain, Calls
  <2>2. Plain' /\ Typed'
    BY <2>1 DEF Plain, Typed, receiver, Calls
  <2>3. RequesterAt'
    BY <2>1 DEF RequesterAt
  <2>4. Ends'
    <3>1. \A a \in answers : a[1] \in Calls /\ a[1] <= call
      BY DEF Plain, Ends
    <3>2. \A n \in failed : n \in Calls /\ n <= call
      BY DEF Plain, Ends
    <3>. QED BY <2>1, <3>1, <3>2 DEF Ends, Rpc!Ended, Calls
  <2>5. ReceiverAt'
    BY <2>1, FrameReceiver
  <2>. QED BY <2>2, <2>3, <2>4, <2>5
<1>3. CASE RequesterSends
  <2>1. /\ rq = "sending" /\ rqOut # <<>> /\ rqBox = <<>>
        /\ wire' = [wire EXCEPT !["receiver"] = Append(@, Head(rqOut))]
        /\ Len(wire["receiver"]) < Capacity
        /\ rqOut' = Tail(rqOut) /\ rq' = IF Tail(rqOut) = <<>> THEN "receiving" ELSE "sending"
        /\ UNCHANGED <<closed, reset, call, rqBox, answers, failed, receiver>>
    BY <1>3 DEF RequesterSends, CanSend, Peer, RequesterAt
  <2>2. /\ Head(rqOut) \in Datagrams /\ Tail(rqOut) \in Seq(Datagrams)
        /\ Len(Tail(rqOut)) = Len(rqOut) - 1 /\ Len(rqOut) \in Nat
    BY <1>0, <2>1, Taken
  <2>3. wire' \in [Sides -> Seq(Datagrams)] /\ \A t \in Sides : Len(wire'[t]) <= Capacity
    BY <1>0, <2>1, <2>2, WireMoves
  <2>4. Plain' /\ Typed'
    BY <2>1, <2>2, <2>3 DEF Plain, Typed, receiver
  <2>5. RequesterAt'
    BY <1>0, <2>1, <2>2 DEF RequesterAt
  <2>6. Ends' /\ ReceiverAt'
    BY <2>1, FrameReceiver DEF Ends, Rpc!Ended
  <2>. QED BY <2>4, <2>5, <2>6
<1>4. CASE GiveUp
  <2>1. wire["requester"] \in Seq(Datagrams) /\ Len(wire["requester"]) <= Capacity
    BY <1>0 DEF Plain
  <2>. QED BY <1>4, <2>1, FailGeneral DEF GiveUp
<1>5. CASE RequesterReads
  <2>. DEFINE box == Append(rqBox, Head(wire["requester"]))
              rest == Tail(wire["requester"])
  <2>1. rq = "receiving" /\ wire["requester"] # <<>> /\ call \in Calls /\ call \in 0..MaxCalls
    BY <1>5 DEF RequesterReads, CanRead, RequesterAt, Plain
  <2>2. /\ Head(wire["requester"]) \in Datagrams /\ rest \in Seq(Datagrams)
        /\ Len(rest) = Len(wire["requester"]) - 1 /\ Len(wire["requester"]) \in Nat
    BY <1>0, <2>1, Taken
  <2>3. Len(rest) <= Capacity
    BY <1>0, <2>2, ExchangeAssumption DEF Plain
  <2>4. box \in Seq(Datagrams) /\ Len(box) = Len(rqBox) + 1 /\ Len(rqBox) \in Nat /\ Len(rqBox) < 2
        /\ \A i \in 1..Len(box) : box[i] \in Datagrams
    <3>1. box \in Seq(Datagrams) /\ Len(box) = Len(rqBox) + 1 /\ Len(rqBox) \in Nat
      BY <1>0, <2>2, AppendProperties, LenProperties
    <3>2. \A i \in 1..Len(box) : box[i] \in Datagrams
      BY <3>1, ElementOfSeq
    <3>. QED BY <2>1, <3>1, <3>2 DEF RequesterAt
  <2>5. Complete(box, Response(call)) <=> Len(box) = 2
    BY <2>1, CompleteIs
  <2>6. CASE Malformed(box, Response(call))
    <3>1. ExchangeFails(rest)
      BY <1>5, <2>6 DEF RequesterReads
    <3>. QED BY <2>1, <2>2, <2>3, <3>1, FailGeneral
  <2>7. CASE ~Malformed(box, Response(call))
    <3>. HIDE DEF box, rest
    <3>1. /\ rqBox' = box /\ wire' = [wire EXCEPT !["requester"] = rest]
          /\ IF Len(box) = 2
             THEN answers' = answers \cup {<<call, box[2].of>>} /\ rq' = "ready"
             ELSE UNCHANGED <<answers, rq>>
          /\ UNCHANGED <<closed, reset, call, rqOut, failed, receiver>>
      BY <1>5, <2>5, <2>7 DEF RequesterReads, box, rest
    <3>2. wire' \in [Sides -> Seq(Datagrams)] /\ \A t \in Sides : Len(wire'[t]) <= Capacity
      BY <1>0, <2>2, <2>3, <3>1 DEF Plain
    <3>3. Len(box) = 2 => box[2].of \in 0..MaxCalls
      <4>1. Len(box) = 2 => box[2] \in Datagrams
        BY <2>4
      <4>. QED BY <4>1 DEF Datagrams
    <3>4. Plain' /\ Typed'
      <4>1. answers' \subseteq Calls \X (0..MaxCalls) /\ rq' \in {"ready", "sending", "receiving"}
        BY <2>1, <3>1, <3>3 DEF Plain
      <4>2. Plain'
        BY <3>1, <3>2, <4>1 DEF Plain, receiver
      <4>3. Typed'
        BY <2>4, <3>1, <3>2 DEF Typed, receiver
      <4>. QED BY <4>2, <4>3
    <3>5. RequesterAt'
      BY <2>1, <2>4, <3>1 DEF RequesterAt
    <3>6. Ends'
      <4>1. CASE Len(box) = 2
        <5>1. \A a \in answers' : a \in answers \/ a[1] = call
          BY <3>1, <4>1
        <5>2. <<call, box[2].of>> \in answers' /\ <<call, box[2].of>>[1] = call
          BY <3>1, <4>1
        <5>3. rq' = "ready" /\ UNCHANGED <<call, failed>> /\ call \in Nat
          BY <2>1, <3>1, <4>1 DEF Calls
        <5>. QED BY <5>1, <5>2, <5>3 DEF Ends, Rpc!Ended
      <4>2. CASE Len(box) # 2
        BY <2>1, <3>1, <4>2 DEF Ends, Rpc!Ended
      <4>. QED BY <4>1, <4>2
    <3>7. ReceiverAt'
      BY <3>1, FrameReceiver
    <3>. QED BY <3>4, <3>5, <3>6, <3>7
  <2>. QED BY <2>6, <2>7
<1>6. CASE RequesterCloses
  <2>1. Close("requester") /\ rq = "ready" /\ UNCHANGED <<requester, receiver>>
    BY <1>6 DEF RequesterCloses
  <2>2. /\ wire' \in [Sides -> Seq(Datagrams)] /\ \A t \in Sides : Len(wire'[t]) <= Capacity
        /\ closed' = closed \cup {"requester"} /\ closed' \subseteq Sides /\ reset' \subseteq Sides
    BY <1>0, <2>1, CloseIs
  <2>3. Plain' /\ Typed'
    BY <2>1, <2>2 DEF Plain, Typed, requester, receiver
  <2>4. RequesterAt' /\ Ends' /\ ReceiverAt'
    BY <2>1, <2>2, FrameReceiver, FrameRequester
  <2>. QED BY <2>3, <2>4
<1>. QED BY <1>1, <1>2, <1>3, <1>4, <1>5, <1>6 DEF RequesterStep

\* The connection ends: the receiver closes, and what it was reading stays where it is.
LEMMA HangupGeneral ==
    ASSUME General, Hangup, UNCHANGED <<requester, rcBox, rcOut, last, stopping, handled>>
    PROVE  General'
<1>. USE DEF General
<1>1. Close("receiver") /\ rc' = "closed" /\ "receiver" \in Sides
  BY DEF Hangup, Sides
<1>2. /\ wire' \in [Sides -> Seq(Datagrams)] /\ \A t \in Sides : Len(wire'[t]) <= Capacity
      /\ closed' = closed \cup {"receiver"} /\ closed' \subseteq Sides /\ reset' \subseteq Sides
  BY <1>1, CloseIs
<1>3. Plain' /\ Typed'
  BY <1>1, <1>2 DEF Plain, Typed, requester
<1>4. RequesterAt' /\ Ends'
  BY <1>2, FrameRequester
<1>5. ReceiverAt'
  BY <1>1, <1>2 DEF ReceiverAt
<1>. QED BY <1>3, <1>4, <1>5

\* A message is made up to be sent.
LEMMA SayGeneral ==
    ASSUME General, rc # "closed", NEW n \in 0..MaxCalls, NEW then \in BOOLEAN, Say(n, then), rcBox' = <<>>,
           UNCHANGED <<closed, reset, requester, stopping, handled>>,
           wire' \in [Sides -> Seq(Datagrams)], \A t \in Sides : Len(wire'[t]) <= Capacity
    PROVE  General'
<1>. USE DEF General
<1>1. /\ rc' = "sending" /\ rcOut' \in Seq(Datagrams) /\ Len(rcOut') = 2 /\ last' \in BOOLEAN
      /\ <<>> \in Seq(Datagrams) /\ Len(<<>>) = 0
  BY MessageIs, EmptySeq DEF Say
<1>2. Plain' /\ Typed'
  BY <1>1 DEF Plain, Typed, requester
<1>3. RequesterAt' /\ Ends'
  BY FrameRequester
<1>4. rcOut' # <<>>
  <2>1. Len(rcOut') # 0
    BY <1>1
  <2>. QED BY <2>1, NotEmpty
<1>5. ReceiverAt'
  BY <1>1, <1>4 DEF ReceiverAt
<1>. QED BY <1>2, <1>3, <1>5

LEMMA ReceiverGeneral == General /\ (ReceiverStep \/ Stop) => General'
<1>. SUFFICES ASSUME General, ReceiverStep \/ Stop PROVE General'
  OBVIOUS
<1>. USE DEF General
<1>0. /\ wire \in [Sides -> Seq(Datagrams)] /\ "requester" \in Sides /\ "receiver" \in Sides
      /\ \A t \in Sides : Len(wire[t]) <= Capacity
      /\ rcBox \in Seq(Datagrams) /\ rcOut \in Seq(Datagrams) /\ handled \in Seq(Seq(Datagrams))
      /\ <<>> \in Seq(Datagrams) /\ Len(<<>>) = 0 /\ Goodbye \in 0..MaxCalls /\ Len(handled) \in Nat
  BY EmptySeq, LenProperties, ExchangeAssumption DEF Plain, Typed, Sides, Goodbye
<1>1. CASE ReceiverReads
  <2>. DEFINE box == Append(rcBox, Head(wire["receiver"]))
  <2>1. rc \in {"idle", "reading"} /\ wire["receiver"] # <<>> /\ ~last
        /\ wire' = [wire EXCEPT !["receiver"] = Tail(@)]
        /\ UNCHANGED <<closed, reset, requester, stopping>>
    BY <1>1 DEF ReceiverReads, Reading, CanRead, ReceiverAt
  <2>2. Head(wire["receiver"]) \in Datagrams
    BY <1>0, <2>1, Taken
  <2>3. wire' \in [Sides -> Seq(Datagrams)] /\ \A t \in Sides : Len(wire'[t]) <= Capacity
    BY <1>0, <2>1, <2>2, WireMoves
  <2>4. box \in Seq(Datagrams) /\ Len(box) = Len(rcBox) + 1 /\ Len(rcBox) \in Nat /\ Len(rcBox) < Parts
        /\ Parts \in {2, 3}
    <3>1. box \in Seq(Datagrams) /\ Len(box) = Len(rcBox) + 1 /\ Len(rcBox) \in Nat
      BY <1>0, <2>2, AppendProperties, LenProperties
    <3>2. Len(rcBox) < Parts
      <4>1. rc = "reading" => Len(rcBox) < Parts
        BY DEF ReceiverAt
      <4>2. rc = "idle" => Len(rcBox) = 0
        BY <1>0 DEF ReceiverAt
      <4>. QED BY <2>1, <4>1, <4>2 DEF Parts
    <3>. QED BY <3>1, <3>2 DEF Parts
  <2>5. Complete(box, Request(1)) <=> Len(box) = Parts
    BY <1>0, CompleteIs
  <2>6. CASE Malformed(box, Request(1))
    <3>1. Say(Goodbye, TRUE) /\ rcBox' = <<>> /\ UNCHANGED handled
      BY <1>1, <2>6 DEF ReceiverReads
    <3>. QED BY <1>0, <2>1, <2>3, <3>1, SayGeneral
  <2>7. CASE ~Malformed(box, Request(1)) /\ Len(box) = Parts
    <3>. HIDE DEF box
    <3>1. /\ rc' = "handling" /\ rcBox' = <<>> /\ handled' = Append(handled, box)
          /\ UNCHANGED <<rcOut, last>>
      BY <1>1, <2>5, <2>7 DEF ReceiverReads, box
    <3>2. /\ handled' \in Seq(Seq(Datagrams)) /\ Len(handled') = Len(handled) + 1 /\ handled' # <<>>
          /\ \A k \in 1..Len(handled) : handled'[k] = handled[k]
          /\ handled'[Len(handled) + 1] = box
      BY <1>0, <2>4, <3>1, AppendProperties
    <3>3. \A k \in 1..Len(handled') : k \in 1..Len(handled) \/ k = Len(handled) + 1
      BY <1>0, <3>2
    <3>4. \A k \in 1..Len(handled') : Len(handled'[k]) = Parts
      BY <2>7, <3>2, <3>3 DEF ReceiverAt
    <3>5. Plain' /\ Typed'
      BY <1>0, <2>1, <2>3, <3>1, <3>2 DEF Plain, Typed, requester
    <3>6. ReceiverAt'
      <4>1. Len(rcBox') <= 3 /\ Len(rcOut') <= 2
        BY <1>0, <3>1 DEF ReceiverAt
      <4>. QED BY <2>1, <3>1, <3>2, <3>4, <4>1 DEF ReceiverAt
    <3>. QED BY <2>1, <3>5, <3>6, FrameRequester
  <2>8. CASE ~Malformed(box, Request(1)) /\ Len(box) # Parts
    <3>. HIDE DEF box
    <3>1. rc' = "reading" /\ rcBox' = box /\ UNCHANGED <<rcOut, last, handled>>
      BY <1>1, <2>5, <2>8 DEF ReceiverReads, box
    <3>2. Plain' /\ Typed'
      BY <1>0, <2>1, <2>3, <2>4, <3>1 DEF Plain, Typed, requester
    <3>3. Len(box) < Parts /\ Len(box) <= 3
      BY <2>4, <2>8
    <3>4. ReceiverAt'
      BY <2>1, <3>1, <3>3 DEF ReceiverAt
    <3>. QED BY <2>1, <3>2, <3>4, FrameRequester
  <2>. QED BY <2>6, <2>7, <2>8
<1>2. CASE PeerIsGone
  BY <1>2, HangupGeneral DEF PeerIsGone
<1>3. CASE TimesOut
  <2>1. /\ rc # "closed" /\ Say(Goodbye, TRUE) /\ rcBox' = <<>>
        /\ UNCHANGED <<wire, closed, reset, requester, stopping, handled>>
    BY <1>3 DEF TimesOut, Reading
  <2>. QED BY <1>0, <2>1, SayGeneral
<1>4. CASE Answer
  <2>. DEFINE n == handled[Len(handled)][2].of
  <2>1. /\ rc = "handling" /\ (Say(n, FALSE) \/ Say(n, TRUE))
        /\ UNCHANGED <<wire, closed, reset, requester, rcBox, stopping, handled>>
    BY <1>4 DEF Answer
  <2>2. Len(handled) \in 1..Len(handled)
    <3>1. handled # <<>>
      BY <1>4 DEF Answer, ReceiverAt
    <3>. QED BY <1>0, <3>1, EmptySeq
  <2>3. handled[Len(handled)] \in Seq(Datagrams) /\ Len(handled[Len(handled)]) \in {2, 3}
    BY <1>0, <2>2, ElementOfSeq DEF ReceiverAt, Parts
  <2>4. 2 \in 1..Len(handled[Len(handled)])
    BY <2>3
  <2>5. handled[Len(handled)][2] \in Datagrams
    BY <2>3, <2>4, ElementOfSeq
  <2>6. n \in 0..MaxCalls
    BY <2>5 DEF Datagrams
  <2>7. rcBox' = <<>>
    BY <1>4, <2>1 DEF Answer, ReceiverAt
  <2>. HIDE DEF n
  <2>8. rc = "handling"
    BY <1>4 DEF Answer
  <2>. QED BY <1>0, <2>1, <2>6, <2>7, <2>8, SayGeneral
<1>5. CASE ReceiverSends
  <2>1. /\ rc = "sending" /\ rcOut # <<>> /\ Len(rcOut) > 1 /\ Len(wire["requester"]) < Capacity
        /\ wire' = [wire EXCEPT !["requester"] = Append(@, Head(rcOut))] /\ rcOut' = Tail(rcOut)
        /\ UNCHANGED <<closed, reset, requester, rc, rcBox, last, stopping, handled>>
    BY <1>5 DEF ReceiverSends, CanSend, Peer, ReceiverAt
  <2>2. /\ Head(rcOut) \in Datagrams /\ Tail(rcOut) \in Seq(Datagrams)
        /\ Len(Tail(rcOut)) = Len(rcOut) - 1 /\ Len(rcOut) \in Nat /\ Tail(rcOut) # <<>>
    <3>1. /\ Head(rcOut) \in Datagrams /\ Tail(rcOut) \in Seq(Datagrams)
          /\ Len(Tail(rcOut)) = Len(rcOut) - 1 /\ Len(rcOut) \in Nat
      BY <1>0, <2>1, Taken
    <3>2. Len(Tail(rcOut)) # 0
      BY <2>1, <3>1
    <3>. QED BY <3>1, <3>2, NotEmpty
  <2>3. wire' \in [Sides -> Seq(Datagrams)] /\ \A t \in Sides : Len(wire'[t]) <= Capacity
    BY <1>0, <2>1, <2>2, WireMoves
  <2>4. Plain' /\ Typed'
    BY <2>1, <2>2, <2>3 DEF Plain, Typed, requester
  <2>5. ReceiverAt'
    BY <2>1, <2>2 DEF ReceiverAt
  <2>. QED BY <2>1, <2>4, <2>5, FrameRequester
<1>6. CASE ReceiverAnswered
  <2>. DEFINE sent == Append(wire["requester"], Head(rcOut))
  <2>1. /\ rc = "sending" /\ rcOut # <<>> /\ Len(wire["requester"]) < Capacity /\ rcOut' = <<>>
        /\ UNCHANGED <<requester, rcBox, last, stopping, handled>> /\ rcBox = <<>>
    BY <1>6 DEF ReceiverAnswered, CanSend, Peer, ReceiverAt
  <2>2. sent \in Seq(Datagrams) /\ Len(sent) <= Capacity
    <3>1. Head(rcOut) \in Datagrams
      BY <1>0, <2>1, Taken
    <3>2. sent \in Seq(Datagrams) /\ Len(sent) = Len(wire["requester"]) + 1
          /\ Len(wire["requester"]) \in Nat
      BY <1>0, <3>1, AppendProperties, LenProperties
    <3>. QED BY <2>1, <3>2, ExchangeAssumption
  <2>. HIDE DEF sent
  <2>3. \/ /\ (last \/ stopping) /\ rc' = "closed" /\ closed' = closed \cup {"receiver"}
           /\ reset' \subseteq reset \cup {"requester"}
           /\ wire' = [wire EXCEPT !["requester"] = sent, !["receiver"] = <<>>]
        \/ /\ ~last /\ rc' = "idle" /\ wire' = [wire EXCEPT !["requester"] = sent]
           /\ UNCHANGED <<closed, reset>>
    BY <1>6 DEF ReceiverAnswered, sent
  <2>4. wire' \in [Sides -> Seq(Datagrams)] /\ \A t \in Sides : Len(wire'[t]) <= Capacity
    <3>1. Capacity \in Nat /\ 0 <= Capacity
      BY ExchangeAssumption
    <3>2. \A t \in Sides : wire'[t] \in {wire[t], sent, <<>>}
      BY <1>0, <2>3
    <3>3. \A t \in Sides : wire'[t] \in Seq(Datagrams) /\ Len(wire'[t]) <= Capacity
      BY <1>0, <2>2, <3>1, <3>2
    <3>4. wire' \in [Sides -> Seq(Datagrams)]
      BY <1>0, <2>2, <2>3
    <3>. QED BY <3>3, <3>4
  <2>5. Plain' /\ Typed'
    BY <1>0, <2>1, <2>3, <2>4 DEF Plain, Typed, requester, Sides
  <2>6. ReceiverAt'
    BY <1>0, <2>1, <2>3 DEF ReceiverAt
  <2>7. RequesterAt' /\ Ends'
    BY <2>1, <2>3, FrameRequester
  <2>. QED BY <2>5, <2>6, <2>7
<1>7. CASE ReceiverCannotSend
  BY <1>7, HangupGeneral DEF ReceiverCannotSend
<1>8. CASE Stop
  <2>1. stopping' = TRUE /\ UNCHANGED <<wire, closed, reset, requester, rc, rcBox, rcOut, last, handled>>
    BY <1>8 DEF Stop
  <2>2. Plain' /\ Typed' /\ ReceiverAt'
    BY <2>1 DEF Plain, Typed, ReceiverAt, requester
  <2>. QED BY <2>1, <2>2, FrameRequester
<1>. QED BY <1>1, <1>2, <1>3, <1>4, <1>5, <1>6, <1>7, <1>8 DEF ReceiverStep

LEMMA InitGeneral == Init => General
<1>. SUFFICES ASSUME Init PROVE General
  OBVIOUS
<1>1. /\ <<>> \in Seq(Datagrams) /\ <<>> \in Seq(Seq(Datagrams)) /\ Len(<<>>) = 0 /\ Parts \in Nat
      /\ Capacity \in Nat /\ MaxCalls \in Nat
  BY EmptySeq, ExchangeAssumption DEF Parts
<1>2. Plain /\ Typed
  <2>1. \A s \in Sides : wire[s] = <<>>
    BY DEF Init
  <2>2. \A s \in Sides : Len(wire[s]) <= Capacity
    BY <1>1, <2>1
  <2>3. wire \in [Sides -> Seq(Datagrams)]
    BY <1>1 DEF Init
  <2>4. Plain
    <3>1. /\ closed = {} /\ reset = {} /\ rq = "ready" /\ call = 0 /\ answers = {} /\ failed = {}
          /\ rc = "idle"
      BY DEF Init
    <3>2. last \in BOOLEAN /\ stopping \in BOOLEAN
      BY DEF Init
    <3>. QED BY <1>1, <2>2, <3>1, <3>2 DEF Plain
  <2>5. Typed
    BY <1>1, <2>3 DEF Init, Typed
  <2>. QED BY <2>4, <2>5
<1>3. RequesterAt /\ ReceiverAt
  BY <1>1 DEF Init, RequesterAt, ReceiverAt
<1>4. Ends
  BY DEF Init, Ends
<1>. QED BY <1>2, <1>3, <1>4 DEF General

LEMMA StepGeneral == General /\ [Next]_vars => General'
<1>1. General /\ UNCHANGED vars => General'
  <2>. SUFFICES ASSUME General, UNCHANGED vars PROVE General'
    OBVIOUS
  <2>1. /\ UNCHANGED <<wire, closed, reset, requester, receiver>>
    BY DEF vars
  <2>2. Plain' /\ Typed'
    BY <2>1 DEF General, Plain, Typed, requester, receiver
  <2>. QED BY <2>1, <2>2, FrameRequester, FrameReceiver DEF General
<1>. QED BY <1>1, RequesterGeneral, ReceiverGeneral DEF Next

\* Every variable keeps to its domain, also when nothing is retired and the two sides
\* read each other's messages askew.
THEOREM ExchangeTypeCorrect == Spec => []TypeOK
<1>1. General /\ room \in 1..Capacity => TypeOK
  <2>. SUFFICES ASSUME General, room \in 1..Capacity PROVE TypeOK
    OBVIOUS
  <2>1. \A s \in Sides : \A k \in DOMAIN wire[s] : wire[s][k] \in Datagrams
    BY ElementOfSeq, LenProperties DEF General, Typed
  <2>2. \A box \in {rqBox, rqOut, rcBox, rcOut} : box \in UNION {[1..k -> Datagrams] : k \in 0..3}
    <3>1. Len(rqBox) <= 3 /\ Len(rqOut) <= 3 /\ Len(rcBox) <= 3 /\ Len(rcOut) <= 3
      <4>1. Len(rqBox) \in Nat /\ Len(rqOut) <= 3 /\ Len(rcBox) <= 3 /\ Len(rcOut) \in Nat
        BY LenProperties DEF General, Typed, RequesterAt, ReceiverAt
      <4>2. Len(rqBox) <= 3
        <5>1. rq = "sending" => rqBox = <<>>
          BY DEF General, RequesterAt
        <5>2. Len(<<>>) = 0
          BY EmptySeq
        <5>3. rq = "ready" => Len(rqBox) <= 2
          BY DEF General, RequesterAt
        <5>4. rq = "receiving" => Len(rqBox) < 2
          BY DEF General, RequesterAt
        <5>. QED BY <4>1, <5>1, <5>2, <5>3, <5>4 DEF General, Plain
      <4>3. Len(rcOut) <= 2
        BY DEF General, ReceiverAt
      <4>. QED BY <4>1, <4>2, <4>3
    <3>. QED BY <3>1, FewIs DEF General, Typed
  <2>3. \A k \in DOMAIN handled : handled[k] \in UNION {[1..j -> Datagrams] : j \in 0..3}
    <3>. SUFFICES ASSUME NEW k \in DOMAIN handled
                  PROVE  handled[k] \in UNION {[1..j -> Datagrams] : j \in 0..3}
      OBVIOUS
    <3>1. k \in 1..Len(handled) /\ handled[k] \in Seq(Datagrams)
      BY ElementOfSeq, LenProperties DEF General, Typed
    <3>2. Len(handled[k]) <= 3
      BY <3>1 DEF General, ReceiverAt, Parts
    <3>. QED BY <3>1, <3>2, FewIs
  <2>. QED BY <2>1, <2>2, <2>3 DEF General, Plain, TypeOK, Datagrams
<1>2. Init => room \in 1..Capacity
  BY DEF Init
<1>3. room \in 1..Capacity /\ [Next]_vars => (room \in 1..Capacity)'
  BY DEF Next, vars, RequesterStep, ReceiverStep, Call, CallRetired, RequesterSends, GiveUp, ExchangeFails,
         RequesterReads, RequesterCloses, ReceiverReads, PeerIsGone, TimesOut, Answer, ReceiverSends,
         ReceiverAnswered, ReceiverCannotSend, Stop
<1>. QED BY <1>1, <1>2, <1>3, InitGeneral, StepGeneral, PTL DEF Spec

-------------------------------------------------------------------------------
(***************************************************************************)
(* Cuts of a message.                                                      *)
(***************************************************************************)
LEMMA Cut ==
    ASSUME NEW S, NEW s \in Seq(S), NEW a \in Nat, NEW b \in Nat
    PROVE  a <= b /\ b <= Len(s) =>
               /\ Slice(s, a, b) \in Seq(S) /\ Len(Slice(s, a, b)) = b - a
               /\ \A i \in 1..(b - a) : Slice(s, a, b)[i] = s[a + i]
<1>. SUFFICES ASSUME a <= b, b <= Len(s)
              PROVE  /\ Slice(s, a, b) \in Seq(S) /\ Len(Slice(s, a, b)) = b - a
                     /\ \A i \in 1..(b - a) : Slice(s, a, b)[i] = s[a + i]
  OBVIOUS
<1>1. Len(s) \in Nat /\ a + 1 \in Int /\ b \in Int
  BY LenProperties
<1>2. \A i \in (a + 1)..b : s[i] \in S
  BY <1>1, ElementOfSeq
<1>. DEFINE cut == SubSeq(s, a + 1, b)
<1>3. /\ cut \in Seq(S) /\ Len(cut) = IF a + 1 <= b THEN b - (a + 1) + 1 ELSE 0
      /\ \A i \in 1..(b - (a + 1) + 1) : cut[i] = s[a + 1 + i - 1]
  BY <1>1, <1>2, SubSeqProperties
<1>. HIDE DEF cut
<1>4. Len(cut) = b - a /\ \A i \in 1..(b - a) : cut[i] = s[a + i]
  BY <1>3
<1>. QED BY <1>3, <1>4 DEF Slice, cut

LEMMA CutEmpty ==
    ASSUME NEW S, NEW s \in Seq(S), NEW a \in Nat, NEW b \in Nat, a <= b, b <= Len(s)
    PROVE  Slice(s, a, b) = <<>> <=> a = b
<1>1. Len(Slice(s, a, b)) = b - a
  BY Cut
<1>. DEFINE cut == Slice(s, a, b)
<1>2. cut = <<>> => Len(cut) = 0
  BY EmptySeq
<1>3. a = b => cut = <<>>
  <2>1. a = b => a + 1 \in Int /\ b \in Int /\ b < a + 1
    OBVIOUS
  <2>. QED BY <2>1, SubSeqEmpty DEF Slice
<1>. HIDE DEF cut
<1>4. Len(cut) = b - a
  BY <1>1 DEF cut
<1>5. cut = <<>> <=> a = b
  BY <1>2, <1>3, <1>4
<1>. QED BY <1>5 DEF cut

LEMMA CutAll ==
    ASSUME NEW S, NEW s \in Seq(S), NEW n, n = Len(s)
    PROVE  Slice(s, 0, n) = s /\ Slice(s, 0, 0) = <<>>
<1>1. Len(s) \in Nat /\ 0 <= Len(s) /\ 0 + 1 = 1
  BY LenProperties
<1>2. Slice(s, 0, Len(s)) = s
  BY <1>1, SubSeqFull DEF Slice
<1>3. Slice(s, 0, 0) = <<>>
  BY <1>1, CutEmpty
<1>. QED BY <1>2, <1>3

\* What is read moves the cut, from both of its sides.
LEMMA CutMoves ==
    ASSUME NEW S, NEW s \in Seq(S), NEW a \in Nat, NEW b \in Nat, NEW c \in Nat
    PROVE  a <= b /\ b < c /\ c <= Len(s) =>
               /\ Tail(Slice(s, b, c)) = Slice(s, b + 1, c)
               /\ Append(Slice(s, a, b), Head(Slice(s, b, c))) = Slice(s, a, b + 1)
<1>. SUFFICES ASSUME a <= b, b < c, c <= Len(s)
              PROVE  /\ Tail(Slice(s, b, c)) = Slice(s, b + 1, c)
                     /\ Append(Slice(s, a, b), Head(Slice(s, b, c))) = Slice(s, a, b + 1)
  OBVIOUS
<1>1. Len(s) \in Nat
  BY LenProperties
<1>2. b + 1 \in 1..Len(s) /\ c \in (b + 1)..Len(s)
  BY <1>1
<1>3. Head(Slice(s, b, c)) = s[b + 1] /\ Tail(Slice(s, b, c)) = Slice(s, b + 1, c)
  <2>. DEFINE d == b + 1
  <2>1. d \in 1..Len(s) /\ c \in d..Len(s)
    BY <1>2
  <2>. HIDE DEF d
  <2>2. Head(SubSeq(s, d, c)) = s[d] /\ Tail(SubSeq(s, d, c)) = SubSeq(s, d + 1, c)
    BY <2>1, HeadTailOfSubSeq
  <2>. QED BY <2>2 DEF Slice, d
<1>4. Append(Slice(s, a, b), s[b + 1]) = Slice(s, a, b + 1)
  <2>. DEFINE x == s[b + 1]
              one == Slice(s, a, b)
              more == Append(one, x)
              cut == Slice(s, a, b + 1)
  <2>1. x \in S
    BY <1>2, ElementOfSeq
  <2>2. /\ one \in Seq(S) /\ Len(one) = b - a /\ \A i \in 1..(b - a) : one[i] = s[a + i]
    <3>1. a <= b /\ b <= Len(s)
      BY <1>1
    <3>. QED BY <3>1, Cut
  <2>4. /\ cut \in Seq(S) /\ Len(cut) = b + 1 - a /\ \A i \in 1..(b + 1 - a) : cut[i] = s[a + i]
    <3>. DEFINE d == b + 1
    <3>1. d \in Nat /\ a <= d /\ d <= Len(s)
      BY <1>1
    <3>. HIDE DEF d
    <3>2. /\ Slice(s, a, d) \in Seq(S) /\ Len(Slice(s, a, d)) = d - a
          /\ \A i \in 1..(d - a) : Slice(s, a, d)[i] = s[a + i]
      BY <3>1, Cut
    <3>. QED BY <3>2 DEF d
  <2>. HIDE DEF x, one, cut
  <2>5. /\ more \in Seq(S) /\ Len(more) = Len(one) + 1 /\ \A i \in 1..Len(one) : more[i] = one[i]
        /\ more[Len(one) + 1] = x
    BY <2>1, <2>2, AppendProperties
  <2>. HIDE DEF more
  <2>6. Len(more) = b + 1 - a
    BY <2>2, <2>5
  <2>7. \A i \in 1..(b + 1 - a) : more[i] = cut[i]
    <3>. SUFFICES ASSUME NEW i \in 1..(b + 1 - a) PROVE more[i] = cut[i]
      OBVIOUS
    <3>1. CASE i \in 1..(b - a)
      BY <2>2, <2>4, <2>5, <3>1
    <3>2. CASE i = b - a + 1
      <4>1. Len(one) + 1 = i /\ a + i = b + 1
        BY <2>2, <3>2
      <4>. QED BY <2>4, <2>5, <4>1 DEF x
    <3>. QED BY <3>1, <3>2
  <2>8. more = cut
    BY <2>4, <2>5, <2>6, <2>7, SeqEqual
  <2>. QED BY <2>8 DEF more, one, x, cut
<1>. QED BY <1>3, <1>4

\* What may be on its way to the requester.
LEMMA ScriptIs ==
    ASSUME NEW m \in 0..MaxCalls
    PROVE  /\ Script(m) \in Seq(Datagrams) /\ Len(Script(m)) = 4
           /\ Script(m)[2].of = m
           /\ Slice(Script(m), 0, 2) = Response(m) /\ Slice(Script(m), 2, 4) = Response(Goodbye)
           /\ \A i, j \in 2..4 : i <= j => Slice(Script(m), i, j) = Slice(Script(Goodbye), i - 2, j - 2)
<1>0. Goodbye \in 0..MaxCalls
  BY ExchangeAssumption DEF Goodbye
<1>1. ASSUME NEW k \in 0..MaxCalls
      PROVE  /\ Script(k) \in Seq(Datagrams) /\ Len(Script(k)) = 4
             /\ Script(k)[1] = Response(k)[1] /\ Script(k)[2] = Response(k)[2]
             /\ Script(k)[3] = Response(Goodbye)[1] /\ Script(k)[4] = Response(Goodbye)[2]
  <2>. DEFINE one == Response(k)
              two == Response(Goodbye)
  <2>1. one \in Seq(Datagrams) /\ Len(one) = 2 /\ two \in Seq(Datagrams) /\ Len(two) = 2
    BY <1>0, MessageIs
  <2>. HIDE DEF one, two
  <2>2. /\ one \o two \in Seq(Datagrams) /\ Len(one \o two) = Len(one) + Len(two)
        /\ \A i \in 1..(Len(one) + Len(two)) :
              (one \o two)[i] = IF i <= Len(one) THEN one[i] ELSE two[i - Len(one)]
    BY <2>1, ConcatProperties
  <2>. DEFINE all == one \o two
  <2>. HIDE DEF all
  <2>3. Len(all) = 4 /\ \A i \in 1..4 : all[i] = IF i <= 2 THEN one[i] ELSE two[i - 2]
    BY <2>1, <2>2 DEF all
  <2>4. all[1] = one[1] /\ all[2] = one[2] /\ all[3] = two[1] /\ all[4] = two[2]
    BY <2>3
  <2>. QED BY <2>2, <2>3, <2>4 DEF Script, all, one, two
<1>2. ASSUME NEW s \in Seq(Datagrams), NEW t \in Seq(Datagrams), Len(s) = 4, Len(t) >= 2,
             NEW i \in 0..4, NEW j \in 0..4, NEW d \in {0, 2}, d <= i, i <= j, j - d <= Len(t),
             \A k \in 1..4 : k > i /\ k <= j => s[k] = t[k - d]
      PROVE  Slice(s, i, j) = Slice(t, i - d, j - d)
  <2>. DEFINE one == Slice(s, i, j)
              two == Slice(t, i - d, j - d)
  <2>1. i \in Nat /\ j \in Nat /\ i <= j /\ j <= Len(s)
    BY <1>2
  <2>2. i - d \in Nat /\ j - d \in Nat /\ i - d <= j - d /\ j - d <= Len(t) /\ (j - d) - (i - d) = j - i
    BY <1>2
  <2>3. one \in Seq(Datagrams) /\ Len(one) = j - i /\ \A k \in 1..(j - i) : one[k] = s[i + k]
    BY <2>1, Cut
  <2>4. /\ two \in Seq(Datagrams) /\ Len(two) = (j - d) - (i - d)
        /\ \A k \in 1..((j - d) - (i - d)) : two[k] = t[i - d + k]
    <3>. DEFINE x == i - d
                y == j - d
    <3>1. x \in Nat /\ y \in Nat /\ x <= y /\ y <= Len(t)
      BY <2>2
    <3>. HIDE DEF x, y
    <3>2. /\ Slice(t, x, y) \in Seq(Datagrams) /\ Len(Slice(t, x, y)) = y - x
          /\ \A k \in 1..(y - x) : Slice(t, x, y)[k] = t[x + k]
      BY <3>1, Cut
    <3>. QED BY <3>2 DEF x, y
  <2>5. Len(two) = j - i /\ \A k \in 1..(j - i) : two[k] = t[i - d + k]
    BY <2>2, <2>4
  <2>. HIDE DEF one, two
  <2>6. \A k \in 1..(j - i) : one[k] = two[k]
    <3>. SUFFICES ASSUME NEW k \in 1..(j - i) PROVE one[k] = two[k]
      OBVIOUS
    <3>1. i + k \in 1..4 /\ i + k > i /\ i + k <= j /\ i + k - d = i - d + k
      OBVIOUS
    <3>2. s[i + k] = t[i + k - d]
      <4>. DEFINE p == i + k
      <4>1. p \in 1..4 /\ p > i /\ p <= j
        BY <3>1
      <4>. HIDE DEF p
      <4>2. s[p] = t[p - d]
        BY <1>2, <4>1
      <4>. QED BY <4>2 DEF p
    <3>. QED BY <2>3, <2>5, <3>1, <3>2
  <2>7. one = two
    BY <2>3, <2>4, <2>5, <2>6, SeqEqual
  <2>. QED BY <2>7 DEF one, two
<1>3. /\ Response(m) \in Seq(Datagrams) /\ Len(Response(m)) = 2 /\ Response(m)[2].of = m
      /\ Response(Goodbye) \in Seq(Datagrams) /\ Len(Response(Goodbye)) = 2
  BY <1>0, MessageIs
<1>4. Slice(Script(m), 0, 2) = Response(m)
  <2>1. Slice(Script(m), 0, 2) = Slice(Response(m), 0 - 0, 2 - 0)
    <3>1. \A k \in 1..4 : k > 0 /\ k <= 2 => k = 1 \/ k = 2
      OBVIOUS
    <3>2. \A k \in 1..4 : k > 0 /\ k <= 2 => Script(m)[k] = Response(m)[k - 0]
      BY <1>1, <3>1
    <3>. QED BY <1>1, <1>2, <1>3, <3>2
  <2>2. Slice(Response(m), 0, 2) = Response(m)
    BY <1>3, CutAll
  <2>. QED BY <2>1, <2>2
<1>5. Slice(Script(m), 2, 4) = Response(Goodbye)
  <2>1. Slice(Script(m), 2, 4) = Slice(Response(Goodbye), 2 - 2, 4 - 2)
    <3>1. \A k \in 1..4 : k > 2 /\ k <= 4 => k = 3 \/ k = 4
      OBVIOUS
    <3>2. \A k \in 1..4 : k > 2 /\ k <= 4 => Script(m)[k] = Response(Goodbye)[k - 2]
      BY <1>1, <3>1
    <3>. QED BY <1>1, <1>2, <1>3, <3>2
  <2>2. Slice(Response(Goodbye), 0, 2) = Response(Goodbye)
    BY <1>3, CutAll
  <2>. QED BY <2>1, <2>2
<1>6. ASSUME NEW i \in 2..4, NEW j \in 2..4, i <= j
      PROVE  Slice(Script(m), i, j) = Slice(Script(Goodbye), i - 2, j - 2)
  <2>1. \A k \in 1..4 : k > i /\ k <= j => k = 3 \/ k = 4
    OBVIOUS
  <2>2. \A k \in 1..4 : k > i /\ k <= j => Script(m)[k] = Script(Goodbye)[k - 2]
    BY <1>0, <1>1, <2>1
  <2>3. i \in 0..4 /\ j \in 0..4 /\ 2 <= i /\ j - 2 <= Len(Script(Goodbye)) /\ Len(Script(Goodbye)) >= 2
    BY <1>0, <1>1
  <2>. QED BY <1>0, <1>1, <1>2, <1>6, <2>2, <2>3
<1>. QED BY <1>1, <1>3, <1>4, <1>5, <1>6
-------------------------------------------------------------------------------
(***************************************************************************)
(* A connection that is retired when an exchange fails: the two streams    *)
(* stay aligned.                                                           *)
(***************************************************************************)
LEMMA CutNone == \A s : \A a \in Nat : Slice(s, a, a) = <<>>
<1>. SUFFICES ASSUME NEW s, NEW a \in Nat PROVE Slice(s, a, a) = <<>>
  OBVIOUS
<1>1. a + 1 \in Int /\ a \in Int /\ a < a + 1
  OBVIOUS
<1>. QED BY <1>1, SubSeqEmpty DEF Slice

\* The numbers the invariant counts with.
LEMMA Counts ==
    ASSUME General
    PROVE  /\ Len(handled) \in Nat /\ call \in 0..MaxCalls /\ call \in Nat /\ MaxCalls \in Nat
           /\ Parts \in {2, 3} /\ Goodbye = 0 /\ Goodbye \in 0..MaxCalls
           /\ "requester" \in Sides /\ "receiver" \in Sides
           /\ wire \in [Sides -> Seq(Datagrams)]
BY ExchangeAssumption, LenProperties DEF General, Plain, Typed, Parts, Goodbye, Sides

LEMMA UpStays ==
    ASSUME Up, UNCHANGED <<rc, last, handled, rcBox, call, rq, rqOut>>,
           wire'["receiver"] = wire["receiver"], Open' => Open
    PROVE  Up'
BY DEF Up, UpAt, Listens

LEMMA DownStays ==
    ASSUME Down, UNCHANGED <<rc, last, rcOut, call, rq, rqBox, handled>>,
           wire'["requester"] = wire["requester"], Open' => Open
    PROVE  Down'
BY DEF Down, DownAt, Inbox, Listens

LEMMA CallAligned == General /\ Aligned /\ Call => Aligned'
<1>. SUFFICES ASSUME General, Aligned, Call PROVE Aligned'
  OBVIOUS
<1>0. /\ Len(handled) \in Nat /\ call \in 0..MaxCalls /\ call \in Nat /\ MaxCalls \in Nat /\ Parts \in {2, 3}
      /\ Goodbye = 0
  BY Counts
<1>1. /\ rq = "ready" /\ Open /\ Open' /\ call' = call + 1 /\ call' \in 0..MaxCalls /\ rq' = "sending"
      /\ rqOut' = Request(call') /\ rqBox' = <<>>
      /\ UNCHANGED <<wire, answers, rc, rcBox, rcOut, last, handled>>
  BY <1>0 DEF Call, Open, receiver
<1>2. Up'
  <2>. SUFFICES ASSUME Listens' PROVE \E a, b \in 0..3 : UpAt(a, b)'
    BY DEF Up
  <2>1. Listens
    BY <1>1 DEF Listens
  <2>2. PICK a \in 0..3, b \in 0..3 : UpAt(a, b)
    BY <2>1 DEF Aligned, Up
  <2>3. /\ Len(handled) + 1 = call' /\ a = 0 /\ b = 0 /\ rc \notin {"handling", "sending"}
        /\ rcBox = Slice(Request(call'), 0, 0) /\ wire["receiver"] = Slice(Request(call'), 0, 0)
    BY <1>0, <1>1, <2>2 DEF UpAt
  <2>4. Slice(Request(call'), 0, Parts) = Request(call')
    BY <1>1, MessageIs, CutAll
  <2>5. UpAt(0, 0)'
    BY <1>0, <1>1, <2>3, <2>4 DEF UpAt
  <2>. QED BY <2>5
<1>3. Down'
  <2>1. PICK m \in {Goodbye, call}, a \in 0..4, b \in 0..4, c \in {0, 2, 4} : DownAt(m, a, b, c)
    BY <1>1 DEF Aligned, Down
  <2>2. m = Goodbye
    BY <1>1, <2>1 DEF DownAt
  <2>3. Inbox' = Inbox
    BY <1>1 DEF Inbox
  <2>4. DownAt(m, a, b, c)'
    BY <1>1, <2>1, <2>2, <2>3 DEF DownAt, Listens
  <2>. QED BY <2>2, <2>4 DEF Down
<1>4. Handled' /\ Answered'
  BY <1>0, <1>1 DEF Aligned, Handled, Answered
<1>. QED BY <1>2, <1>3, <1>4 DEF Aligned

LEMMA CallRetiredAligned == General /\ Aligned /\ CallRetired => Aligned'
<1>. SUFFICES ASSUME General, Aligned, CallRetired PROVE Aligned'
  OBVIOUS
<1>0. Len(handled) \in Nat /\ call \in Nat
  BY Counts
<1>1. /\ rq = "ready" /\ ~Open /\ ~Open' /\ call' = call + 1
      /\ UNCHANGED <<wire, closed, rq, rqOut, answers, rc, rcBox, last, handled>>
  BY DEF CallRetired, Open, receiver
<1>2. Up'
  <2>. SUFFICES ASSUME Listens' PROVE \E a, b \in 0..3 : UpAt(a, b)'
    BY DEF Up
  <2>1. Listens
    BY <1>1 DEF Listens
  <2>2. PICK a \in 0..3, b \in 0..3 : UpAt(a, b)
    BY <2>1 DEF Aligned, Up
  <2>3. UpAt(a, b)'
    BY <1>0, <1>1, <2>2 DEF UpAt
  <2>. QED BY <2>3
<1>3. Down' /\ Handled' /\ Answered'
  BY <1>0, <1>1 DEF Aligned, Down, Handled, Answered
<1>. QED BY <1>2, <1>3 DEF Aligned

LEMMA RequesterSendsAligned == General /\ Aligned /\ RequesterSends => Aligned'
<1>. SUFFICES ASSUME General, Aligned, RequesterSends PROVE Aligned'
  OBVIOUS
<1>0. /\ Len(handled) \in Nat /\ call \in 0..MaxCalls /\ call \in Nat /\ Parts \in {2, 3} /\ Goodbye = 0
      /\ "requester" \in Sides /\ "receiver" \in Sides /\ wire \in [Sides -> Seq(Datagrams)]
  BY Counts
<1>1. /\ rq = "sending" /\ Open /\ Open' /\ rqBox = <<>>
      /\ wire' = [wire EXCEPT !["receiver"] = Append(@, Head(rqOut))]
      /\ rqOut' = Tail(rqOut) /\ rq' = IF Tail(rqOut) = <<>> THEN "receiving" ELSE "sending"
      /\ UNCHANGED <<call, rqBox, answers, rc, rcBox, rcOut, last, handled>>
  BY DEF RequesterSends, Open, receiver, General, RequesterAt
<1>2. /\ wire'["receiver"] = Append(wire["receiver"], Head(rqOut))
      /\ wire'["requester"] = wire["requester"]
  BY <1>0, <1>1
<1>3. Up'
  <2>. SUFFICES ASSUME Listens' PROVE \E a, b \in 0..3 : UpAt(a, b)'
    BY DEF Up
  <2>1. Listens
    BY <1>1 DEF Listens
  <2>2. PICK a \in 0..3, b \in 0..3 : UpAt(a, b)
    BY <2>1 DEF Aligned, Up
  <2>. DEFINE message == Request(call)
  <2>3. /\ Len(handled) + 1 = call /\ a <= b /\ b < Parts /\ rc \notin {"handling", "sending"}
        /\ rcBox = Slice(message, 0, a) /\ wire["receiver"] = Slice(message, a, b)
        /\ rqOut = Slice(message, b, Parts)
    BY <1>0, <1>1, <2>2 DEF UpAt
  <2>4. message \in Seq(Datagrams) /\ Len(message) = Parts
    BY <1>0, MessageIs
  <2>. HIDE DEF message
  <2>5. a \in Nat /\ b \in Nat /\ Parts \in Nat /\ b + 1 \in 0..3 /\ b + 1 <= Parts /\ Parts <= Len(message)
    BY <1>0, <2>3, <2>4
  <2>6. /\ Tail(rqOut) = Slice(message, b + 1, Parts)
        /\ Append(Slice(message, a, b), Head(rqOut)) = Slice(message, a, b + 1)
    <3>1. /\ message \in Seq(Datagrams) /\ a \in Nat /\ b \in Nat /\ Parts \in Nat
          /\ a <= b /\ b < Parts /\ Parts <= Len(message)
      BY <2>3, <2>4, <2>5
    <3>2. /\ Tail(Slice(message, b, Parts)) = Slice(message, b + 1, Parts)
          /\ Append(Slice(message, a, b), Head(Slice(message, b, Parts))) = Slice(message, a, b + 1)
      BY <3>1, CutMoves
    <3>. QED BY <2>3, <3>2
  <2>7. Tail(rqOut) = <<>> <=> b + 1 = Parts
    <3>. DEFINE d == b + 1
    <3>1. d \in Nat /\ d <= Parts /\ Parts <= Len(message)
      BY <2>5
    <3>. HIDE DEF d
    <3>2. Slice(message, d, Parts) = <<>> <=> d = Parts
      BY <2>4, <2>5, <3>1, CutEmpty
    <3>. QED BY <2>6, <3>2 DEF d
  <2>8. UpAt(a, b + 1)'
    BY <1>0, <1>1, <1>2, <2>3, <2>5, <2>6, <2>7 DEF UpAt, message
  <2>. QED BY <2>5, <2>8
<1>4. Down'
  <2>1. PICK m \in {Goodbye, call}, a \in 0..4, b \in 0..4, c \in {0, 2, 4} : DownAt(m, a, b, c)
    BY <1>1 DEF Aligned, Down
  <2>2. m = Goodbye
    BY <1>1, <2>1 DEF DownAt
  <2>3. Inbox' = Inbox
    BY <1>1 DEF Inbox
  <2>4. DownAt(m, a, b, c)'
    BY <1>1, <1>2, <2>1, <2>2, <2>3 DEF DownAt, Listens
  <2>. QED BY <2>2, <2>4 DEF Down
<1>5. Handled' /\ Answered'
  BY <1>0, <1>1 DEF Aligned, Handled, Answered
<1>. QED BY <1>3, <1>4, <1>5 DEF Aligned

\* The requester closes, after a failure or because it is done.
LEMMA ClosesAligned ==
    ASSUME General, Aligned, Close("requester"), rq' = "ready",
           UNCHANGED <<call, answers, receiver>>
    PROVE  Aligned'
<1>0. /\ "requester" \in Sides /\ "receiver" \in Sides
  BY Counts
<1>1. wire'["receiver"] = wire["receiver"] /\ ~Open'
  BY <1>0, CloseIs DEF Open
<1>2. Up'
  <2>. SUFFICES ASSUME Listens' PROVE \E a, b \in 0..3 : UpAt(a, b)'
    BY DEF Up
  <2>1. Listens
    BY DEF Listens, receiver
  <2>2. PICK a \in 0..3, b \in 0..3 : UpAt(a, b)
    BY <2>1 DEF Aligned, Up
  <2>3. UpAt(a, b)'
    BY <1>1, <2>2 DEF UpAt, receiver
  <2>. QED BY <2>3
<1>3. Down' /\ Handled' /\ Answered'
  BY <1>1 DEF Aligned, Down, Handled, Answered, receiver
<1>. QED BY <1>2, <1>3 DEF Aligned

LEMMA RequesterReadsAligned == General /\ Aligned /\ RetireOnFailure /\ RequesterReads => Aligned'
<1>. SUFFICES ASSUME General, Aligned, RetireOnFailure, RequesterReads PROVE Aligned'
  OBVIOUS
<1>. DEFINE box == Append(rqBox, Head(wire["requester"]))
            rest == Tail(wire["requester"])
<1>0. /\ Len(handled) \in Nat /\ call \in 0..MaxCalls /\ call \in Nat /\ Goodbye = 0 /\ Parts \in {2, 3}
      /\ Goodbye \in 0..MaxCalls
      /\ "requester" \in Sides /\ "receiver" \in Sides /\ wire \in [Sides -> Seq(Datagrams)]
  BY Counts
<1>1. rq = "receiving" /\ wire["requester"] # <<>> /\ Open /\ call \in Calls /\ Inbox = rqBox
  BY DEF RequesterReads, CanRead, General, RequesterAt, Open, Inbox
<1>2. CASE Malformed(box, Response(call))
  <2>1. ExchangeFails(rest)
    BY <1>2 DEF RequesterReads
  <2>. QED BY <2>1, ClosesAligned DEF ExchangeFails
<1>3. CASE ~Malformed(box, Response(call))
  <2>1. /\ rqBox' = box /\ wire' = [wire EXCEPT !["requester"] = rest]
        /\ IF Len(box) = 2
           THEN answers' = answers \cup {<<call, box[2].of>>} /\ rq' = "ready"
           ELSE UNCHANGED <<answers, rq>>
        /\ UNCHANGED <<closed, call, rqOut, rc, rcBox, rcOut, last, handled>>
    BY <1>0, <1>3, CompleteIs DEF RequesterReads, receiver
  <2>2. wire'["requester"] = rest /\ wire'["receiver"] = wire["receiver"] /\ Open'
    BY <1>0, <1>1, <2>1 DEF Open
  <2>3. PICK m \in {Goodbye, call}, a \in 0..4, b \in 0..4, c \in {0, 2, 4} : DownAt(m, a, b, c)
    BY <1>1 DEF Aligned, Down
  <2>. DEFINE script == Script(m)
  <2>4. m \in 0..MaxCalls
    BY <1>0
  <2>5. /\ a <= b /\ b <= c /\ rqBox = Slice(script, 0, a) /\ wire["requester"] = Slice(script, a, b)
    BY <1>1, <2>3 DEF DownAt
  <2>6. script \in Seq(Datagrams) /\ Len(script) = 4
    BY <2>4, ScriptIs
  <2>. HIDE DEF script
  <2>7. a < b /\ a + 1 \in 0..4 /\ a + 1 <= b
    <3>1. a # b
      BY <1>1, <2>5, CutNone
    <3>. QED BY <2>5, <3>1
  <2>8. box = Slice(script, 0, a + 1) /\ rest = Slice(script, a + 1, b) /\ Len(box) = a + 1
    <3>1. /\ 0 \in Nat /\ a \in Nat /\ b \in Nat /\ 0 <= a /\ a < b /\ b <= Len(script)
      BY <2>6, <2>7
    <3>2. /\ Tail(Slice(script, a, b)) = Slice(script, a + 1, b)
          /\ Append(Slice(script, 0, a), Head(Slice(script, a, b))) = Slice(script, 0, a + 1)
      BY <2>6, <3>1, CutMoves
    <3>3. Len(Slice(script, 0, a + 1)) = a + 1
      <4>. DEFINE d == a + 1
      <4>1. d \in Nat /\ 0 <= d /\ d <= Len(script)
        BY <2>6, <2>7
      <4>. HIDE DEF d
      <4>2. Len(Slice(script, 0, d)) = d - 0
        <5>1. 0 \in Nat
          OBVIOUS
        <5>. QED BY <2>6, <4>1, <5>1, Cut
      <4>. QED BY <4>1, <4>2 DEF d
    <3>. QED BY <2>5, <3>2, <3>3
  <2>. HIDE DEF box, rest
  <2>9. CASE a + 1 # 2
    <3>1. UNCHANGED <<answers, rq>> /\ Inbox' = box
      BY <1>1, <2>1, <2>8, <2>9 DEF Inbox
    <3>2. DownAt(m, a + 1, b, c)'
      BY <2>1, <2>2, <2>3, <2>7, <2>8, <3>1 DEF DownAt, Listens, script
    <3>3. Down'
      BY <2>1, <2>7, <3>2 DEF Down
    <3>4. Up'
      BY <1>1, <2>1, <2>2, <3>1, UpStays DEF Aligned
    <3>. QED BY <2>1, <3>1, <3>3, <3>4 DEF Aligned, Handled, Answered
  <2>10. CASE a + 1 = 2
    <3>1. /\ rq' = "ready" /\ Inbox' = <<>> /\ answers' = answers \cup {<<call, box[2].of>>}
          /\ b >= 2 /\ c \in {2, 4}
      <4>1. Len(box) = 2
        BY <2>8, <2>10
      <4>2. b >= 2 /\ c >= 2
        BY <2>5, <2>7, <2>10
      <4>3. c \in {2, 4}
        BY <4>2
      <4>. QED BY <2>1, <4>1, <4>2, <4>3 DEF Inbox
    <3>2. box[2].of = m
      <4>1. box = Response(m)
        BY <2>4, <2>8, <2>10, ScriptIs DEF script
      <4>. QED BY <2>4, <4>1, MessageIs
    <3>3. m # Goodbye => Len(handled) = call
      BY <2>3 DEF DownAt
    <3>4. rc # "handling" /\ (Listens => rc # "sending" /\ m # Goodbye)
      <4>1. rc # "handling"
        BY <2>3, <3>1 DEF DownAt
      <4>2. Listens => m # Goodbye /\ c # 4
        BY <2>3, <3>1 DEF DownAt
      <4>3. Listens => rc # "sending"
        BY <2>3, <3>1, <4>2 DEF DownAt
      <4>. QED BY <4>1, <4>2, <4>3
    <3>5. DownAt(Goodbye, 0, b - 2, c - 2)'
      <4>1. /\ Slice(script, 2, b) = Slice(Script(Goodbye), 0, b - 2)
            /\ Slice(script, b, c) = Slice(Script(Goodbye), b - 2, c - 2)
        <5>1. /\ 2 \in 2..4 /\ b \in 2..4 /\ c \in 2..4 /\ 2 <= b /\ b <= c /\ 2 - 2 = 0
          BY <2>5, <3>1
        <5>2. \A i, j \in 2..4 : i <= j => Slice(script, i, j) = Slice(Script(Goodbye), i - 2, j - 2)
          BY <2>4, ScriptIs DEF script
        <5>3. Slice(script, 2, b) = Slice(Script(Goodbye), 2 - 2, b - 2)
          BY <5>1, <5>2
        <5>. QED BY <5>1, <5>2, <5>3
      <4>2. wire'["requester"] = Slice(Script(Goodbye), 0, b - 2)
        BY <2>2, <2>8, <2>10, <4>1
      <4>3. Slice(Script(Goodbye), 0, 0) = <<>>
        BY CutNone
      <4>4. rc = "sending" => b < c /\ c <= b + 2 /\ rcOut = Slice(Script(Goodbye), b - 2, c - 2)
        BY <2>3, <4>1 DEF DownAt, script
      <4>5. rc \in {"idle", "reading", "handling"} => b = c
        BY <2>3 DEF DownAt
      <4>6. c = 4 => ~Listens
        BY <2>3 DEF DownAt
      <4>7. UNCHANGED <<rc, last, rcOut, handled, call>>
        BY <2>1
      <4>8. 0 <= b - 2 /\ b - 2 <= c - 2
        BY <2>5, <3>1
      <4>. QED BY <3>1, <3>4, <4>2, <4>3, <4>4, <4>5, <4>6, <4>7, <4>8 DEF DownAt, Listens
    <3>6. Down'
      <4>1. b - 2 \in 0..4 /\ c - 2 \in {0, 2, 4} /\ 0 \in 0..4
        BY <3>1
      <4>. QED BY <3>5, <4>1 DEF Down
    <3>7. Up'
      <4>. SUFFICES ASSUME Listens' PROVE \E i, j \in 0..3 : UpAt(i, j)'
        BY DEF Up
      <4>1. Listens
        BY <2>1 DEF Listens
      <4>2. PICK i \in 0..3, j \in 0..3 : UpAt(i, j)
        BY <4>1 DEF Aligned, Up
      <4>3. Len(handled) = call /\ rc \notin {"handling", "sending"}
        BY <3>3, <3>4, <4>1
      <4>4. j = 0
        BY <1>0, <1>1, <4>2, <4>3 DEF UpAt
      <4>5. UpAt(i, j)'
        BY <1>0, <1>1, <2>1, <2>2, <3>1, <4>2, <4>3, <4>4 DEF UpAt
      <4>. QED BY <4>5
    <3>8. Handled' /\ Answered'
      <4>1. m # Goodbye => call \in 1..Len(handled) /\ m = call
        BY <1>0, <1>1, <3>3 DEF Calls
      <4>2. \A x \in answers' : x \in answers \/ x = <<call, m>>
        BY <3>1, <3>2
      <4>3. <<call, m>>[1] = call /\ <<call, m>>[2] = m
        OBVIOUS
      <4>4. Answered'
        BY <2>1, <4>1, <4>2, <4>3 DEF Aligned, Answered
      <4>. QED BY <2>1, <4>4 DEF Aligned, Handled
    <3>. QED BY <3>6, <3>7, <3>8 DEF Aligned
  <2>. QED BY <2>9, <2>10
<1>. QED BY <1>2, <1>3

LEMMA RequesterAligned == General /\ Aligned /\ RetireOnFailure /\ RequesterStep => Aligned'
<1>1. General /\ Aligned /\ RetireOnFailure /\ GiveUp => Aligned'
  BY ClosesAligned DEF GiveUp, ExchangeFails
<1>2. General /\ Aligned /\ RequesterCloses => Aligned'
  BY ClosesAligned DEF RequesterCloses, requester
<1>. QED BY <1>1, <1>2, CallAligned, CallRetiredAligned, RequesterSendsAligned, RequesterReadsAligned
         DEF RequesterStep

\* The receiver's end closes: there is nothing it will read any more.
LEMMA HangupAligned ==
    ASSUME General, Aligned, Hangup, UNCHANGED <<requester, rcOut, last, handled>>
    PROVE  Aligned'
<1>0. "requester" \in Sides /\ "receiver" \in Sides
  BY Counts
<1>1. /\ rc' = "closed" /\ wire'["requester"] = wire["requester"] /\ closed' = closed \cup {"receiver"}
  BY <1>0, CloseIs DEF Hangup
<1>2. Open' => Open
  BY <1>1 DEF Open
<1>3. ~Listens'
  BY <1>1 DEF Listens
<1>4. Down'
  <2>. SUFFICES ASSUME Open' PROVE Down'
    BY DEF Down
  <2>1. PICK m \in {Goodbye, call}, a \in 0..4, b \in 0..4, c \in {0, 2, 4} : DownAt(m, a, b, c)
    BY <1>2 DEF Aligned, Down
  <2>2. DownAt(m, a, b, c)'
    BY <1>1, <1>3, <2>1 DEF DownAt, Inbox, requester
  <2>3. call' = call
    BY DEF requester
  <2>. QED BY <2>2, <2>3 DEF Down
<1>5. Up'
  BY <1>3 DEF Up
<1>6. Handled' /\ Answered'
  BY DEF Aligned, Handled, Answered, requester
<1>. QED BY <1>4, <1>5, <1>6 DEF Aligned

LEMMA ReceiverReadsAligned == General /\ Aligned /\ ReceiverReads => Aligned'
<1>. SUFFICES ASSUME General, Aligned, ReceiverReads PROVE Aligned'
  OBVIOUS
<1>. DEFINE box == Append(rcBox, Head(wire["receiver"]))
            rest == Tail(wire["receiver"])
            n == Len(handled) + 1
            message == Request(n)
<1>0. /\ Len(handled) \in Nat /\ call \in 0..MaxCalls /\ call \in Nat /\ Goodbye = 0 /\ Parts \in {2, 3}
      /\ Goodbye \in 0..MaxCalls /\ MaxCalls \in Nat
      /\ "requester" \in Sides /\ "receiver" \in Sides /\ wire \in [Sides -> Seq(Datagrams)]
      /\ handled \in Seq(Seq(Datagrams))
  BY Counts DEF General, Typed
<1>1. /\ rc \in {"idle", "reading"} /\ wire["receiver"] # <<>> /\ Listens
      /\ wire' = [wire EXCEPT !["receiver"] = rest]
      /\ UNCHANGED <<closed, rq, call, rqBox, rqOut, answers>>
  BY DEF ReceiverReads, Reading, CanRead, Listens, requester
<1>2. wire'["receiver"] = rest /\ wire'["requester"] = wire["requester"] /\ Open' = Open
  BY <1>0, <1>1 DEF Open
<1>3. PICK a \in 0..3, b \in 0..3 : UpAt(a, b)
  BY <1>1 DEF Aligned, Up
<1>4. /\ a <= b /\ b <= Parts /\ rcBox = Slice(message, 0, a) /\ wire["receiver"] = Slice(message, a, b)
  BY <1>3 DEF UpAt
<1>5. a < b
  <2>1. a # b
    BY <1>1, <1>4, CutNone
  <2>. QED BY <1>4, <2>1
<1>6. n <= call /\ n \in 0..MaxCalls
  <2>1. n <= call
    BY <1>3, <1>5 DEF UpAt
  <2>. QED BY <1>0, <2>1
<1>7. message \in Seq(Datagrams) /\ Len(message) = Parts /\ message[1].part = 0 /\ message[2].part = 1
  BY <1>6, MessageIs
<1>. HIDE DEF message
<1>8. /\ box = Slice(message, 0, a + 1) /\ rest = Slice(message, a + 1, b) /\ Len(box) = a + 1
      /\ \A i \in 1..(a + 1) : box[i] = message[i]
  <2>1. /\ message \in Seq(Datagrams) /\ 0 \in Nat /\ a \in Nat /\ b \in Nat
        /\ 0 <= a /\ a < b /\ b <= Len(message)
    BY <1>0, <1>4, <1>5, <1>7
  <2>2. /\ Tail(Slice(message, a, b)) = Slice(message, a + 1, b)
        /\ Append(Slice(message, 0, a), Head(Slice(message, a, b))) = Slice(message, 0, a + 1)
    BY <2>1, CutMoves
  <2>3. Len(Slice(message, 0, a + 1)) = a + 1 /\ \A i \in 1..(a + 1) : Slice(message, 0, a + 1)[i] = message[i]
    <3>. DEFINE d == a + 1
    <3>1. message \in Seq(Datagrams) /\ 0 \in Nat /\ d \in Nat /\ 0 <= d /\ d <= Len(message)
      BY <2>1
    <3>. HIDE DEF d
    <3>2. /\ Len(Slice(message, 0, d)) = d - 0
          /\ \A i \in 1..(d - 0) : Slice(message, 0, d)[i] = message[0 + i]
      BY <3>1, Cut
    <3>3. d - 0 = d /\ \A i \in 1..d : 0 + i = i
      BY <3>1
    <3>4. Len(Slice(message, 0, d)) = d /\ \A i \in 1..d : Slice(message, 0, d)[i] = message[i]
      BY <3>2, <3>3
    <3>. QED BY <3>4 DEF d
  <2>. QED BY <1>4, <2>2, <2>3
<1>. HIDE DEF box, rest
<1>9. ~Malformed(box, Request(1)) /\ (Complete(box, Request(1)) <=> a + 1 = Parts)
  <2>1. Complete(box, Request(1)) <=> a + 1 = Parts
    BY <1>0, <1>8, CompleteIs
  <2>2. 1 \in 1..(a + 1) /\ (a + 1 = Parts => 2 \in 1..(a + 1))
    BY <1>0
  <2>. QED BY <1>7, <1>8, <2>1, <2>2 DEF Malformed
<1>10. CASE a + 1 = Parts
  <2>1. /\ rc' = "handling" /\ rcBox' = <<>> /\ handled' = Append(handled, box) /\ UNCHANGED <<rcOut, last>>
    BY <1>9, <1>10 DEF ReceiverReads, box
  <2>2. b = Parts /\ b # 0
    BY <1>0, <1>4, <1>5, <1>10
  <2>3. box = message /\ box \in Seq(Datagrams) /\ rest = <<>>
    <3>1. Slice(message, 0, Parts) = message
      BY <1>7, CutAll
    <3>2. Slice(message, Parts, Parts) = <<>>
      BY <1>0, CutNone
    <3>. QED BY <1>7, <1>8, <1>10, <2>2, <3>1, <3>2
  <2>4. /\ Len(handled') = Len(handled) + 1 /\ \A k \in 1..Len(handled) : handled'[k] = handled[k]
        /\ handled'[Len(handled) + 1] = box
    BY <1>0, <2>1, <2>3, AppendProperties
  <2>5. rq = "sending" => b < Parts
    BY <1>3 DEF UpAt
  <2>6. rq = "receiving" => n = call
    BY <1>0, <1>3, <2>2 DEF UpAt
  <2>7. ~(rq = "ready" /\ Open)
    BY <1>3, <2>2 DEF UpAt
  <2>8. rq \in {"ready", "sending", "receiving"}
    BY DEF General, Plain
  <2>9. UpAt(0, 0)'
    <3>1. Slice(Request(Len(handled') + 1), 0, 0) = <<>>
      BY CutNone
    <3>2. Len(handled') + 1 = n + 1
      BY <2>4
    <3>. QED BY <1>0, <1>1, <1>2, <2>1, <2>2, <2>3, <2>5, <2>6, <2>7, <2>8, <3>1, <3>2 DEF UpAt
  <2>10. Up'
    BY <2>9 DEF Up
  <2>11. Down'
    <3>. SUFFICES ASSUME Open PROVE Down'
      BY <1>2 DEF Down
    <3>1. PICK m \in {Goodbye, call}, i \in 0..4, j \in 0..4, c \in {0, 2, 4} : DownAt(m, i, j, c)
      BY DEF Aligned, Down
    <3>2. m = Goodbye /\ c = 0
      <4>1. m # Goodbye => Len(handled) = call
        BY <3>1 DEF DownAt
      <4>2. m = Goodbye
        BY <1>0, <1>6, <4>1
      <4>. QED BY <1>1, <3>1, <4>2 DEF DownAt
    <3>3. Inbox' = Inbox
      BY <1>1 DEF Inbox
    <3>4. DownAt(m, i, j, c)'
      BY <1>1, <1>2, <2>1, <3>1, <3>2, <3>3 DEF DownAt
    <3>. QED BY <3>2, <3>4 DEF Down
  <2>12. Handled'
    <3>1. \A k \in 1..Len(handled') : k \in 1..Len(handled) \/ k = n
      BY <1>0, <2>4
    <3>2. \A k \in 1..Len(handled') : handled'[k] = Request(k)
      BY <2>3, <2>4, <3>1 DEF Aligned, Handled, message
    <3>. QED BY <1>1, <1>6, <2>4, <3>2 DEF Handled
  <2>13. Answered'
    BY <1>0, <1>1, <2>4 DEF Aligned, Answered
  <2>. QED BY <2>10, <2>11, <2>12, <2>13 DEF Aligned
<1>11. CASE a + 1 # Parts
  <2>1. rc' = "reading" /\ rcBox' = box /\ UNCHANGED <<rcOut, last, handled>>
    BY <1>9, <1>11 DEF ReceiverReads, box
  <2>2. a + 1 \in 0..3 /\ a + 1 <= b
    BY <1>5
  <2>3. UpAt(a + 1, b)'
    BY <1>1, <1>2, <1>3, <1>8, <2>1, <2>2 DEF UpAt, message
  <2>4. Up'
    BY <2>2, <2>3 DEF Up
  <2>5. Down'
    <3>. SUFFICES ASSUME Open PROVE Down'
      BY <1>2 DEF Down
    <3>1. PICK m \in {Goodbye, call}, i \in 0..4, j \in 0..4, c \in {0, 2, 4} : DownAt(m, i, j, c)
      BY DEF Aligned, Down
    <3>2. Inbox' = Inbox
      BY <1>1 DEF Inbox
    <3>3. DownAt(m, i, j, c)'
      BY <1>1, <1>2, <2>1, <3>1, <3>2 DEF DownAt
    <3>. QED BY <1>1, <3>3 DEF Down
  <2>. QED BY <1>1, <2>1, <2>4, <2>5 DEF Aligned, Handled, Answered
<1>. QED BY <1>10, <1>11

LEMMA TimesOutAligned == General /\ Aligned /\ TimesOut => Aligned'
<1>. SUFFICES ASSUME General, Aligned, TimesOut PROVE Aligned'
  OBVIOUS
<1>0. Goodbye \in 0..MaxCalls /\ call \in 0..MaxCalls /\ Goodbye = 0
  BY Counts
<1>1. /\ rc \in {"idle", "reading"} /\ Open /\ Listens
      /\ rc' = "sending" /\ last' = TRUE /\ rcOut' = Response(Goodbye)
      /\ UNCHANGED <<wire, closed, rq, call, rqBox, rqOut, answers, handled>>
  BY DEF TimesOut, Reading, Say, Open, Listens, requester
<1>2. ~Listens'
  BY <1>1 DEF Listens
<1>3. Down'
  <2>1. PICK m \in {Goodbye, call}, a \in 0..4, b \in 0..4, c \in {0, 2, 4} : DownAt(m, a, b, c)
    BY <1>1 DEF Aligned, Down
  <2>2. b = c /\ Inbox' = Inbox /\ c # 4
    BY <1>1, <2>1 DEF DownAt, Inbox
  <2>3. CASE m = Goodbye
    <3>1. c = 0
      BY <1>1, <2>1, <2>2, <2>3 DEF DownAt
    <3>2. Slice(Script(Goodbye), 0, 2) = Response(Goodbye)
      BY <1>0, ScriptIs
    <3>3. DownAt(Goodbye, a, 0, 2)'
      BY <1>1, <1>2, <2>1, <2>2, <2>3, <3>1, <3>2 DEF DownAt
    <3>. QED BY <3>3 DEF Down
  <2>4. CASE m # Goodbye
    <3>1. c = 2
      BY <2>1, <2>2, <2>4 DEF DownAt
    <3>2. Slice(Script(m), 2, 4) = Response(Goodbye)
      BY <1>0, ScriptIs
    <3>3. DownAt(m, a, 2, 4)'
      BY <1>1, <1>2, <2>1, <2>2, <2>4, <3>1, <3>2 DEF DownAt
    <3>. QED BY <1>1, <3>3 DEF Down
  <2>. QED BY <2>3, <2>4
<1>4. Up'
  BY <1>2 DEF Up
<1>. QED BY <1>1, <1>3, <1>4 DEF Aligned, Handled, Answered

LEMMA AnswerAligned == General /\ Aligned /\ Answer => Aligned'
<1>. SUFFICES ASSUME General, Aligned, Answer PROVE Aligned'
  OBVIOUS
<1>. DEFINE n == Len(handled)
<1>0. /\ n \in Nat /\ call \in 0..MaxCalls /\ call \in Nat /\ MaxCalls \in Nat
      /\ Goodbye = 0 /\ Parts \in {2, 3}
      /\ handled \in Seq(Seq(Datagrams))
  BY Counts DEF General, Typed
<1>1. rc = "handling" /\ Listens /\ handled # <<>>
  BY DEF Answer, Listens, General, ReceiverAt
<1>2. n \in 1..n /\ n <= call /\ handled[n] = Request(n)
  <2>1. n # 0
    BY <1>0, <1>1, EmptySeq
  <2>2. n \in 1..n
    BY <1>0, <2>1
  <2>. QED BY <2>2 DEF Aligned, Handled
<1>3. handled[n][2].of = n
  <2>1. n \in 0..MaxCalls
    BY <1>0, <1>2
  <2>. QED BY <1>2, <2>1, MessageIs
<1>4. /\ rc' = "sending" /\ rcOut' = Response(n)
      /\ UNCHANGED <<wire, closed, rq, call, rqBox, rqOut, answers, handled, rcBox>>
  BY <1>3 DEF Answer, Say, requester
<1>. HIDE DEF n
<1>5. PICK a \in 0..3, b \in 0..3 : UpAt(a, b)
  BY <1>1 DEF Aligned, Up
<1>6. Up'
  <2>1. UpAt(a, b)'
    BY <1>1, <1>4, <1>5 DEF UpAt, Open
  <2>. QED BY <2>1 DEF Up
<1>7. Down'
  <2>. SUFFICES ASSUME Open PROVE Down'
    BY <1>4 DEF Down, Open
  <2>1. PICK m \in {Goodbye, call}, i \in 0..4, j \in 0..4, c \in {0, 2, 4} : DownAt(m, i, j, c)
    BY DEF Aligned, Down
  <2>2. c = 0 /\ i = 0 /\ j = 0 /\ Inbox = Slice(Script(m), 0, 0) /\ wire["requester"] = Slice(Script(m), 0, 0)
    <3>1. c = 0 /\ i <= j /\ j <= c
      BY <1>1, <2>1 DEF DownAt
    <3>2. i = 0 /\ j = 0
      BY <3>1
    <3>. QED BY <2>1, <3>1, <3>2 DEF DownAt
  <2>3. Slice(Script(m), 0, 0) = <<>> /\ Slice(Script(call), 0, 0) = <<>>
    BY CutNone
  <2>4. rq = "receiving" /\ n = call
    <3>1. b = 0 /\ rq = "receiving"
      BY <1>1, <1>5 DEF UpAt
    <3>2. Len(handled) + 1 = call + 1
      BY <1>0, <1>5, <3>1 DEF UpAt
    <3>. QED BY <1>0, <3>1, <3>2 DEF n
  <2>5. Slice(Script(call), 0, 2) = Response(call) /\ call # Goodbye /\ Inbox' = Inbox
    <3>1. Slice(Script(call), 0, 2) = Response(call)
      BY <1>0, ScriptIs
    <3>2. call # Goodbye
      BY <1>0, <1>2, <2>4
    <3>. QED BY <1>4, <3>1, <3>2 DEF Inbox
  <2>6. Len(handled) = call
    BY <2>4 DEF n
  <2>7. DownAt(call, 0, 0, 2)'
    BY <1>4, <2>2, <2>3, <2>4, <2>5, <2>6 DEF DownAt
  <2>. QED BY <1>4, <2>7 DEF Down
<1>. QED BY <1>4, <1>6, <1>7 DEF Aligned, Handled, Answered

\* One more datagram of the answer is out: what is on the wire and what is left.
LEMMA AnswerMoves ==
    ASSUME NEW m \in {Goodbye, call}, NEW a \in 0..4, NEW b \in 0..4, NEW c \in {0, 2, 4}
    PROVE  General /\ rc = "sending" /\ DownAt(m, a, b, c) =>
               /\ Tail(rcOut) = Slice(Script(m), b + 1, c)
               /\ Append(wire["requester"], Head(rcOut)) = Slice(Script(m), a, b + 1)
               /\ Len(rcOut) = c - b
<1>. SUFFICES ASSUME General, rc = "sending", DownAt(m, a, b, c)
              PROVE  /\ Tail(rcOut) = Slice(Script(m), b + 1, c)
                     /\ Append(wire["requester"], Head(rcOut)) = Slice(Script(m), a, b + 1)
                     /\ Len(rcOut) = c - b
  OBVIOUS
<1>1. m \in 0..MaxCalls
  BY Counts
<1>. DEFINE script == Script(m)
<1>2. script \in Seq(Datagrams) /\ Len(script) = 4
  BY <1>1, ScriptIs
<1>3. /\ a <= b /\ b < c /\ rcOut = Slice(script, b, c) /\ wire["requester"] = Slice(script, a, b)
  BY DEF DownAt
<1>. HIDE DEF script
<1>4. /\ script \in Seq(Datagrams) /\ a \in Nat /\ b \in Nat /\ c \in Nat
      /\ a <= b /\ b < c /\ b <= c /\ c <= Len(script)
  BY <1>2, <1>3
<1>5. /\ Tail(Slice(script, b, c)) = Slice(script, b + 1, c)
      /\ Append(Slice(script, a, b), Head(Slice(script, b, c))) = Slice(script, a, b + 1)
  BY <1>4, CutMoves
<1>6. Len(Slice(script, b, c)) = c - b
  BY <1>4, Cut
<1>. QED BY <1>3, <1>5, <1>6 DEF script

LEMMA ReceiverSendsAligned == General /\ Aligned /\ ReceiverSends => Aligned'
<1>. SUFFICES ASSUME General, Aligned, ReceiverSends PROVE Aligned'
  OBVIOUS
<1>0. "requester" \in Sides /\ "receiver" \in Sides /\ wire \in [Sides -> Seq(Datagrams)]
  BY Counts
<1>1. /\ rc = "sending" /\ Len(rcOut) > 1 /\ rcOut' = Tail(rcOut)
      /\ wire' = [wire EXCEPT !["requester"] = Append(@, Head(rcOut))]
      /\ UNCHANGED <<closed, rq, call, rqBox, rqOut, answers, rc, rcBox, last, handled>>
  BY DEF ReceiverSends, requester
<1>2. /\ wire'["requester"] = Append(wire["requester"], Head(rcOut))
      /\ wire'["receiver"] = wire["receiver"] /\ Open' = Open
  BY <1>0, <1>1 DEF Open
<1>3. Up'
  BY <1>1, <1>2, UpStays DEF Aligned
<1>4. Down'
  <2>. SUFFICES ASSUME Open PROVE Down'
    BY <1>2 DEF Down
  <2>1. PICK m \in {Goodbye, call}, a \in 0..4, b \in 0..4, c \in {0, 2, 4} : DownAt(m, a, b, c)
    BY DEF Aligned, Down
  <2>2. /\ b + 1 \in 0..4 /\ b + 1 < c /\ rcOut' = Slice(Script(m), b + 1, c)
        /\ wire'["requester"] = Slice(Script(m), a, b + 1)
    <3>1. rc = "sending"
      BY <1>1
    <3>2. /\ Tail(rcOut) = Slice(Script(m), b + 1, c)
          /\ Append(wire["requester"], Head(rcOut)) = Slice(Script(m), a, b + 1)
          /\ Len(rcOut) = c - b
      BY <2>1, <3>1, AnswerMoves
    <3>3. b + 1 \in 0..4 /\ b + 1 < c
      BY <1>1, <3>2
    <3>. QED BY <1>1, <1>2, <3>2, <3>3
  <2>3. a <= b + 1 /\ c <= b + 1 + 2 /\ Inbox' = Inbox /\ b + 1 <= c
    BY <1>1, <2>1, <2>2 DEF DownAt, Inbox
  <2>4. DownAt(m, a, b + 1, c)'
    BY <1>1, <2>1, <2>2, <2>3 DEF DownAt, Listens
  <2>. QED BY <1>1, <2>2, <2>4 DEF Down
<1>. QED BY <1>1, <1>3, <1>4 DEF Aligned, Handled, Answered

LEMMA ReceiverAnsweredAligned == General /\ Aligned /\ ReceiverAnswered => Aligned'
<1>. SUFFICES ASSUME General, Aligned, ReceiverAnswered PROVE Aligned'
  OBVIOUS
<1>0. "requester" \in Sides /\ "receiver" \in Sides /\ wire \in [Sides -> Seq(Datagrams)]
  BY Counts
<1>. DEFINE sent == Append(wire["requester"], Head(rcOut))
<1>1. /\ rc = "sending" /\ Len(rcOut) = 1 /\ rcOut' = <<>>
      /\ UNCHANGED <<rq, call, rqBox, rqOut, answers, rcBox, last, handled>>
  BY DEF ReceiverAnswered, requester
<1>2. \/ /\ rc' = "closed" /\ closed' = closed \cup {"receiver"}
         /\ wire' = [wire EXCEPT !["requester"] = sent, !["receiver"] = <<>>]
      \/ /\ ~last /\ rc' = "idle" /\ closed' = closed /\ wire' = [wire EXCEPT !["requester"] = sent]
  BY DEF ReceiverAnswered
<1>3. /\ wire'["requester"] = sent /\ Open' = Open
      /\ rc' = "idle" => wire'["receiver"] = wire["receiver"] /\ Listens
  BY <1>0, <1>1, <1>2 DEF Open, Listens
<1>4. Up'
  <2>. SUFFICES ASSUME Listens' PROVE \E a, b \in 0..3 : UpAt(a, b)'
    BY DEF Up
  <2>1. rc' = "idle"
    BY <1>2 DEF Listens
  <2>2. PICK a \in 0..3, b \in 0..3 : UpAt(a, b)
    BY <1>3, <2>1 DEF Aligned, Up
  <2>3. UpAt(a, b)'
    BY <1>1, <1>3, <2>1, <2>2 DEF UpAt
  <2>. QED BY <2>3
<1>5. Down'
  <2>. SUFFICES ASSUME Open PROVE Down'
    BY <1>3 DEF Down
  <2>1. PICK m \in {Goodbye, call}, a \in 0..4, b \in 0..4, c \in {0, 2, 4} : DownAt(m, a, b, c)
    BY DEF Aligned, Down
  <2>2. /\ b < c /\ b + 1 = c /\ c \in 0..4 /\ sent = Slice(Script(m), a, c)
    <3>1. rc = "sending"
      BY <1>1
    <3>2. sent = Slice(Script(m), a, b + 1) /\ Len(rcOut) = c - b
      BY <2>1, <3>1, AnswerMoves
    <3>3. b < c /\ b + 1 = c
      <4>1. c - b = 1
        BY <1>1, <3>2
      <4>. QED BY <4>1
    <3>. QED BY <3>2, <3>3
  <2>. HIDE DEF sent
  <2>3. a <= c /\ Inbox' = Inbox
    BY <1>1, <2>1, <2>2 DEF DownAt, Inbox
  <2>4. Listens' => Listens
    BY <1>1, <1>2, <1>3 DEF Listens
  <2>5. m = Goodbye => (c = 2 => ~Listens')
    BY <2>1, <2>4 DEF DownAt
  <2>6. rc' \in {"idle", "closed"}
    BY <1>2
  <2>7. DownAt(m, a, c, c)'
    BY <1>1, <1>3, <2>1, <2>2, <2>3, <2>4, <2>5, <2>6 DEF DownAt
  <2>. QED BY <1>1, <2>2, <2>7 DEF Down
<1>. QED BY <1>1, <1>4, <1>5 DEF Aligned, Handled, Answered

LEMMA ReceiverAligned == General /\ Aligned /\ (ReceiverStep \/ Stop) => Aligned'
<1>1. General /\ Aligned /\ PeerIsGone => Aligned'
  BY HangupAligned DEF PeerIsGone
<1>2. General /\ Aligned /\ ReceiverCannotSend => Aligned'
  BY HangupAligned DEF ReceiverCannotSend
<1>3. General /\ Aligned /\ Stop => Aligned'
  <2>. SUFFICES ASSUME General, Aligned, Stop PROVE Aligned'
    OBVIOUS
  <2>1. UNCHANGED <<wire, closed, rq, call, rqBox, rqOut, answers, rc, rcBox, rcOut, last, handled>>
    BY DEF Stop, requester
  <2>2. Open' = Open
    BY <2>1 DEF Open
  <2>. QED BY <2>1, <2>2, UpStays, DownStays DEF Aligned, Handled, Answered
<1>. QED BY <1>1, <1>2, <1>3, ReceiverReadsAligned, TimesOutAligned, AnswerAligned,
         ReceiverSendsAligned, ReceiverAnsweredAligned DEF ReceiverStep

LEMMA InitAligned == Init => Aligned
<1>. SUFFICES ASSUME Init PROVE Aligned
  OBVIOUS
<1>1. /\ Len(<<>>) = 0 /\ Parts \in {2, 3} /\ Goodbye = 0
  BY EmptySeq DEF Parts, Goodbye
<1>2. /\ wire["requester"] = <<>> /\ wire["receiver"] = <<>> /\ rq = "ready" /\ call = 0
      /\ rcBox = <<>> /\ rc = "idle" /\ handled = <<>> /\ answers = {} /\ Inbox = <<>>
  BY DEF Init, Sides, Inbox
<1>3. Slice(Request(1), 0, 0) = <<>> /\ Slice(Script(0), 0, 0) = <<>>
  BY CutNone
<1>4. UpAt(0, 0)
  <2>1. Len(handled) + 1 = 1
    BY <1>1, <1>2
  <2>. QED BY <1>1, <1>2, <1>3, <2>1 DEF UpAt
<1>5. DownAt(Goodbye, 0, 0, 0)
  BY <1>1, <1>2, <1>3 DEF DownAt
<1>6. Handled /\ Answered
  BY <1>1, <1>2 DEF Handled, Answered
<1>. QED BY <1>4, <1>5, <1>6 DEF Aligned, Up, Down

\* What holds in every state: each side keeps its own books, and, if a failed exchange
\* retires the connection, the two streams are aligned.
THEOREM ExchangeInvariant == Spec => []IInv
<1>1. Init => IInv
  BY InitGeneral, InitAligned DEF IInv
<1>2. IInv /\ [Next]_vars => IInv'
  <2>1. IInv /\ [Next]_vars => General'
    BY StepGeneral DEF IInv
  <2>2. General /\ Aligned /\ UNCHANGED vars => Aligned'
    <3>. SUFFICES ASSUME General, Aligned, UNCHANGED vars PROVE Aligned'
      OBVIOUS
    <3>1. UNCHANGED <<wire, closed, rq, call, rqBox, rqOut, answers, rc, rcBox, rcOut, last, handled>>
      BY DEF vars, requester, receiver
    <3>2. Open' = Open
      BY <3>1 DEF Open
    <3>. QED BY <3>1, <3>2, UpStays, DownStays DEF Aligned, Handled, Answered
  <2>3. IInv /\ [Next]_vars /\ RetireOnFailure => Aligned'
    BY <2>2, RequesterAligned, ReceiverAligned DEF IInv, Next
  <2>. QED BY <2>1, <2>3 DEF IInv
<1>. QED BY <1>1, <1>2, PTL DEF Spec

\* When a failed exchange retires the connection, what the handler is given is always
\* one whole request, however many calls, failures and late answers came before.
THEOREM HandledWholeHolds ==
    ASSUME RetireOnFailure
    PROVE  Spec => []HandledWhole
<1>1. IInv => HandledWhole
  <2>. SUFFICES ASSUME IInv PROVE HandledWhole
    OBVIOUS
  <2>1. handled \in Seq(Seq(Datagrams)) /\ Len(handled) \in Nat /\ call \in 0..MaxCalls /\ MaxCalls \in Nat
    BY Counts DEF IInv, General, Typed
  <2>2. DOMAIN handled = 1..Len(handled) /\ Len(handled) <= call
    BY <2>1, LenProperties DEF IInv, Aligned, Handled
  <2>3. \A k \in DOMAIN handled : k \in Calls /\ handled[k] = Request(k)
    BY <2>1, <2>2 DEF IInv, Aligned, Handled, Calls
  <2>. QED BY <2>3 DEF HandledWhole
<1>. QED BY <1>1, ExchangeInvariant, PTL

\* And an answer a call returns is the answer to that call, whose request was carried
\* out, or the refusal of a receiver that closes.
THEOREM AnswersTheCallHolds ==
    ASSUME RetireOnFailure
    PROVE  Spec => []AnswersTheCall
<1>1. IInv => AnswersTheCall
  BY DEF IInv, Aligned, Answered, AnswersTheCall
<1>. QED BY <1>1, ExchangeInvariant, PTL

-------------------------------------------------------------------------------
(***************************************************************************)
(* The connection carries each call out at most once, in order: a step of  *)
(* the two programs is a step of AtMostOnce or changes nothing it sees.    *)
(***************************************************************************)
Carried == [k \in DOMAIN handled |-> handled[k][2].of]
Count(n) == [k \in 1..n |-> k]

LEMMA CarriedIs == IInv /\ RetireOnFailure => Carried = Count(Len(handled))
<1>. SUFFICES ASSUME IInv, RetireOnFailure PROVE Carried = Count(Len(handled))
  OBVIOUS
<1>1. /\ handled \in Seq(Seq(Datagrams)) /\ Len(handled) \in Nat /\ call \in 0..MaxCalls
      /\ MaxCalls \in Nat /\ Len(handled) <= call
  BY Counts DEF IInv, General, Typed, Aligned, Handled
<1>2. DOMAIN handled = 1..Len(handled)
  BY <1>1, LenProperties
<1>3. \A k \in 1..Len(handled) : handled[k][2].of = k
  <2>. SUFFICES ASSUME NEW k \in 1..Len(handled) PROVE handled[k][2].of = k
    OBVIOUS
  <2>1. k \in 0..MaxCalls
    BY <1>1
  <2>2. handled[k] = Request(k)
    BY DEF IInv, Aligned, Handled
  <2>. QED BY <2>1, <2>2, MessageIs
<1>. QED BY <1>2, <1>3 DEF Carried, Count

LEMMA CountAppend == \A n \in Nat : Append(Count(n), n + 1) = Count(n + 1)
<1>. SUFFICES ASSUME NEW n \in Nat PROVE Append(Count(n), n + 1) = Count(n + 1)
  OBVIOUS
<1>. DEFINE more == Append(Count(n), n + 1)
<1>1. Count(n) \in Seq(Nat) /\ Len(Count(n)) = n /\ \A k \in 1..n : Count(n)[k] = k
  BY DEF Count
<1>2. Count(n + 1) \in Seq(Nat) /\ Len(Count(n + 1)) = n + 1 /\ \A k \in 1..(n + 1) : Count(n + 1)[k] = k
  BY DEF Count
<1>3. /\ more \in Seq(Nat) /\ Len(more) = Len(Count(n)) + 1
      /\ \A k \in 1..Len(Count(n)) : more[k] = Count(n)[k] /\ more[Len(Count(n)) + 1] = n + 1
  BY <1>1, AppendProperties
<1>4. more[n + 1] = n + 1
  BY <1>1, AppendProperties
<1>. HIDE DEF more
<1>5. Len(more) = n + 1 /\ \A k \in 1..(n + 1) : more[k] = k
  BY <1>1, <1>3, <1>4
<1>6. more = Count(n + 1)
  BY <1>2, <1>3, <1>5, SeqEqual
<1>. QED BY <1>6 DEF more

LEMMA StepsOfTheCall ==
    ASSUME RetireOnFailure, IInv, IInv', [Next]_vars
    PROVE  [Rpc!Next]_(Rpc!vars)
<1>0. /\ call \in Nat /\ Len(handled) \in Nat
      /\ call # 0 => (rq = "ready" <=> Rpc!Ended(call))
      /\ rq # "ready" => call > 0 /\ ~Rpc!Ended(call)
  <2>1. call \in Nat /\ Len(handled) \in Nat /\ (rq # "ready" => call \in Calls)
    BY Counts DEF IInv, General, RequesterAt
  <2>2. call # 0 => (rq = "ready" <=> Rpc!Ended(call))
    BY DEF IInv, General, Ends
  <2>. QED BY <2>1, <2>2 DEF Calls
<1>1. ASSUME UNCHANGED <<call, answers, failed, handled>>
      PROVE  UNCHANGED Rpc!vars
  BY <1>1 DEF Rpc!vars
<1>2. ASSUME Call
      PROVE  Rpc!Ask
  <2>1. /\ rq = "ready" /\ call' = call + 1 /\ UNCHANGED <<answers, failed, handled>>
    BY <1>2 DEF Call, receiver
  <2>. QED BY <1>0, <2>1 DEF Rpc!Ask
<1>3. ASSUME CallRetired
      PROVE  Rpc!AskInVain
  <2>1. /\ rq = "ready" /\ call' = call + 1 /\ failed' = failed \cup {call + 1} /\ UNCHANGED <<answers, handled>>
    BY <1>3 DEF CallRetired, receiver
  <2>. QED BY <1>0, <2>1 DEF Rpc!AskInVain
<1>4. ASSUME NEW rest, rq # "ready", ExchangeFails(rest)
      PROVE  call > 0 /\ Rpc!Fail(call)
  <2>1. failed' = failed \cup {call} /\ UNCHANGED <<call, answers, handled>>
    BY <1>4 DEF ExchangeFails, receiver
  <2>. QED BY <1>0, <1>4, <2>1 DEF Rpc!Fail
<1>5. ASSUME rq # "ready", NEW x, answers' = answers \cup {<<call, x>>}, UNCHANGED <<call, failed, handled>>
      PROVE  call > 0 /\ Rpc!Return(call)
  <2>1. x = Goodbye \/ (x = call /\ call \in 1..Len(handled))
    <3>1. \A a \in answers' : a[2] = Goodbye \/ (a[2] = a[1] /\ a[1] \in 1..Len(handled'))
      BY DEF IInv, Aligned, Answered
    <3>2. <<call, x>> \in answers' /\ <<call, x>>[1] = call /\ <<call, x>>[2] = x
      BY <1>5
    <3>. QED BY <1>5, <3>1, <3>2
  <2>2. call \in 1..Len(handled) => Rpc!Executed(call)
    <3>1. call \in 1..Len(handled) => Carried[call] = call /\ call \in DOMAIN Carried
      BY CarriedIs DEF Count
    <3>. QED BY <3>1 DEF Rpc!Executed, Carried
  <2>. QED BY <1>0, <1>5, <2>1, <2>2 DEF Rpc!Return
<1>6. ASSUME NEW box, handled' = Append(handled, box), Len(handled') = Len(handled) + 1,
             UNCHANGED <<call, answers, failed>>
      PROVE  \E n \in 1..call : Rpc!Execute(n)
  <2>1. PICK n \in 1..call : n = Len(handled) + 1
    <3>1. Len(handled') <= call'
      BY DEF IInv, Aligned, Handled
    <3>2. Len(handled) + 1 \in 1..call
      BY <1>0, <1>6, <3>1
    <3>. QED BY <3>2
  <2>2. Carried' = Count(n) /\ Carried = Count(Len(handled))
    <3>1. Carried' = Count(Len(handled'))
      <4>1. (IInv /\ RetireOnFailure => Carried = Count(Len(handled)))'
        BY CarriedIs, PTL
      <4>. QED BY <4>1
    <3>. QED BY <1>6, <2>1, <3>1, CarriedIs
  <2>3. Carried' = Append(Carried, n)
    BY <1>0, <2>1, <2>2, CountAppend
  <2>4. \A k \in DOMAIN Carried : Carried[k] < n
    BY <1>0, <2>1, <2>2 DEF Count
  <2>5. Rpc!Execute(n)
    BY <1>6, <2>3, <2>4 DEF Rpc!Execute, Carried
  <2>. QED BY <2>5
<1>7. CASE RequesterReads
  <2>. DEFINE box == Append(rqBox, Head(wire["requester"]))
  <2>1. rq # "ready"
    BY <1>7 DEF RequesterReads
  <2>2. \/ ExchangeFails(Tail(wire["requester"]))
        \/ answers' = answers \cup {<<call, box[2].of>>} /\ UNCHANGED <<call, failed, handled>>
        \/ UNCHANGED <<call, answers, failed, handled>>
    BY <1>7 DEF RequesterReads, receiver
  <2>. HIDE DEF box
  <2>. QED BY <1>1, <1>4, <1>5, <2>1, <2>2 DEF Rpc!Next
<1>8. CASE ReceiverReads
  <2>. DEFINE box == Append(rcBox, Head(wire["receiver"]))
  <2>1. \/ handled' = Append(handled, box)
        \/ UNCHANGED handled
    BY <1>8 DEF ReceiverReads
  <2>2. UNCHANGED <<call, answers, failed>>
    BY <1>8 DEF ReceiverReads, requester
  <2>3. handled' = Append(handled, box) => Len(handled') = Len(handled) + 1
    <3>1. handled \in Seq(Seq(Datagrams)) /\ handled' \in Seq(Seq(Datagrams))
      BY DEF IInv, General, Typed
    <3>. QED BY <3>1
  <2>. HIDE DEF box
  <2>. QED BY <1>1, <1>6, <2>1, <2>2, <2>3 DEF Rpc!Next
<1>9. CASE GiveUp
  BY <1>4, <1>9 DEF GiveUp, Rpc!Next
<1>10. CASE Call \/ CallRetired
  BY <1>2, <1>3, <1>10 DEF Rpc!Next
<1>11. CASE \/ RequesterSends \/ RequesterCloses \/ PeerIsGone \/ TimesOut \/ Answer \/ ReceiverSends
            \/ ReceiverAnswered \/ ReceiverCannotSend \/ Stop
  <2>1. UNCHANGED <<call, answers, failed, handled>>
    BY <1>11 DEF RequesterSends, RequesterCloses, PeerIsGone, TimesOut, Answer, ReceiverSends,
                 ReceiverAnswered, ReceiverCannotSend, Stop, requester, receiver
  <2>. QED BY <1>1, <2>1
<1>12. CASE UNCHANGED vars
  BY <1>1, <1>12 DEF vars, requester, receiver
<1>. QED
  BY <1>7, <1>8, <1>9, <1>10, <1>11, <1>12 DEF Next, RequesterStep, ReceiverStep

\* When a failed exchange retires the connection, it implements AtMostOnce: whatever
\* is delayed, cut off or given up, no call is carried out twice or out of order, and
\* an answer means that its own request was carried out.
THEOREM ExchangeKeepsAtMostOnce ==
    ASSUME RetireOnFailure
    PROVE  Spec => KeepsAtMostOnce
<1>1. Init => Rpc!Init
  <2>. SUFFICES ASSUME Init PROVE Rpc!Init
    OBVIOUS
  <2>1. handled = <<>> /\ DOMAIN handled = {}
    BY EmptySeq DEF Init
  <2>2. Carried = <<>>
    BY <2>1 DEF Carried
  <2>. QED BY <2>2 DEF Init, Rpc!Init, Carried
<1>2. IInv /\ IInv' /\ [Next]_vars => [Rpc!Next]_(Rpc!vars)
  BY StepsOfTheCall
<1>. QED BY <1>1, <1>2, ExchangeInvariant, PTL DEF Spec, KeepsAtMostOnce, Rpc!Spec
===============================================================================
