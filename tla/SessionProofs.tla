--------------------------- MODULE SessionProofs ---------------------------
(***************************************************************************)
(* Session.tla keeps its types, lets nothing of the plugin outlive serve,  *)
(* and implements the safety of Mailbox.tla, for every capacity, number of *)
(* requests, set of tasks and set of sessions: whether the plugin emits or *)
(* not, whether its callbacks return, however many requests the host       *)
(* leaves unfinished.                                                      *)
(*                                                                         *)
(* A request is at one place at a time: on the wire, in the read loop's    *)
(* hand, in the channel, with the worker, or finished.  The invariant says *)
(* that the places, one after another, hold the numbers in order.          *)
(***************************************************************************)
EXTENDS Session, SequenceTheorems, TLAPS

\* What the worker is doing tells what it holds, and it leaves, or disables for
\* the last time, only when the channel is closed and empty.
WorkerHoldsItsJob ==
  /\ worker \in {"idle", "gone"} => job = NoRequest
  /\ worker = "running" => job \in Requests
  /\ worker = "disabling" => job \in Requests \cup {Deferred}
  /\ job = Deferred \/ worker = "gone" => closed /\ work = <<>>

ReaderHoldsItsHand ==
  /\ IF reader = "placing" THEN hand \in Requests ELSE hand = NoRequest
  /\ closed <=> reader \in {"stopping", "returned"}

\* How many requests are with the worker, and with the read loop.
Underway == IF job \in Requests THEN 1 ELSE 0
InHand == IF reader = "placing" THEN 1 ELSE 0

\* Behind the wire the numbers are in order, with no gap and none twice.
InOrder ==
  /\ \A i \in 1..Len(handled) : handled[i] = i
  /\ job \in Requests => job.n = Len(handled) + 1
  /\ \A i \in 1..Len(work) : work[i].n = Len(handled) + Underway + i
  /\ reader = "placing" => hand.n = accepted
  /\ accepted = Len(handled) + Underway + Len(work) + InHand

\* So they are on the wire, between other messages.
WireInOrder ==
  /\ \A i \in 1..Len(wire) : wire[i].is = "request" => wire[i].n \in accepted + 1..sent
  /\ \A i, j \in 1..Len(wire) :
        i < j /\ wire[i].is = "request" /\ wire[j].is = "request" => wire[i].n < wire[j].n
  /\ \A n \in accepted + 1..sent : \E i \in 1..Len(wire) : wire[i].is = "request" /\ wire[i].n = n

\* With the registries closed and disable done, no task is left.
QuietWhenInactive ==
  /\ worker \in {"disabling", "gone"} => ~active
  /\ ~active /\ worker # "disabling" => running = {}
  /\ reader = "returned" => worker = "gone" /\ parked = {}

IInv ==
  /\ TypeOK
  /\ WorkerHoldsItsJob
  /\ ReaderHoldsItsHand
  /\ InOrder
  /\ WireInOrder
  /\ QuietWhenInactive

-----------------------------------------------------------------------------

LEMMA Bounds == Cap \in Nat /\ MaxRequests \in Nat /\ "worker" \notin Tasks
BY SessionAssumption

LEMMA KindsOfMessages ==
  /\ \A r \in Requests : /\ r.is = "request" /\ r.n \in 1..MaxRequests /\ r.n \in Nat \ {0}
                         /\ r # NoRequest /\ r # Deferred /\ r # Ping /\ r # End
  /\ NoRequest # Deferred
  /\ \A m \in Messages : m.is = "request" => m \in Requests
  /\ \A m \in Messages : m.is = "emitted" => m.to \in Goroutines
BY Bounds DEF Requests, Messages, NoRequest, Deferred, Request, Ping, End

\* Taking the first element of a sequence of messages or requests, and adding
\* one, in the terms the invariants are written in.
LEMMA Shifted ==
  ASSUME NEW S, NEW q \in Seq(S), q # <<>>
  PROVE  /\ Head(q) \in S /\ Head(q) = q[1] /\ Tail(q) \in Seq(S)
         /\ Len(q) \in Nat /\ Len(q) > 0 /\ Len(Tail(q)) = Len(q) - 1
         /\ \A i \in 1..Len(q) - 1 : Tail(q)[i] = q[i + 1]
BY HeadTailProperties, LenProperties, EmptySeq

LEMMA Extended ==
  ASSUME NEW S, NEW q \in Seq(S), NEW e \in S
  PROVE  /\ Append(q, e) \in Seq(S) /\ Len(q) \in Nat /\ Len(Append(q, e)) = Len(q) + 1
         /\ \A i \in 1..Len(q) : Append(q, e)[i] = q[i]
         /\ Append(q, e)[Len(q) + 1] = e
BY AppendProperties, LenProperties

LEMMA InvInit == Init => IInv
<1> SUFFICES ASSUME Init PROVE IInv
  OBVIOUS
<1>1. TypeOK
  <2>1. 0 \in 0..MaxRequests /\ 0 \in 0..0 /\ Len(<<>>) = 0 /\ 0 <= Cap
    BY Bounds
  <2>2. \A S : <<>> \in Seq(S)
    OBVIOUS
  <2> QED
    BY <2>1, <2>2 DEF Init, TypeOK
<1>2. WorkerHoldsItsJob /\ ReaderHoldsItsHand /\ QuietWhenInactive
  BY KindsOfMessages DEF Init, WorkerHoldsItsJob, ReaderHoldsItsHand, QuietWhenInactive
<1>3. job \notin Requests
  BY KindsOfMessages DEF Init
<1>4. InOrder /\ WireInOrder
  BY <1>3 DEF Init, InOrder, WireInOrder, Underway, InHand
<1> QED
  BY <1>1, <1>2, <1>4 DEF IInv

\* What the host sends joins the end of the wire.
LEMMA HostStep ==
  ASSUME IInv,
         \/ \E kind \in {"load", "event", "unload"} : HostRequests(kind)
         \/ HostPings
         \/ HostEnds
         \/ \E p \in Goroutines : HostAnswers(p)
  PROVE  IInv'
<1> PICK m \in Messages :
      /\ wire' = Append(wire, m)
      /\ IF m.is = "request" THEN m.n = sent + 1 /\ sent < MaxRequests /\ sent' = sent + 1
         ELSE sent' = sent
      /\ asked' \subseteq asked
      /\ UNCHANGED <<session, reader, hand, accepted, work, closed, worker, job, handled, active, running,
                     parked>>
  <2>0. sent \in Nat /\ sent <= MaxRequests /\ MaxRequests \in Nat
    BY Bounds DEF IInv, TypeOK
  <2>1. ASSUME NEW kind \in {"load", "event", "unload"}, HostRequests(kind)
        PROVE  Request(sent + 1, kind) \in Requests
    BY <2>0, <2>1 DEF HostRequests, Request, Requests
  <2>2. Ping \in Messages /\ End \in Messages /\ \A p \in Goroutines : Emitted(p) \in Messages
    BY DEF Messages, Emitted
  <2>3. /\ Ping.is # "request" /\ End.is # "request" /\ \A p : Emitted(p).is # "request"
        /\ \A kind : Request(sent + 1, kind).is = "request" /\ Request(sent + 1, kind).n = sent + 1
    BY DEF Ping, End, Emitted, Request
  <2>4. CASE \E kind \in {"load", "event", "unload"} : HostRequests(kind)
    BY <2>1, <2>3, <2>4 DEF HostRequests, HostSends, Messages
  <2>5. CASE HostPings \/ HostEnds
    BY <2>2, <2>3, <2>5 DEF HostPings, HostEnds, HostSends
  <2>6. CASE \E p \in Goroutines : HostAnswers(p)
    BY <2>2, <2>3, <2>6 DEF HostAnswers, HostSends
  <2> QED
    BY <2>4, <2>5, <2>6
<1>0. TypeOK /\ wire \in Seq(Messages) /\ sent \in Nat /\ accepted \in 0..sent
  BY Bounds DEF IInv, TypeOK
<1>1. /\ wire' \in Seq(Messages) /\ Len(wire) \in Nat /\ Len(wire') = Len(wire) + 1
      /\ \A i \in 1..Len(wire) : wire'[i] = wire[i]
      /\ wire'[Len(wire) + 1] = m
  BY <1>0, Extended
<1>2. TypeOK'
  BY <1>0, <1>1, Bounds DEF TypeOK
<1>3. WireInOrder'
  <2>0. accepted \in Nat /\ accepted' = accepted /\ WireInOrder
    BY <1>0 DEF IInv
  <2>1. \A i \in 1..Len(wire') : i \in 1..Len(wire) \/ (i = Len(wire) + 1 /\ wire'[i] = m)
    BY <1>1
  <2>2. sent' \in Nat /\ sent <= sent' /\ (m.is = "request" => m.n \in accepted' + 1..sent')
    BY <1>0, <2>0
  <2>3. ASSUME NEW i \in 1..Len(wire'), wire'[i].is = "request"
        PROVE  wire'[i].n \in accepted' + 1..sent'
    BY <1>0, <1>1, <2>0, <2>1, <2>2, <2>3 DEF WireInOrder
  <2>4. ASSUME NEW i \in 1..Len(wire'), NEW j \in 1..Len(wire'), i < j,
               wire'[i].is = "request", wire'[j].is = "request"
        PROVE  wire'[i].n < wire'[j].n
    <3>1. i \in 1..Len(wire) /\ wire[i].is = "request" /\ wire[i].n \in accepted + 1..sent
      BY <1>1, <2>0, <2>4 DEF WireInOrder
    <3>2. CASE j \in 1..Len(wire)
      BY <1>1, <2>0, <2>4, <3>1, <3>2 DEF WireInOrder
    <3>3. CASE j = Len(wire) + 1
      BY <1>0, <1>1, <2>4, <3>1, <3>3
    <3> QED
      BY <2>1, <3>2, <3>3
  <2>5. ASSUME NEW n \in accepted' + 1..sent'
        PROVE  \E i \in 1..Len(wire') : wire'[i].is = "request" /\ wire'[i].n = n
    <3>1. CASE n \in accepted + 1..sent
      <4>1. PICK i \in 1..Len(wire) : wire[i].is = "request" /\ wire[i].n = n
        BY <2>0, <3>1 DEF WireInOrder
      <4> QED
        BY <1>1, <4>1
    <3>2. CASE n = sent + 1 /\ m.is = "request"
      <4>1. m.n = n
        BY <3>2
      <4>2. Len(wire) + 1 \in 1..Len(wire') /\ wire'[Len(wire) + 1] = m
        BY <1>1
      <4> QED
        BY <3>2, <4>1, <4>2
    <3>3. IF m.is = "request" THEN sent' = sent + 1 ELSE sent' = sent
      OBVIOUS
    <3>4. accepted \in Nat /\ sent \in Nat
      BY <1>0
    <3>5. n \in accepted + 1..sent'
      BY <2>0
    <3> QED
      BY <3>1, <3>2, <3>3, <3>4, <3>5
  <2> QED
    BY <2>3, <2>4, <2>5 DEF WireInOrder
<1>4. (WorkerHoldsItsJob /\ ReaderHoldsItsHand /\ InOrder /\ QuietWhenInactive)'
  BY DEF IInv, WorkerHoldsItsJob, ReaderHoldsItsHand, InOrder, QuietWhenInactive, Underway, InHand
<1> QED
  BY <1>2, <1>3, <1>4 DEF IInv

\* The first request on the wire is the next one.
LEMMA ReceiveStep == ASSUME IInv, Receive PROVE IInv' /\ accepted < sent
<1>0. /\ TypeOK /\ wire \in Seq(Messages) /\ wire # <<>> /\ sent \in Nat /\ accepted \in 0..sent
      /\ WireInOrder /\ InOrder /\ handled \in Seq(1..MaxRequests) /\ work \in Seq(Requests)
  BY Bounds DEF IInv, TypeOK, Receive
<1>1. /\ Head(wire) = wire[1] /\ Tail(wire) \in Seq(Messages)
      /\ Len(wire) \in Nat /\ Len(wire) > 0 /\ Len(Tail(wire)) = Len(wire) - 1
      /\ \A i \in 1..Len(wire) - 1 : Tail(wire)[i] = wire[i + 1]
  BY <1>0, Shifted
<1>2. wire[1] \in Requests /\ wire[1].is = "request" /\ wire[1].n \in accepted + 1..sent
  BY <1>0, <1>1, Shifted, KindsOfMessages DEF Receive, WireInOrder
<1>3. wire[1].n = accepted + 1
  <2>0. accepted + 1 \in accepted + 1..sent
    BY <1>0, <1>2
  <2>1. PICK i \in 1..Len(wire) : wire[i].is = "request" /\ wire[i].n = accepted + 1
    BY <1>0, <2>0 DEF WireInOrder
  <2>2. CASE i = 1
    BY <2>1, <2>2
  <2>3. CASE i # 1
    BY <1>0, <1>1, <1>2, <2>1, <2>3 DEF WireInOrder
  <2> QED
    BY <2>2, <2>3
<1>4. TypeOK'
  BY <1>0, <1>1, <1>2 DEF TypeOK, Receive
<1>5. WireInOrder'
  <2>1. \A i \in 1..Len(wire') : i + 1 \in 1..Len(wire) /\ wire'[i] = wire[i + 1]
    BY <1>1 DEF Receive
  <2>2. \A i \in 1..Len(wire') : wire'[i].is = "request" => wire'[i].n \in accepted' + 1..sent'
    <3> SUFFICES ASSUME NEW i \in 1..Len(wire'), wire'[i].is = "request"
                 PROVE  wire'[i].n \in accepted' + 1..sent'
      OBVIOUS
    <3>1. wire[i + 1].n \in accepted + 1..sent /\ wire[1].n < wire[i + 1].n
      BY <1>0, <1>1, <1>2, <2>1 DEF WireInOrder
    <3> QED
      BY <1>0, <1>3, <2>1, <3>1 DEF Receive
  <2>3. \A i, j \in 1..Len(wire') :
          i < j /\ wire'[i].is = "request" /\ wire'[j].is = "request" => wire'[i].n < wire'[j].n
    BY <1>0, <1>1, <2>1 DEF WireInOrder, Receive
  <2>4. ASSUME NEW n \in accepted' + 1..sent'
        PROVE  \E i \in 1..Len(wire') : wire'[i].is = "request" /\ wire'[i].n = n
    <3>1. n \in accepted + 1..sent /\ n # accepted + 1
      BY <1>0, <2>4 DEF Receive
    <3>2. PICK k \in 1..Len(wire) : wire[k].is = "request" /\ wire[k].n = n
      BY <1>0, <3>1 DEF WireInOrder
    <3>3. k - 1 \in 1..Len(wire') /\ wire'[k - 1] = wire[k]
      BY <1>1, <1>3, <3>1, <3>2 DEF Receive
    <3> QED
      BY <3>2, <3>3
  <2> QED
    BY <2>2, <2>3, <2>4 DEF WireInOrder
<1>6. (WorkerHoldsItsJob /\ ReaderHoldsItsHand /\ QuietWhenInactive)'
  BY <1>1, <1>2 DEF IInv, Receive, WorkerHoldsItsJob, ReaderHoldsItsHand, QuietWhenInactive
<1>7. InOrder'
  BY <1>0, <1>1, <1>3 DEF InOrder, Receive, Underway, InHand
<1> QED
  BY <1>0, <1>2, <1>4, <1>5, <1>6, <1>7 DEF IInv

LEMMA PlaceStep == ASSUME IInv, Place PROVE IInv'
<1>0. /\ TypeOK /\ InOrder /\ ReaderHoldsItsHand /\ work \in Seq(Requests) /\ hand \in Requests
      /\ handled \in Seq(1..MaxRequests) /\ Len(handled) \in Nat
  BY DEF IInv, TypeOK, Place, ReaderHoldsItsHand
<1>1. /\ work' \in Seq(Requests) /\ Len(work) \in Nat /\ Len(work') = Len(work) + 1
      /\ \A i \in 1..Len(work) : work'[i] = work[i]
      /\ work'[Len(work) + 1] = hand
  BY <1>0, Extended DEF Place
<1>2. TypeOK'
  BY <1>0, <1>1, Bounds DEF TypeOK, Place
<1>3. Underway \in Nat /\ Underway' = Underway
  BY DEF Underway, Place
<1>4. InOrder'
  <2>1. /\ handled' = handled /\ job' = job /\ accepted' = accepted /\ reader' = "receiving"
        /\ hand.n = accepted /\ accepted = Len(handled) + Underway + Len(work) + 1
    BY <1>0, <1>3 DEF InOrder, Place, InHand
  <2>2. ASSUME NEW i \in 1..Len(work') PROVE work'[i].n = Len(handled) + Underway + i
    <3>1. CASE i \in 1..Len(work)
      BY <1>0, <1>1, <3>1 DEF InOrder
    <3>2. CASE i = Len(work) + 1
      BY <1>0, <1>1, <1>3, <2>1, <3>2
    <3> QED
      BY <1>1, <3>1, <3>2
  <2>3. InHand' = 0 /\ reader' # "placing" /\ (job \in Requests)' = (job \in Requests)
    BY <2>1 DEF InHand
  <2> QED
    BY <1>0, <1>1, <1>3, <2>1, <2>2, <2>3 DEF InOrder
<1>5. (WorkerHoldsItsJob /\ ReaderHoldsItsHand /\ WireInOrder /\ QuietWhenInactive)'
  BY <1>0 DEF IInv, Place, WorkerHoldsItsJob, ReaderHoldsItsHand, WireInOrder, QuietWhenInactive
<1> QED
  BY <1>2, <1>4, <1>5 DEF IInv

\* What is not a request leaves the wire without disturbing the requests.
LEMMA OtherTaken ==
  ASSUME IInv, wire # <<>>, Head(wire).is # "request", wire' = Tail(wire),
         UNCHANGED <<accepted, sent>>
  PROVE  WireInOrder' /\ wire' \in Seq(Messages)
<1>0. wire \in Seq(Messages) /\ WireInOrder
  BY DEF IInv, TypeOK
<1>1. /\ Head(wire) = wire[1] /\ wire' \in Seq(Messages)
      /\ Len(wire) \in Nat /\ Len(wire) > 0 /\ Len(wire') = Len(wire) - 1
      /\ \A i \in 1..Len(wire) - 1 : wire'[i] = wire[i + 1]
  BY <1>0, Shifted
<1>2. \A i \in 1..Len(wire') : i + 1 \in 1..Len(wire) /\ wire'[i] = wire[i + 1]
  BY <1>1
<1>3. \A i \in 1..Len(wire') : wire'[i].is = "request" => wire'[i].n \in accepted' + 1..sent'
  BY <1>0, <1>2 DEF WireInOrder
<1>4. \A i, j \in 1..Len(wire') :
        i < j /\ wire'[i].is = "request" /\ wire'[j].is = "request" => wire'[i].n < wire'[j].n
  BY <1>0, <1>1, <1>2 DEF WireInOrder
<1>5. ASSUME NEW n \in accepted' + 1..sent'
      PROVE  \E i \in 1..Len(wire') : wire'[i].is = "request" /\ wire'[i].n = n
  <2>1. PICK k \in 1..Len(wire) : wire[k].is = "request" /\ wire[k].n = n
    BY <1>0 DEF WireInOrder
  <2>2. k - 1 \in 1..Len(wire') /\ wire'[k - 1] = wire[k]
    BY <1>1, <2>1
  <2> QED
    BY <2>1, <2>2
<1> QED
  BY <1>1, <1>3, <1>4, <1>5 DEF WireInOrder

\* PING, EMITTED and the end of the session.
LEMMA OtherMessageStep == ASSUME IInv, Pong \/ Deliver \/ Stop PROVE IInv'
<1>0. /\ wire # <<>> /\ wire' = Tail(wire) /\ UNCHANGED <<accepted, sent>>
      /\ reader = "receiving" /\ Head(wire).is # "request"
  BY DEF Pong, Deliver, Stop, Ping, End
<1>1. WireInOrder' /\ wire' \in Seq(Messages)
  BY <1>0, OtherTaken
<1>2. /\ UNCHANGED <<session, hand, work, worker, job, handled, active, running, asked>>
      /\ parked' \subseteq parked
      /\ \/ UNCHANGED <<reader, closed>>
         \/ reader' = "stopping" /\ closed' = TRUE
  BY DEF Pong, Deliver, Stop
<1>3. TypeOK'
  BY <1>0, <1>1, <1>2 DEF IInv, TypeOK
<1>4. InHand' = InHand /\ Underway' = Underway /\ reader' # "placing"
  BY <1>0, <1>2 DEF InHand, Underway
<1>5. InOrder'
  BY <1>0, <1>2, <1>4 DEF IInv, InOrder
<1>6. (WorkerHoldsItsJob /\ ReaderHoldsItsHand /\ QuietWhenInactive)'
  BY <1>0, <1>2 DEF IInv, WorkerHoldsItsJob, ReaderHoldsItsHand, QuietWhenInactive
<1> QED
  BY <1>1, <1>3, <1>5, <1>6 DEF IInv

LEMMA ReturnStep == ASSUME IInv, Return PROVE IInv' /\ Len(handled) = accepted
<1>1. TypeOK'
  BY DEF IInv, TypeOK, Return
<1>2. (WorkerHoldsItsJob /\ ReaderHoldsItsHand /\ WireInOrder /\ QuietWhenInactive)'
  BY DEF IInv, Return, WorkerHoldsItsJob, ReaderHoldsItsHand, WireInOrder, QuietWhenInactive
<1>3. InHand' = InHand /\ InHand = 0 /\ Underway' = Underway /\ reader # "placing" /\ reader' # "placing"
  BY DEF Return, InHand, Underway
<1>4. InOrder'
  BY <1>3 DEF IInv, InOrder, Return
<1>5. job \notin Requests /\ work = <<>>
  BY KindsOfMessages DEF IInv, Return, WorkerHoldsItsJob
<1>6. Len(handled) \in Nat /\ Len(work) = 0 /\ Underway = 0
  BY <1>5 DEF IInv, TypeOK, Underway
<1> QED
  BY <1>1, <1>2, <1>3, <1>4, <1>6 DEF IInv, InOrder

-----------------------------------------------------------------------------

\* Finishing the next request keeps the finished ones in order.
LEMMA Finishing ==
  ASSUME IInv, NEW r \in Requests, r.n = Len(handled) + 1, Finished(r)
  PROVE  /\ handled' = Append(handled, Len(handled) + 1)
         /\ handled' \in Seq(1..MaxRequests)
         /\ Len(handled) \in Nat /\ Len(handled') = Len(handled) + 1
         /\ \A i \in 1..Len(handled') : handled'[i] = i
<1>0. /\ handled \in Seq(1..MaxRequests) /\ Len(handled) \in Nat
      /\ \A i \in 1..Len(handled) : handled[i] = i
  BY DEF IInv, TypeOK, InOrder
<1>1. r # Deferred /\ r.n \in 1..MaxRequests
  BY KindsOfMessages
<1>2. handled' = Append(handled, r.n)
  BY <1>1 DEF Finished
<1>3. /\ handled' \in Seq(1..MaxRequests) /\ Len(handled') = Len(handled) + 1
      /\ \A i \in 1..Len(handled) : handled'[i] = handled[i]
      /\ handled'[Len(handled) + 1] = r.n
  BY <1>0, <1>1, <1>2, Extended
<1>4. \A i \in 1..Len(handled') : handled'[i] = i
  BY <1>0, <1>3
<1> QED
  BY <1>0, <1>2, <1>3, <1>4

\* The request the worker takes is the next one.
LEMMA Taking ==
  ASSUME IInv, worker = "idle", work # <<>>, work' = Tail(work)
  PROVE  /\ job = NoRequest /\ job \notin Requests
         /\ Head(work) \in Requests /\ Head(work).n = Len(handled) + 1
         /\ work' \in Seq(Requests) /\ Len(work) \in Nat /\ Len(work) > 0
         /\ Len(work') = Len(work) - 1
         /\ \A i \in 1..Len(work') : work'[i].n = Len(handled) + 1 + i
         /\ accepted = Len(handled) + Len(work) + InHand
<1>0. /\ work \in Seq(Requests) /\ Len(handled) \in Nat /\ InOrder
  BY DEF IInv, TypeOK
<1>1. job = NoRequest /\ job \notin Requests
  BY KindsOfMessages DEF IInv, WorkerHoldsItsJob
<1>2. Underway = 0
  BY <1>1 DEF Underway
<1>3. /\ Head(work) \in Requests /\ Head(work) = work[1] /\ work' \in Seq(Requests)
      /\ Len(work) \in Nat /\ Len(work) > 0 /\ Len(work') = Len(work) - 1
      /\ \A i \in 1..Len(work) - 1 : work'[i] = work[i + 1]
  BY <1>0, Shifted
<1>4. work[1].n = Len(handled) + 1
  BY <1>0, <1>2, <1>3 DEF InOrder
<1>5. ASSUME NEW i \in 1..Len(work') PROVE work'[i].n = Len(handled) + 1 + i
  <2>1. i + 1 \in 1..Len(work) /\ work'[i] = work[i + 1]
    BY <1>3
  <2>2. work[i + 1].n = Len(handled) + Underway + (i + 1)
    BY <1>0, <2>1 DEF InOrder
  <2> QED
    BY <1>0, <1>2, <2>1, <2>2
<1>6. accepted = Len(handled) + Len(work) + InHand
  BY <1>0, <1>2 DEF InOrder
<1> QED
  BY <1>1, <1>3, <1>4, <1>5, <1>6

LEMMA TakeRefusedStep ==
  ASSUME IInv, TakeRefused
  PROVE  IInv' /\ handled' = Append(handled, Len(handled) + 1) /\ Len(handled) < accepted
<1>0. /\ worker = "idle" /\ work # <<>> /\ work' = Tail(work) /\ Finished(Head(work))
      /\ UNCHANGED <<session, wire, sent, reader, hand, accepted, closed, worker, job, active, running,
                     parked, asked>>
  BY DEF TakeRefused
<1>1. /\ job = NoRequest /\ job \notin Requests
      /\ Head(work) \in Requests /\ Head(work).n = Len(handled) + 1
      /\ work' \in Seq(Requests) /\ Len(work) \in Nat /\ Len(work) > 0
      /\ Len(work') = Len(work) - 1
      /\ \A i \in 1..Len(work') : work'[i].n = Len(handled) + 1 + i
      /\ accepted = Len(handled) + Len(work) + InHand
  BY <1>0, Taking
<1>2. /\ handled' = Append(handled, Len(handled) + 1)
      /\ handled' \in Seq(1..MaxRequests)
      /\ Len(handled) \in Nat /\ Len(handled') = Len(handled) + 1
      /\ \A i \in 1..Len(handled') : handled'[i] = i
  BY <1>0, <1>1, Finishing
<1>3. InHand \in Nat /\ InHand' = InHand /\ Underway' = 0
  BY <1>0, <1>1 DEF InHand, Underway
<1>4. TypeOK'
  BY <1>0, <1>1, <1>2, Bounds DEF IInv, TypeOK
<1>5. InOrder'
  BY <1>0, <1>1, <1>2, <1>3 DEF IInv, InOrder
<1>6. (WorkerHoldsItsJob /\ ReaderHoldsItsHand /\ WireInOrder /\ QuietWhenInactive)'
  BY <1>0, <1>1, KindsOfMessages
  DEF IInv, WorkerHoldsItsJob, ReaderHoldsItsHand, WireInOrder, QuietWhenInactive
<1> QED
  BY <1>1, <1>2, <1>3, <1>4, <1>5, <1>6 DEF IInv

LEMMA TakeStep == ASSUME IInv, Take PROVE IInv'
<1>0. /\ worker = "idle" /\ work # <<>> /\ work' = Tail(work) /\ job' = Head(work)
      /\ UNCHANGED <<session, wire, sent, reader, hand, accepted, closed, handled, running, parked, asked>>
  BY DEF Take
<1>1. /\ job = NoRequest /\ job \notin Requests
      /\ Head(work) \in Requests /\ Head(work).n = Len(handled) + 1
      /\ work' \in Seq(Requests) /\ Len(work) \in Nat /\ Len(work) > 0
      /\ Len(work') = Len(work) - 1
      /\ \A i \in 1..Len(work') : work'[i].n = Len(handled) + 1 + i
      /\ accepted = Len(handled) + Len(work) + InHand
  BY <1>0, Taking
<1>2. Head(work).kind \in {"load", "event", "unload"}
  BY <1>1 DEF Requests
<1>3. \/ worker' = "running" /\ active' = TRUE
      \/ worker' = "disabling" /\ active' = FALSE
  BY <1>2 DEF Take, IInv, TypeOK
<1>4. InHand \in Nat /\ InHand' = InHand /\ Underway' = 1
  BY <1>0, <1>1 DEF InHand, Underway
<1>5. TypeOK'
  <2>1. work' \in Seq(Requests) /\ Len(work') <= Cap
    BY <1>1, Bounds DEF IInv, TypeOK
  <2>2. job' \in Requests /\ worker' \in {"running", "disabling"} /\ active' \in BOOLEAN
    BY <1>0, <1>1, <1>3
  <2> QED
    BY <1>0, <2>1, <2>2 DEF IInv, TypeOK
<1>6. Len(handled) \in Nat
  BY DEF IInv, TypeOK
<1>7. InOrder'
  BY <1>0, <1>1, <1>4, <1>6 DEF IInv, InOrder
<1>8. (WorkerHoldsItsJob /\ ReaderHoldsItsHand /\ WireInOrder /\ QuietWhenInactive)'
  BY <1>0, <1>1, <1>3, KindsOfMessages
  DEF IInv, WorkerHoldsItsJob, ReaderHoldsItsHand, WireInOrder, QuietWhenInactive
<1> QED
  BY <1>5, <1>7, <1>8 DEF IInv

\* The plugin comes back and its request is finished, or its load failed.
LEMMA PluginReturnsStep ==
  ASSUME IInv, PluginReturns
  PROVE  /\ IInv'
         /\ \/ handled' = Append(handled, Len(handled) + 1) /\ Len(handled) < accepted
            \/ UNCHANGED handled
<1>0. /\ worker = "running" /\ job \in Requests /\ job.n = Len(handled) + 1 /\ Len(handled) \in Nat
      /\ Len(work) \in Nat /\ accepted = Len(handled) + 1 + Len(work) + InHand
      /\ \A i \in 1..Len(work) : work[i].n = Len(handled) + 1 + i
      /\ UNCHANGED <<session, wire, sent, reader, hand, accepted, work, closed, running, parked, asked>>
  BY DEF PluginReturns, IInv, TypeOK, WorkerHoldsItsJob, InOrder, Underway
<1>1. InHand \in Nat /\ InHand' = InHand
  BY <1>0 DEF InHand
<1>2. CASE Finished(job) /\ worker' = "idle" /\ job' = NoRequest /\ UNCHANGED active
  <2>1. /\ handled' = Append(handled, Len(handled) + 1)
        /\ handled' \in Seq(1..MaxRequests)
        /\ Len(handled') = Len(handled) + 1
        /\ \A i \in 1..Len(handled') : handled'[i] = i
    BY <1>0, <1>2, Finishing
  <2>2. TypeOK'
    BY <1>0, <1>2, <2>1 DEF IInv, TypeOK
  <2>3. job' \notin Requests /\ Underway' = 0
    BY <1>2, KindsOfMessages DEF Underway
  <2>4. InOrder'
    <3>1. (reader = "placing" => hand.n = accepted) /\ UNCHANGED <<reader, hand, accepted, work>>
      BY <1>0 DEF IInv, InOrder
    <3> QED
      BY <1>0, <1>1, <2>1, <2>3, <3>1 DEF InOrder
  <2>5. (WorkerHoldsItsJob /\ ReaderHoldsItsHand /\ WireInOrder /\ QuietWhenInactive)'
    BY <1>0, <1>2, KindsOfMessages
    DEF IInv, WorkerHoldsItsJob, ReaderHoldsItsHand, WireInOrder, QuietWhenInactive
  <2> QED
    BY <1>0, <1>1, <2>1, <2>2, <2>4, <2>5 DEF IInv
<1>3. CASE worker' = "disabling" /\ active' = FALSE /\ UNCHANGED <<job, handled>>
  <2>1. TypeOK'
    BY <1>0, <1>3 DEF IInv, TypeOK
  <2>2. Underway' = Underway
    BY <1>3 DEF Underway
  <2>3. InOrder'
    BY <1>0, <1>1, <1>3, <2>2 DEF IInv, InOrder
  <2>4. (WorkerHoldsItsJob /\ ReaderHoldsItsHand /\ WireInOrder /\ QuietWhenInactive)'
    BY <1>0, <1>3, KindsOfMessages
    DEF IInv, WorkerHoldsItsJob, ReaderHoldsItsHand, WireInOrder, QuietWhenInactive
  <2> QED
    BY <1>3, <2>1, <2>3, <2>4 DEF IInv
<1> QED
  BY <1>2, <1>3 DEF PluginReturns

LEMMA DrainedStep == ASSUME IInv, Drained PROVE IInv'
<1>0. /\ worker = "idle" /\ closed /\ work = <<>> /\ job = NoRequest /\ reader # "returned"
      /\ UNCHANGED <<session, wire, sent, reader, hand, accepted, work, closed, handled, running, parked,
                     asked>>
      /\ \/ worker' = "disabling" /\ job' = Deferred /\ active' = FALSE
         \/ worker' = "gone" /\ job' = NoRequest /\ active' = active /\ ~active
  BY DEF Drained, IInv, TypeOK, WorkerHoldsItsJob, QuietWhenInactive
<1>1. TypeOK'
  BY <1>0 DEF IInv, TypeOK
<1>2. job' \notin Requests /\ Underway' = Underway /\ InHand' = InHand
  BY <1>0, KindsOfMessages DEF Underway, InHand
<1>3. InOrder'
  BY <1>0, <1>2 DEF IInv, InOrder
<1>4. (WorkerHoldsItsJob /\ ReaderHoldsItsHand /\ WireInOrder /\ QuietWhenInactive)'
  BY <1>0, KindsOfMessages
  DEF IInv, WorkerHoldsItsJob, ReaderHoldsItsHand, WireInOrder, QuietWhenInactive
<1> QED
  BY <1>1, <1>3, <1>4 DEF IInv

LEMMA DisabledStep ==
  ASSUME IInv, Disabled
  PROVE  /\ IInv'
         /\ \/ handled' = Append(handled, Len(handled) + 1) /\ Len(handled) < accepted
            \/ UNCHANGED handled
<1>0. /\ worker = "disabling" /\ running = {} /\ job' = NoRequest /\ ~active
      /\ reader # "returned" /\ job \in Requests \cup {Deferred} /\ Finished(job)
      /\ UNCHANGED <<session, wire, sent, reader, hand, accepted, work, closed, active, running, parked,
                     asked>>
  BY DEF Disabled, IInv, WorkerHoldsItsJob, QuietWhenInactive
<1>1. InHand \in Nat /\ InHand' = InHand /\ job' \notin Requests /\ Underway' = 0
  BY <1>0, KindsOfMessages DEF InHand, Underway
<1>2. CASE job \in Requests
  <2>1. worker' = "idle"
    BY <1>2, KindsOfMessages DEF Disabled
  <2>2. /\ job.n = Len(handled) + 1 /\ Len(handled) \in Nat
        /\ Len(work) \in Nat /\ accepted = Len(handled) + 1 + Len(work) + InHand
        /\ \A i \in 1..Len(work) : work[i].n = Len(handled) + 1 + i
    <3>1. Underway = 1
      BY <1>2 DEF Underway
    <3>2. Len(handled) \in Nat /\ Len(work) \in Nat
      BY LenProperties DEF IInv, TypeOK
    <3> QED
      BY <1>2, <3>1, <3>2 DEF IInv, InOrder
  <2>3. /\ handled' = Append(handled, Len(handled) + 1)
        /\ handled' \in Seq(1..MaxRequests)
        /\ Len(handled') = Len(handled) + 1
        /\ \A i \in 1..Len(handled') : handled'[i] = i
    BY <1>0, <1>2, <2>2, Finishing
  <2>4. TypeOK'
    BY <1>0, <2>1, <2>3 DEF IInv, TypeOK
  <2>5. InOrder'
    BY <1>0, <1>1, <2>2, <2>3 DEF IInv, InOrder
  <2>6. (WorkerHoldsItsJob /\ ReaderHoldsItsHand /\ WireInOrder /\ QuietWhenInactive)'
    BY <1>0, <2>1, KindsOfMessages
    DEF IInv, WorkerHoldsItsJob, ReaderHoldsItsHand, WireInOrder, QuietWhenInactive
  <2> QED
    BY <1>1, <2>2, <2>3, <2>4, <2>5, <2>6 DEF IInv
<1>3. CASE job = Deferred
  <2>1. worker' = "gone" /\ handled' = handled /\ closed /\ work = <<>>
    BY <1>0, <1>3 DEF Disabled, Finished, IInv, WorkerHoldsItsJob
  <2>2. job \notin Requests /\ Underway = 0
    BY <1>3, KindsOfMessages DEF Underway
  <2>3. TypeOK'
    BY <1>0, <2>1 DEF IInv, TypeOK
  <2>4. InOrder'
    BY <1>0, <1>1, <2>1, <2>2 DEF IInv, InOrder
  <2>5. (WorkerHoldsItsJob /\ ReaderHoldsItsHand /\ WireInOrder /\ QuietWhenInactive)'
    BY <1>0, <2>1, KindsOfMessages
    DEF IInv, WorkerHoldsItsJob, ReaderHoldsItsHand, WireInOrder, QuietWhenInactive
  <2> QED
    BY <2>1, <2>3, <2>4, <2>5 DEF IInv
<1> QED
  BY <1>0, <1>2, <1>3

-----------------------------------------------------------------------------

\* A task starts or ends, or somebody emits.
LEMMA PluginCodeStep ==
  ASSUME IInv,
         (\E t \in Tasks : Schedule(t) \/ TaskEnds(t)) \/ (\E p \in Goroutines : Emit(p))
  PROVE  IInv'
<1>0. /\ UNCHANGED <<session, wire, sent, reader, hand, accepted, work, closed, worker, job, handled,
                     active>>
      /\ running' \subseteq Tasks /\ parked' \subseteq Goroutines /\ asked' \subseteq Goroutines
      /\ \/ active
         \/ running' \subseteq running /\ parked' = parked
  BY DEF Schedule, TaskEnds, Emit, IInv, TypeOK
<1>1. TypeOK'
  BY <1>0 DEF IInv, TypeOK
<1>2. (WorkerHoldsItsJob /\ ReaderHoldsItsHand /\ WireInOrder)'
  BY <1>0 DEF IInv, WorkerHoldsItsJob, ReaderHoldsItsHand, WireInOrder
<1>3. Underway' = Underway /\ InHand' = InHand
  BY <1>0 DEF Underway, InHand
<1>4. InOrder'
  BY <1>0, <1>3 DEF IInv, InOrder
<1>5. QuietWhenInactive'
  BY <1>0 DEF IInv, QuietWhenInactive
<1> QED
  BY <1>1, <1>2, <1>4, <1>5 DEF IInv

LEMMA StutteringStep == ASSUME IInv, UNCHANGED vars PROVE IInv'
<1>1. TypeOK'
  BY DEF IInv, TypeOK, vars
<1>2. Underway' = Underway /\ InHand' = InHand
  BY DEF vars, Underway, InHand
<1>3. InOrder'
  BY <1>2 DEF IInv, InOrder, vars
<1>4. (WorkerHoldsItsJob /\ ReaderHoldsItsHand /\ WireInOrder /\ QuietWhenInactive)'
  BY DEF IInv, vars, WorkerHoldsItsJob, ReaderHoldsItsHand, WireInOrder, QuietWhenInactive
<1> QED
  BY <1>1, <1>3, <1>4 DEF IInv

LEMMA InvStep == IInv /\ [Next]_vars => IInv'
<1> SUFFICES ASSUME IInv, [Next]_vars PROVE IInv'
  OBVIOUS
<1>1. CASE ReaderStep
  BY <1>1, ReceiveStep, PlaceStep, OtherMessageStep, ReturnStep DEF ReaderStep
<1>2. CASE WorkerStep \/ PluginReturns
  BY <1>2, TakeRefusedStep, TakeStep, DrainedStep, DisabledStep, PluginReturnsStep DEF WorkerStep
<1>3. CASE \/ \E kind \in {"load", "event", "unload"} : HostRequests(kind)
           \/ HostPings \/ HostEnds \/ \E p \in Goroutines : HostAnswers(p)
  BY <1>3, HostStep
<1>4. CASE (\E t \in Tasks : Schedule(t) \/ TaskEnds(t)) \/ (\E p \in Goroutines : Emit(p))
  BY <1>4, PluginCodeStep
<1>5. CASE UNCHANGED vars
  BY <1>5, StutteringStep
<1> QED
  BY <1>1, <1>2, <1>3, <1>4, <1>5 DEF Next

LEMMA Invariance == Spec => []IInv
<1>1. Init => IInv
  BY InvInit
<1>2. IInv /\ [Next]_vars => IInv'
  BY InvStep
<1> QED
  BY <1>1, <1>2, PTL DEF Spec

-----------------------------------------------------------------------------

\* The variables have their types in every reachable state of serve
\* (session.go:14-64): the channel never holds more than its capacity.
THEOREM SessionTypes == Spec => []TypeOK
<1>1. IInv => TypeOK
  BY DEF IInv
<1> QED
  BY <1>1, Invariance, PTL

\* When serve has returned no task of the plugin runs, nobody is parked and no
\* registry is open, whichever way the session ended and however far the plugin
\* had come (session.go:16-28, lifecycle.go:97-101).
THEOREM NothingOutlivesServe == Spec => []NobodyOutlivesServe
<1>1. IInv => NobodyOutlivesServe
  BY DEF IInv, QuietWhenInactive, NobodyOutlivesServe
<1> QED
  BY <1>1, Invariance, PTL

LEMMA MailboxInit == Init => Accepted!Init
BY DEF Init, Accepted!Init

LEMMA MailboxStep == IInv /\ [Next]_vars => [Accepted!Next]_(Accepted!vars)
<1> SUFFICES ASSUME IInv, [Next]_vars, ~UNCHANGED Accepted!vars PROVE Accepted!Next
  OBVIOUS
<1> USE DEF Accepted!vars
<1>1. CASE Receive
  <2>1. accepted < MaxRequests
    BY <1>1, ReceiveStep, Bounds DEF IInv, TypeOK
  <2>2. Accepted!Receive
    BY <1>1, <2>1 DEF Receive, Accepted!Receive
  <2> QED
    BY <2>2 DEF Accepted!Next
<1>2. CASE Stop
  <2>1. Accepted!End
    BY <1>2 DEF Stop, Accepted!End
  <2> QED
    BY <2>1 DEF Accepted!Next
<1>3. CASE Return
  <2>1. Len(handled) = accepted
    BY <1>3, ReturnStep
  <2>2. Accepted!Return
    BY <1>3, <2>1 DEF Return, Accepted!Return
  <2> QED
    BY <2>2 DEF Accepted!Next
<1>4. CASE TakeRefused \/ PluginReturns \/ Disabled
  <2>1. \/ handled' = Append(handled, Len(handled) + 1) /\ Len(handled) < accepted
        \/ UNCHANGED handled
    BY <1>4, TakeRefusedStep, PluginReturnsStep, DisabledStep
  <2>2. UNCHANGED <<reader, accepted>>
    BY <1>4 DEF TakeRefused, PluginReturns, Disabled
  <2>3. Accepted!Finish
    BY <2>1, <2>2 DEF Accepted!Finish
  <2> QED
    BY <2>3 DEF Accepted!Next
<1>5. CASE Place \/ Pong \/ Deliver
  BY <1>5 DEF Place, Pong, Deliver
<1>6. CASE Take \/ Drained
  BY <1>6 DEF Take, Drained
<1>7. CASE \/ \E kind \in {"load", "event", "unload"} : HostRequests(kind)
           \/ HostPings \/ HostEnds \/ \E p \in Goroutines : HostAnswers(p)
  BY <1>7 DEF HostRequests, HostPings, HostEnds, HostAnswers
<1>8. CASE (\E t \in Tasks : Schedule(t) \/ TaskEnds(t)) \/ (\E p \in Goroutines : Emit(p))
  BY <1>8 DEF Schedule, TaskEnds, Emit
<1>9. CASE UNCHANGED vars
  BY <1>9 DEF vars
<1> QED
  BY <1>1, <1>2, <1>3, <1>4, <1>5, <1>6, <1>7, <1>8, <1>9 DEF Next, ReaderStep, WorkerStep

\* serve does what Mailbox.tla says of the requests it receives (session.go:16-28,
\* 52-59): none is finished twice, out of order or before it came, and it does
\* not return while one is left, though the channel was full, a load failed or
\* the plugin emitted meanwhile.  That it finishes them all is left to the runs.
THEOREM SessionImplementsMailbox == Spec => Accepted!Safety
<1>1. Init => Accepted!Init
  BY MailboxInit
<1>2. IInv /\ [Next]_vars => [Accepted!Next]_(Accepted!vars)
  BY MailboxStep
<1> QED
  BY <1>1, <1>2, Invariance, PTL DEF Spec, Accepted!Safety
=============================================================================
