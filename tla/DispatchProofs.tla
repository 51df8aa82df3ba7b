--------------------------- MODULE DispatchProofs --------------------------
(***************************************************************************)
(* Dispatch.tla keeps its types, says cancelled exactly of what its own    *)
(* handlers refused, and lets the accepted effects travel, for every       *)
(* number of requests, handlers and calls and every set of goroutines that *)
(* keep handles.                                                           *)
(*                                                                         *)
(* add is not atomic, so the invariant speaks of what a goroutine has read *)
(* and not yet written: it holds accepted calls of one request, and if the *)
(* request is the worker's alone it is the whole queue.  A call's number   *)
(* is in one place at a time, which keeps the answers apart; that the      *)
(* worker adds only between a request's taking and its sealing keeps them  *)
(* complete.                                                               *)
(***************************************************************************)
EXTENDS Dispatch, SequenceTheorems, TLAPS

\* Answered, sealed, handed out: where a request can be.
Stages ==
  /\ pc # "idle" => current \in Requests
  /\ \A d \in Requests : answer[d] # None => d <= current /\ (d = current => pc = "idle")
  /\ \A d \in Requests : d <= current => kind[d] \in Kinds
  /\ \A d \in handles \cup refused : d <= current
  /\ \A d \in handles : d \in sealed \/ (d = current /\ pc \in {"calling", "handler"})

\* The control in hand has heard the handlers of this request and no others.
ControlIsOwn ==
  /\ pc # "idle" => (cancelled <=> current \in refused)
  /\ pc # "idle" /\ InHand.is = "event" => replies = <<>>

Adding(g) == op[g].at # "idle"

\* A call's number is in one place: in an add that is under way, with the
\* request that accepted it, or among the replies in hand.
CallsAreOwned ==
  /\ \A d, e \in Requests, n \in Calls :
        <<d, n>> \in accepted => n <= calls /\ (<<e, n>> \in accepted => d = e)
  /\ \A g \in Goroutines : Adding(g) =>
        /\ op[g].to \in handles
        /\ op[g].call \in 1..calls
        /\ \A d \in Requests : <<d, op[g].call>> \notin accepted
        /\ \A h \in Goroutines : Adding(h) /\ op[h].call = op[g].call => g = h
        /\ \A i \in DOMAIN replies : replies[i] # op[g].call
  /\ \A i \in DOMAIN replies :
        /\ replies[i] <= calls
        /\ \A d \in Requests : <<d, replies[i]>> \notin accepted
        /\ \A j \in DOMAIN replies : replies[i] = replies[j] => i = j

\* A queue, or what an add has read of one, holds accepted calls of its request, once each.
QueuesHoldTheirOwn ==
  /\ \A d \in Requests : \A i \in DOMAIN queue[d] :
        /\ <<d, queue[d][i]>> \in accepted
        /\ \A j \in DOMAIN queue[d] : queue[d][i] = queue[d][j] => i = j
  /\ \A g \in Goroutines : op[g].at = "read" => \A i \in DOMAIN op[g].seen :
        /\ <<op[g].to, op[g].seen[i]>> \in accepted
        /\ \A j \in DOMAIN op[g].seen : op[g].seen[i] = op[g].seen[j] => i = j

\* The worker adds only inside a handler, to a queue that is open.
WorkerAddsInHandlers == Adding("worker") => pc = "handler" /\ op["worker"].to \notin sealed

\* A queue only the worker adds to loses nothing and is in call order.
WorkerLosesNothing ==
  \A d \in Requests \ outside :
    /\ \A g \in Keepers : Adding(g) => op[g].to # d
    /\ \A n \in Calls : <<d, n>> \in accepted => \E i \in DOMAIN queue[d] : queue[d][i] = n
    /\ \A i, j \in DOMAIN queue[d] : i < j => queue[d][i] < queue[d][j]
    /\ Adding("worker") /\ op["worker"].to = d =>
          /\ \A i \in DOMAIN queue[d] : queue[d][i] < op["worker"].call
          /\ op["worker"].at = "read" => op["worker"].seen = queue[d]

\* What was sent was over and done with.
SentIsSettled ==
  \A d \in Requests : answer[d] # None =>
    \A i \in DOMAIN answer[d].effects :
       /\ answer[d].effects[i] <= calls
       /\ \A g \in Goroutines : Adding(g) => op[g].call # answer[d].effects[i]

IInv ==
  /\ TypeOK
  /\ Stages
  /\ ControlIsOwn
  /\ CallsAreOwned
  /\ QueuesHoldTheirOwn
  /\ WorkerAddsInHandlers
  /\ WorkerLosesNothing
  /\ SentIsSettled
  /\ AcceptedEffectsTravel
  /\ CancelledByItsHandlers

-----------------------------------------------------------------------------

LEMMA Bounds ==
  /\ MaxRequests \in Nat /\ MaxHandlers \in Nat /\ MaxCalls \in Nat
  /\ "worker" \notin Keepers
BY DispatchAssumption

\* An event has no field a command has not, and a command is never cancelled.
LEMMA KindsOfRequests ==
  \A k \in Kinds : /\ k.is \in {"event", "command"}
                   /\ k.cancellable \in BOOLEAN /\ k.deny \in BOOLEAN
                   /\ k.is = "command" => k.cancellable = FALSE /\ k.deny = FALSE
BY DEF Kinds

LEMMA CallNumbers == ASSUME NEW q \in Seq(Calls) PROVE \A i \in DOMAIN q : q[i] \in Calls /\ q[i] \in Nat
<1>1. \A i \in DOMAIN q : q[i] \in Calls
  BY LenProperties, ElementOfSeq
<1> QED
  BY <1>1 DEF Calls

\* One call behind the others.
LEMMA Appended ==
  ASSUME NEW q \in Seq(Calls), NEW n \in Calls
  PROVE  /\ Append(q, n) \in Seq(Calls)
         /\ Len(q) + 1 \in DOMAIN Append(q, n) /\ Append(q, n)[Len(q) + 1] = n
         /\ \A i \in DOMAIN q : /\ i \in DOMAIN Append(q, n) /\ Append(q, n)[i] = q[i]
                               /\ i \in Nat /\ i < Len(q) + 1
         /\ \A i \in DOMAIN Append(q, n) : i \in DOMAIN q \/ i = Len(q) + 1
BY AppendProperties, LenProperties

LEMMA InvInit == Init => IInv
<1> SUFFICES ASSUME Init PROVE IInv
  OBVIOUS
<1>1. TypeOK
  <2>1. \A S : <<>> \in Seq(S)
    OBVIOUS
  <2>2. 0 \in 0..MaxHandlers /\ 0 \in 0..0
    BY Bounds
  <2>3. op \in [Goroutines -> [at : {"idle", "checked", "read"}, to : Requests \cup {0},
                               call : Calls \cup {0}, seen : Seq(Calls)]]
    BY <2>1 DEF Init, Idle
  <2> QED
    BY <2>1, <2>2, <2>3 DEF Init, TypeOK
<1>2. \A g \in Goroutines : op[g].at = "idle"
  BY DEF Init, Idle
<1>3. Stages /\ ControlIsOwn
  BY Bounds DEF Init, Stages, ControlIsOwn, Requests
<1>4. CallsAreOwned /\ QueuesHoldTheirOwn /\ SentIsSettled
  BY <1>2 DEF Init, CallsAreOwned, QueuesHoldTheirOwn, SentIsSettled, Adding
<1>5. WorkerAddsInHandlers /\ WorkerLosesNothing
  BY <1>2 DEF Init, WorkerAddsInHandlers, WorkerLosesNothing, Adding, Goroutines
<1>6. AcceptedEffectsTravel /\ CancelledByItsHandlers
  BY DEF Init, AcceptedEffectsTravel, CancelledByItsHandlers
<1> QED
  BY <1>1, <1>3, <1>4, <1>5, <1>6 DEF IInv

-----------------------------------------------------------------------------
(* What the actions leave alone *)

\* Nobody adds, and no reply is made: the calls stay where they are.
LEMMA NothingAdded ==
  ASSUME IInv, UNCHANGED <<queue, op, accepted, outside, calls>>,
         replies' = replies \/ replies' = <<>>, handles \subseteq handles'
  PROVE  CallsAreOwned' /\ QueuesHoldTheirOwn' /\ WorkerLosesNothing'
<1>1. CallsAreOwned'
  <2>1. CallsAreOwned /\ \A g : Adding(g)' <=> Adding(g)
    BY DEF IInv, Adding
  <2>2. \A i \in DOMAIN replies' : i \in DOMAIN replies /\ replies'[i] = replies[i]
    OBVIOUS
  <2> QED
    BY <2>1, <2>2 DEF CallsAreOwned
<1>2. QueuesHoldTheirOwn'
  BY DEF IInv, QueuesHoldTheirOwn
<1>3. WorkerLosesNothing'
  BY DEF IInv, WorkerLosesNothing, Adding
<1> QED
  BY <1>1, <1>2, <1>3

\* What was answered stays answered as it was.
LEMMA NothingAnswered ==
  ASSUME IInv, UNCHANGED <<op, calls, accepted, outside, answer>>
  PROVE  SentIsSettled'
BY DEF IInv, SentIsSettled, Adding

LEMMA AnswersStand ==
  ASSUME IInv, UNCHANGED <<accepted, answer>>, outside \subseteq outside', spoilt \subseteq spoilt',
         \A d \in Requests : answer[d] # None => kind'[d] = kind[d] /\ (d \in refused' <=> d \in refused)
  PROVE  AcceptedEffectsTravel' /\ CancelledByItsHandlers'
<1>1. \A d : Effects(d)' = Effects(d)
  BY DEF Effects
<1>2. AcceptedEffectsTravel'
  BY <1>1 DEF IInv, AcceptedEffectsTravel
<1>3. CancelledByItsHandlers'
  BY DEF IInv, CancelledByItsHandlers
<1> QED
  BY <1>2, <1>3

-----------------------------------------------------------------------------
(* The steps *)

LEMMA BeginStep ==
  ASSUME IInv, NEW k \in Kinds, Begin(k) \/ BeginFails(k)
  PROVE  IInv'
<1>0. /\ TypeOK /\ Stages /\ pc = "idle" /\ current + 1 \in Requests /\ current' = current + 1
      /\ kind' = [kind EXCEPT ![current + 1] = k]
      /\ replies' = <<>> /\ spoken' = {} /\ ran' = 0 /\ cancelled' = FALSE
      /\ failed' \in BOOLEAN /\ pc' \in {"calling", "sealed"}
      /\ UNCHANGED <<sinks, handles, refused, spoilt, calls, answer>>
  BY DEF IInv, Begin, BeginFails
<1>1. current \in Nat /\ \A d \in Requests : d \in Nat
  BY <1>0, Bounds DEF TypeOK, Requests
<1>2. snapshot' \in 0..MaxHandlers \cup {1}
  BY Bounds DEF Begin, BeginFails
<1>3. TypeOK'
  <2>1. <<>> \in Seq(Calls) /\ 0 \in 0..snapshot'
    BY <1>2, Bounds
  <2>2. kind' \in [Requests -> Kinds \cup {None}]
    BY <1>0 DEF TypeOK
  <2> QED
    BY <1>0, <1>2, <2>1, <2>2 DEF TypeOK, sinks
<1>4. \A d \in Requests : d <= current => kind'[d] = kind[d]
  BY <1>0, <1>1 DEF TypeOK
<1>5. kind'[current + 1] = k
  BY <1>0 DEF TypeOK
<1>6. Stages'
  <2>1. \A d \in Requests : d <= current + 1 => kind'[d] \in Kinds
    BY <1>0, <1>1, <1>4, <1>5 DEF Stages
  <2>2. \A d \in Requests : answer[d] # None => d <= current /\ d # current + 1
    BY <1>0, <1>1 DEF Stages
  <2>3. \A d \in handles : d \in sealed
    BY <1>0 DEF Stages
  <2>4. \A d \in handles \cup refused : d <= current /\ d \in Requests
    BY <1>0 DEF Stages, TypeOK
  <2> QED
    BY <1>0, <1>1, <2>1, <2>2, <2>3, <2>4 DEF Stages, sinks
<1>7. ControlIsOwn'
  <2>1. current' \notin refused
    BY <1>0, <1>1 DEF Stages
  <2> QED
    BY <1>0, <2>1 DEF ControlIsOwn
<1>8. CallsAreOwned' /\ QueuesHoldTheirOwn' /\ WorkerLosesNothing'
  BY <1>0, NothingAdded DEF sinks
<1>9. WorkerAddsInHandlers'
  BY <1>0 DEF IInv, WorkerAddsInHandlers, Adding, sinks
<1>10. SentIsSettled'
  BY <1>0, NothingAnswered DEF sinks
<1>11. AcceptedEffectsTravel' /\ CancelledByItsHandlers'
  BY <1>0, <1>4, AnswersStand DEF Stages, sinks
<1> QED
  BY <1>3, <1>6, <1>7, <1>8, <1>9, <1>10, <1>11 DEF IInv

\* A handler is called, cancels, returns or panics.
LEMMA HandlerStep ==
  ASSUME IInv, CallHandler \/ Cancel \/ HandlerReturns \/ HandlerPanics
  PROVE  IInv'
<1>0. /\ TypeOK /\ Stages /\ ControlIsOwn /\ pc \in {"calling", "handler"} /\ current \in Requests
      /\ UNCHANGED <<current, kind, snapshot, sinks, spoken, spoilt, calls, answer>>
      /\ pc' \in {"calling", "handler"} /\ ran' \in 0..snapshot
      /\ failed' \in BOOLEAN /\ cancelled' \in BOOLEAN
      /\ handles \subseteq handles' /\ handles' \subseteq handles \cup {current}
      /\ refused \subseteq refused' /\ refused' \subseteq refused \cup {current}
  <2>1. /\ TypeOK /\ Stages /\ ControlIsOwn /\ current \in Requests
    BY DEF IInv, Stages, CallHandler, Cancel, HandlerReturns, HandlerPanics
  <2>2. snapshot \in Nat /\ ran \in 0..snapshot
    BY <2>1, Bounds DEF TypeOK
  <2>3. CASE CallHandler
    BY <2>1, <2>2, <2>3 DEF CallHandler, request, TypeOK
  <2>4. CASE Cancel
    BY <2>1, <2>2, <2>4 DEF Cancel, request, TypeOK
  <2>5. CASE HandlerReturns
    BY <2>1, <2>2, <2>5 DEF HandlerReturns, request, TypeOK
  <2>6. CASE HandlerPanics
    BY <2>1, <2>2, <2>6 DEF HandlerPanics, request, TypeOK
  <2> QED
    BY <2>3, <2>4, <2>5, <2>6
<1>1. /\ replies' = replies \/ (replies' = <<>> /\ InHand.is = "command")
      /\ cancelled' <=> cancelled \/ Cancel
      /\ refused' = refused \cup (IF Cancel THEN {current} ELSE {})
      /\ pc' = "handler" \/ ~Adding("worker")
  <2>1. CASE CallHandler
    <3>1. ~Adding("worker") /\ ~Cancel
      BY <2>1 DEF IInv, WorkerAddsInHandlers, CallHandler, Cancel
    <3> QED
      BY <1>0, <2>1, <3>1 DEF CallHandler, TypeOK
  <2>2. CASE Cancel
    BY <1>0, <2>2 DEF Cancel, Adding, Idle, TypeOK
  <2>3. CASE HandlerReturns
    BY <1>0, <2>3 DEF HandlerReturns, Cancel, Adding, Idle, TypeOK
  <2>4. CASE HandlerPanics
    BY <1>0, <2>4 DEF HandlerPanics, Cancel, Adding, Idle, TypeOK
  <2> QED
    BY <2>1, <2>2, <2>3, <2>4
<1>2. TypeOK'
  <2>1. <<>> \in Seq(Calls)
    OBVIOUS
  <2> QED
    BY <1>0, <1>1, <2>1 DEF TypeOK, sinks
<1>3. current \in Nat
  BY <1>0 DEF Requests
<1>4. Stages'
  BY <1>0, <1>3 DEF Stages, sinks
<1>5. ControlIsOwn'
  BY <1>0, <1>1 DEF ControlIsOwn, InHand
<1>6. CallsAreOwned' /\ QueuesHoldTheirOwn' /\ WorkerLosesNothing'
  BY <1>0, <1>1, NothingAdded DEF sinks
<1>7. WorkerAddsInHandlers'
  BY <1>0, <1>1 DEF IInv, WorkerAddsInHandlers, Adding, sinks
<1>8. SentIsSettled'
  BY <1>0, NothingAnswered DEF sinks
<1>9. AcceptedEffectsTravel' /\ CancelledByItsHandlers'
  <2>1. \A d \in Requests : answer[d] # None => d # current
    BY <1>0 DEF Stages
  <2> QED
    BY <1>0, <2>1, AnswersStand DEF sinks
<1> QED
  BY <1>2, <1>4, <1>5, <1>6, <1>7, <1>8, <1>9 DEF IInv

\* A mutation is spoilt.
LEMMA WriteNoKindStep == ASSUME IInv, NEW g \in Goroutines, WriteNoKind(g) PROVE IInv'
<1>0. /\ current \in Requests /\ spoilt' = spoilt \cup {current}
      /\ UNCHANGED <<current, kind, pc, snapshot, ran, cancelled, refused, replies, failed, spoken,
                     handles, queue, sealed, op, accepted, outside, calls, answer>>
  BY DEF IInv, Stages, WriteNoKind, request, sinks
<1>1. TypeOK' /\ Stages' /\ ControlIsOwn'
  BY <1>0 DEF IInv, TypeOK, Stages, ControlIsOwn, InHand
<1>2. CallsAreOwned' /\ QueuesHoldTheirOwn' /\ WorkerLosesNothing'
  BY <1>0, NothingAdded
<1>3. WorkerAddsInHandlers' /\ SentIsSettled'
  BY <1>0, NothingAnswered DEF IInv, WorkerAddsInHandlers, Adding
<1>4. AcceptedEffectsTravel' /\ CancelledByItsHandlers'
  BY <1>0, AnswersStand
<1> QED
  BY <1>1, <1>2, <1>3, <1>4 DEF IInv

LEMMA ReplyStep == ASSUME IInv, Reply PROVE IInv'
<1>0. /\ TypeOK /\ Stages /\ ControlIsOwn /\ CallsAreOwned /\ pc = "handler" /\ InHand.is = "command"
      /\ calls + 1 \in Calls /\ calls' = calls + 1 /\ replies' = Append(replies, calls + 1)
      /\ spoken' = spoken \cup {calls + 1} /\ calls \in Nat /\ replies \in Seq(Calls)
      /\ UNCHANGED <<request, pc, ran, cancelled, refused, failed, handles, spoilt, sinks, answer>>
  BY DEF IInv, Reply, TypeOK, Calls
<1>1. /\ replies' \in Seq(Calls) /\ Len(replies) \in Nat /\ DOMAIN replies = 1..Len(replies)
      /\ DOMAIN replies' = 1..(Len(replies) + 1)
      /\ \A i \in 1..Len(replies) : replies'[i] = replies[i] /\ replies[i] \in Calls
      /\ replies'[Len(replies) + 1] = calls + 1
  BY <1>0, AppendProperties, LenProperties, ElementOfSeq
<1>2. TypeOK'
  BY <1>0, <1>1 DEF TypeOK, request, sinks
<1>3. Stages' /\ ControlIsOwn' /\ (\A g : Adding(g)' <=> Adding(g))
  BY <1>0 DEF Stages, ControlIsOwn, InHand, Adding, request, sinks
<1>4. CallsAreOwned'
  <2>1. \A d, e \in Requests, n \in Calls :
          <<d, n>> \in accepted => n <= calls + 1 /\ (<<e, n>> \in accepted => d = e)
    BY <1>0 DEF CallsAreOwned, Calls
  <2>2. \A d \in Requests : <<d, calls + 1>> \notin accepted
    BY <1>0 DEF CallsAreOwned
  <2>3. ASSUME NEW i \in DOMAIN replies'
        PROVE  /\ replies'[i] <= calls + 1
               /\ \A d \in Requests : <<d, replies'[i]>> \notin accepted
               /\ \A j \in DOMAIN replies' : replies'[i] = replies'[j] => i = j
    <3>1. CASE i = Len(replies) + 1
      BY <1>0, <1>1, <2>2, <3>1 DEF CallsAreOwned, Calls
    <3>2. CASE i \in 1..Len(replies)
      <4>1. replies[i] <= calls /\ replies[i] \in Nat
        BY <1>0, <1>1, <3>2 DEF CallsAreOwned, Calls
      <4> QED
        BY <1>0, <1>1, <3>2, <4>1 DEF CallsAreOwned
    <3> QED
      BY <1>1, <3>1, <3>2
  <2>4. ASSUME NEW g \in Goroutines, Adding(g)
        PROVE  op[g].call \in 1..(calls + 1) /\ \A i \in DOMAIN replies' : replies'[i] # op[g].call
    BY <1>0, <1>1, <2>4 DEF CallsAreOwned
  <2> QED
    BY <1>0, <1>3, <2>1, <2>3, <2>4 DEF CallsAreOwned, sinks
<1>5. QueuesHoldTheirOwn' /\ WorkerAddsInHandlers' /\ WorkerLosesNothing'
  <2>1. QueuesHoldTheirOwn'
    BY <1>0 DEF IInv, QueuesHoldTheirOwn, sinks
  <2>2. WorkerAddsInHandlers'
    BY <1>0 DEF IInv, WorkerAddsInHandlers, Adding, sinks
  <2>3. WorkerLosesNothing'
    BY <1>0 DEF IInv, WorkerLosesNothing, Adding, sinks
  <2> QED
    BY <2>1, <2>2, <2>3
<1>6. SentIsSettled'
  <2>1. ASSUME NEW d \in Requests, answer[d] # None, NEW i \in DOMAIN answer[d].effects
        PROVE  answer[d].effects[i] <= calls + 1
    <3>1. answer[d].effects \in Seq(Calls) /\ answer[d].effects[i] <= calls
      BY <1>0, <2>1 DEF IInv, SentIsSettled, TypeOK, Sent
    <3>2. answer[d].effects[i] \in Calls
      BY <2>1, <3>1, CallNumbers
    <3> QED
      BY <1>0, <3>1, <3>2 DEF Calls
  <2> QED
    BY <1>0, <1>3, <2>1 DEF IInv, SentIsSettled, sinks
<1>7. AcceptedEffectsTravel' /\ CancelledByItsHandlers'
  BY <1>0, AnswersStand DEF request, sinks
<1> QED
  BY <1>2, <1>3, <1>4, <1>5, <1>6, <1>7 DEF IInv

\* The number an add takes is new, and the queue it goes to is open.
LEMMA AddChecksStep ==
  ASSUME IInv, NEW g \in Goroutines, NEW d \in Requests, AddChecks(g, d)
  PROVE  IInv'
<1>0. /\ TypeOK /\ Stages /\ op[g] = Idle /\ d \in handles /\ d \notin sealed
      /\ calls \in Nat /\ calls + 1 \in Calls /\ calls' = calls + 1
      /\ op' = [op EXCEPT ![g] = [at |-> "checked", to |-> d, call |-> calls + 1, seen |-> <<>>]]
      /\ outside' = outside \cup (IF g \in Keepers THEN {d} ELSE {})
      /\ g \in Keepers \/ pc = "handler"
      /\ UNCHANGED <<request, pc, handling, queue, sealed, accepted, answer>>
  BY DEF IInv, AddChecks, Acts, TypeOK, Calls
<1>1. /\ op'[g] = [at |-> "checked", to |-> d, call |-> calls + 1, seen |-> <<>>]
      /\ \A h \in Goroutines : h # g => op'[h] = op[h]
      /\ ~Adding(g)
      /\ \A h \in Goroutines : Adding(h)' <=> Adding(h) \/ h = g
  BY <1>0 DEF TypeOK, Adding, Idle
<1>2. TypeOK'
  <2>1. [at |-> "checked", to |-> d, call |-> calls + 1, seen |-> <<>>]
          \in [at : {"idle", "checked", "read"}, to : Requests \cup {0}, call : Calls \cup {0},
               seen : Seq(Calls)]
    BY <1>0
  <2>2. op' \in [Goroutines -> [at : {"idle", "checked", "read"}, to : Requests \cup {0},
                                call : Calls \cup {0}, seen : Seq(Calls)]]
    BY <1>0, <2>1 DEF TypeOK
  <2> QED
    BY <1>0, <2>2 DEF TypeOK, request, handling
<1>3. Stages' /\ ControlIsOwn'
  BY <1>0 DEF IInv, Stages, ControlIsOwn, InHand, request, handling
<1>4. /\ \A e \in Requests : <<e, calls + 1>> \notin accepted
      /\ \A h \in Goroutines : Adding(h) => op[h].call # calls + 1 /\ op[h].call \in 1..calls
      /\ \A i \in DOMAIN replies : replies[i] # calls + 1 /\ replies[i] <= calls
  BY <1>0 DEF IInv, CallsAreOwned
<1>5. CallsAreOwned'
  <2>1. \A e, f \in Requests, n \in Calls :
          <<e, n>> \in accepted => n <= calls + 1 /\ (<<f, n>> \in accepted => e = f)
    BY <1>0 DEF IInv, CallsAreOwned, Calls
  <2>2. ASSUME NEW i \in DOMAIN replies PROVE replies[i] <= calls + 1
    <3>1. replies[i] \in Nat
      BY <1>0, <2>2, CallNumbers DEF TypeOK
    <3> QED
      BY <1>0, <1>4, <3>1
  <2>3. ASSUME NEW h \in Goroutines, Adding(h)'
        PROVE  /\ op'[h].to \in handles /\ op'[h].call \in 1..(calls + 1)
               /\ \A e \in Requests : <<e, op'[h].call>> \notin accepted
               /\ \A f \in Goroutines : Adding(f)' /\ op'[f].call = op'[h].call => h = f
               /\ \A i \in DOMAIN replies : replies[i] # op'[h].call
    <3>1. CASE h = g
      BY <1>0, <1>1, <1>4, <3>1
    <3>2. CASE h # g
      BY <1>0, <1>1, <1>4, <2>3, <3>2 DEF IInv, CallsAreOwned
    <3> QED
      BY <3>1, <3>2
  <2> QED
    BY <1>0, <2>1, <2>2, <2>3 DEF IInv, CallsAreOwned, handling
<1>6. QueuesHoldTheirOwn'
  <2>1. \A h \in Goroutines : op'[h].at = "read" => h # g /\ op'[h] = op[h]
    BY <1>1
  <2>2. UNCHANGED <<queue, accepted>>
    BY <1>0
  <2> QED
    BY <2>1, <2>2 DEF IInv, QueuesHoldTheirOwn
<1>7. WorkerAddsInHandlers'
  BY <1>0, <1>1, Bounds DEF IInv, WorkerAddsInHandlers, Goroutines
<1>8. WorkerLosesNothing'
  <2> SUFFICES ASSUME NEW e \in Requests \ outside'
               PROVE  /\ \A h \in Keepers : Adding(h)' => op'[h].to # e
                      /\ \A n \in Calls : <<e, n>> \in accepted => \E i \in DOMAIN queue[e] : queue[e][i] = n
                      /\ \A i, j \in DOMAIN queue[e] : i < j => queue[e][i] < queue[e][j]
                      /\ Adding("worker")' /\ op'["worker"].to = e =>
                            /\ \A i \in DOMAIN queue[e] : queue[e][i] < op'["worker"].call
                            /\ op'["worker"].at = "read" => op'["worker"].seen = queue[e]
    BY <1>0 DEF WorkerLosesNothing
  <2>1. e \in Requests \ outside /\ (g \in Keepers => e # d)
    BY <1>0
  <2>2. \A h \in Keepers : Adding(h)' => op'[h].to # e
    BY <1>1, <2>1 DEF IInv, WorkerLosesNothing, Goroutines
  <2>3. ASSUME NEW i \in DOMAIN queue[e] PROVE queue[e][i] < calls + 1
    <3>1. queue[e] \in Seq(Calls) /\ queue[e][i] \in Calls
      BY <1>0, <2>3, CallNumbers DEF TypeOK
    <3>2. queue[e][i] <= calls
      BY <2>3, <3>1 DEF IInv, QueuesHoldTheirOwn, CallsAreOwned
    <3> QED
      BY <1>0, <3>1, <3>2 DEF Calls
  <2>4. CASE g = "worker"
    BY <1>1, <2>1, <2>2, <2>3, <2>4 DEF IInv, WorkerLosesNothing
  <2>5. CASE g # "worker"
    BY <1>1, <2>1, <2>2, <2>5 DEF IInv, WorkerLosesNothing, Goroutines
  <2> QED
    BY <2>4, <2>5
<1>9. SentIsSettled'
  <2> SUFFICES ASSUME NEW e \in Requests, answer[e] # None, NEW i \in DOMAIN answer[e].effects
               PROVE  /\ answer[e].effects[i] <= calls + 1
                      /\ \A h \in Goroutines : Adding(h)' => op'[h].call # answer[e].effects[i]
    BY <1>0 DEF SentIsSettled
  <2>1. answer[e].effects \in Seq(Calls) /\ answer[e].effects[i] <= calls
    BY <1>0 DEF IInv, SentIsSettled, TypeOK, Sent
  <2>2. answer[e].effects[i] \in Nat
    BY <2>1, CallNumbers
  <2>3. ASSUME NEW h \in Goroutines, Adding(h)' PROVE op'[h].call # answer[e].effects[i]
    <3>1. CASE h = g
      BY <1>0, <1>1, <2>1, <2>2, <3>1
    <3>2. CASE h # g
      BY <1>1, <2>3, <3>2 DEF IInv, SentIsSettled
    <3> QED
      BY <3>1, <3>2
  <2> QED
    BY <1>0, <2>1, <2>2, <2>3
<1>10. AcceptedEffectsTravel' /\ CancelledByItsHandlers'
  BY <1>0, AnswersStand DEF request, handling
<1> QED
  BY <1>2, <1>3, <1>5, <1>6, <1>7, <1>8, <1>9, <1>10 DEF IInv

LEMMA AddReadsStep == ASSUME IInv, NEW g \in Goroutines, AddReads(g) PROVE IInv'
<1>0. /\ TypeOK /\ op[g].at = "checked"
      /\ op' = [op EXCEPT ![g].at = "read", ![g].seen = queue[op[g].to]]
      /\ UNCHANGED <<request, pc, handling, queue, sealed, accepted, outside, calls, answer>>
  BY DEF IInv, AddReads
<1>1. op[g].to \in handles /\ op[g].to \in Requests
  BY <1>0 DEF IInv, CallsAreOwned, Adding, TypeOK
<1>2. /\ op'[g] = [at |-> "read", to |-> op[g].to, call |-> op[g].call, seen |-> queue[op[g].to]]
      /\ \A h \in Goroutines : h # g => op'[h] = op[h]
  <2>1. op'[g] = [op[g] EXCEPT !.at = "read", !.seen = queue[op[g].to]]
    BY <1>0 DEF TypeOK
  <2>2. op[g] = [at |-> op[g].at, to |-> op[g].to, call |-> op[g].call, seen |-> op[g].seen]
    BY DEF IInv, TypeOK
  <2> QED
    BY <1>0, <2>1, <2>2 DEF TypeOK
<1>3. /\ op'[g].at = "read" /\ op'[g].seen = queue[op[g].to]
      /\ \A h \in Goroutines : /\ op'[h].to = op[h].to /\ op'[h].call = op[h].call
                               /\ op'[h].at = "idle" <=> op[h].at = "idle"
  BY <1>0, <1>2 DEF TypeOK
<1>. UNCHANGED <<handles, replies, queue, sealed, accepted, outside, calls, answer, pc, spoilt>>
  BY <1>0 DEF handling
<1>4. TypeOK'
  <2>0. queue[op[g].to] \in Seq(Calls)
    BY <1>0, <1>1 DEF TypeOK
  <2>1. op'[g] \in [at : {"idle", "checked", "read"}, to : Requests \cup {0}, call : Calls \cup {0},
                    seen : Seq(Calls)]
    BY <1>0, <1>1, <1>2, <2>0 DEF TypeOK
  <2>2. op' \in [Goroutines -> [at : {"idle", "checked", "read"}, to : Requests \cup {0},
                                call : Calls \cup {0}, seen : Seq(Calls)]]
    BY <1>0, <1>2, <2>1 DEF TypeOK
  <2> QED
    BY <1>0, <2>2 DEF TypeOK, request, handling
<1>5. Stages' /\ ControlIsOwn'
  BY <1>0 DEF IInv, Stages, ControlIsOwn, InHand, request, handling
<1>6. CallsAreOwned'
  BY <1>3 DEF IInv, Adding, CallsAreOwned
<1>7. QueuesHoldTheirOwn'
  <2>1. \A h \in Goroutines : h # g => op'[h] = op[h]
    BY <1>2
  <2>2. ASSUME NEW h \in Goroutines, op'[h].at = "read", NEW i \in DOMAIN op'[h].seen
        PROVE  /\ <<op'[h].to, op'[h].seen[i]>> \in accepted
               /\ \A j \in DOMAIN op'[h].seen : op'[h].seen[i] = op'[h].seen[j] => i = j
    <3>1. CASE h = g
      BY <1>1, <1>3, <2>2, <3>1 DEF IInv, QueuesHoldTheirOwn
    <3>2. CASE h # g
      BY <2>1, <2>2, <3>2 DEF IInv, QueuesHoldTheirOwn
    <3> QED
      BY <3>1, <3>2
  <2> QED
    BY <2>2 DEF IInv, QueuesHoldTheirOwn
<1>8. "worker" \in Goroutines /\ \A h \in Keepers : h \in Goroutines
  BY DEF Goroutines
<1>9. WorkerAddsInHandlers'
  BY <1>3, <1>8 DEF IInv, Adding, WorkerAddsInHandlers
<1>10. WorkerLosesNothing'
  <2> SUFFICES ASSUME NEW e \in Requests \ outside
               PROVE  /\ \A h \in Keepers : Adding(h)' => op'[h].to # e
                      /\ Adding("worker")' /\ op'["worker"].to = e =>
                            /\ \A i \in DOMAIN queue[e] : queue[e][i] < op'["worker"].call
                            /\ op'["worker"].at = "read" => op'["worker"].seen = queue[e]
    BY DEF IInv, Adding, WorkerLosesNothing
  <2>1. CASE g = "worker"
    BY <1>3, <1>8, <2>1 DEF IInv, Adding, WorkerLosesNothing
  <2>2. CASE g # "worker"
    BY <1>2, <1>3, <1>8, <2>2 DEF IInv, Adding, WorkerLosesNothing
  <2> QED
    BY <2>1, <2>2
<1>11. SentIsSettled'
  BY <1>3 DEF IInv, Adding, SentIsSettled
<1>12. AcceptedEffectsTravel' /\ CancelledByItsHandlers'
  BY <1>0, AnswersStand DEF request, handling
<1> QED
  BY <1>4, <1>5, <1>6, <1>7, <1>9, <1>10, <1>11, <1>12 DEF IInv

\* What was read is written back with the new call behind it.
LEMMA AddWritesStep == ASSUME IInv, NEW g \in Goroutines, AddWrites(g) PROVE IInv'
<1> DEFINE d == op[g].to
           n == op[g].call
<1>0. /\ TypeOK /\ op[g].at = "read"
      /\ queue' = [queue EXCEPT ![d] = Append(op[g].seen, n)]
      /\ accepted' = accepted \cup {<<d, n>>}
      /\ op' = [op EXCEPT ![g] = Idle]
      /\ UNCHANGED <<request, pc, handling, sealed, outside, calls, answer>>
  BY DEF IInv, AddWrites
<1>1. /\ Adding(g) /\ d \in handles /\ d \in Requests /\ n \in Calls /\ n \in 1..calls
      /\ \A e \in Requests : <<e, n>> \notin accepted
      /\ \A h \in Goroutines : Adding(h) /\ op[h].call = n => g = h
      /\ \A i \in DOMAIN replies : replies[i] # n
  <2>1. op[g].call \in Calls \cup {0} /\ calls \in Nat
    BY <1>0 DEF TypeOK, Calls
  <2>2. Adding(g)
    BY <1>0 DEF Adding
  <2>3. n \in 1..calls
    BY <2>2 DEF IInv, CallsAreOwned
  <2> QED
    BY <1>0, <2>1, <2>2, <2>3 DEF IInv, CallsAreOwned, TypeOK, Calls
<1> DEFINE old == op[g].seen
           new == queue'[d]
           last == Len(op[g].seen) + 1
<1>2. /\ new \in Seq(Calls) /\ last \in DOMAIN new /\ new[last] = n
      /\ \A i \in DOMAIN old : i \in DOMAIN new /\ new[i] = old[i] /\ i \in Nat /\ i < last
      /\ \A i \in DOMAIN new : i \in DOMAIN old \/ i = last
      /\ last \in Nat
  <2>1. new = Append(old, n) /\ old \in Seq(Calls)
    BY <1>0, <1>1 DEF TypeOK
  <2>2. last \in Nat
    BY <2>1, LenProperties
  <2>3. n \in Calls
    BY <1>1
  <2> QED
    BY <2>1, <2>2, <2>3, Appended
<1>3. /\ \A e \in Requests : e # d => queue'[e] = queue[e]
      /\ op'[g].at = "idle"
      /\ \A h \in Goroutines : h # g => op'[h] = op[h]
  BY <1>0 DEF TypeOK, Idle
<1>4. \A e, m : <<e, m>> \in accepted' <=> <<e, m>> \in accepted \/ (e = d /\ m = n)
  BY <1>0
<1>5. TypeOK'
  <2>1. queue' \in [Requests -> Seq(Calls)]
    BY <1>0, <1>2 DEF TypeOK
  <2>2. Idle \in [at : {"idle", "checked", "read"}, to : Requests \cup {0}, call : Calls \cup {0},
                  seen : Seq(Calls)]
    BY DEF Idle
  <2>3. op' \in [Goroutines -> [at : {"idle", "checked", "read"}, to : Requests \cup {0},
                                call : Calls \cup {0}, seen : Seq(Calls)]]
    BY <1>0, <2>2 DEF TypeOK
  <2>4. accepted' \subseteq Requests \X Calls
    BY <1>0, <1>1 DEF TypeOK
  <2> QED
    BY <1>0, <2>1, <2>3, <2>4 DEF TypeOK, request, handling
<1>6. UNCHANGED <<current, kind, pc, snapshot, ran, cancelled, refused, replies, failed, spoken,
                  handles, spoilt, sealed, outside, calls, answer>>
  BY <1>0 DEF request, handling
<1>7. Stages' /\ ControlIsOwn'
  BY <1>6 DEF IInv, Stages, ControlIsOwn, InHand
<1>8. \A h \in Goroutines : Adding(h)' => h # g /\ Adding(h) /\ op'[h] = op[h]
  BY <1>3 DEF Adding
<1>9. CallsAreOwned'
  <2>1. \A e, f \in Requests, m \in Calls :
          <<e, m>> \in accepted' => m <= calls /\ (<<f, m>> \in accepted' => e = f)
    BY <1>1, <1>4 DEF IInv, CallsAreOwned
  <2>2. ASSUME NEW h \in Goroutines, Adding(h)'
        PROVE  /\ op'[h].to \in handles /\ op'[h].call \in 1..calls
               /\ \A e \in Requests : <<e, op'[h].call>> \notin accepted'
               /\ \A f \in Goroutines : Adding(f)' /\ op'[f].call = op'[h].call => h = f
               /\ \A i \in DOMAIN replies : replies[i] # op'[h].call
    <3>1. op'[h] = op[h] /\ Adding(h) /\ op[h].call # n
      BY <1>1, <1>8, <2>2
    <3> QED
      BY <1>4, <1>8, <3>1 DEF IInv, CallsAreOwned
  <2>3. \A i \in DOMAIN replies : \A e \in Requests : <<e, replies[i]>> \notin accepted'
    BY <1>1, <1>4 DEF IInv, CallsAreOwned
  <2> QED
    BY <1>6, <2>1, <2>2, <2>3 DEF IInv, CallsAreOwned
<1>10. QueuesHoldTheirOwn'
  <2>1. ASSUME NEW i \in DOMAIN old
        PROVE  /\ <<d, old[i]>> \in accepted /\ old[i] # n
               /\ \A j \in DOMAIN old : old[i] = old[j] => i = j
    BY <1>0, <1>1 DEF IInv, QueuesHoldTheirOwn
  <2>2. ASSUME NEW e \in Requests, NEW i \in DOMAIN queue'[e]
        PROVE  /\ <<e, queue'[e][i]>> \in accepted'
               /\ \A j \in DOMAIN queue'[e] : queue'[e][i] = queue'[e][j] => i = j
    <3>1. CASE e = d
      <4> SUFFICES ASSUME NEW k \in DOMAIN new
                   PROVE  /\ <<d, new[k]>> \in accepted'
                          /\ \A j \in DOMAIN new : new[k] = new[j] => k = j
        BY <2>2, <3>1
      <4>1. CASE k \in DOMAIN old
        <5>1. <<d, old[k]>> \in accepted /\ new[k] = old[k] /\ new[k] # n
          BY <1>2, <2>1, <4>1
        <5>2. <<d, new[k]>> \in accepted'
          BY <1>4, <5>1
        <5>3. ASSUME NEW j \in DOMAIN new, new[k] = new[j] PROVE k = j
          <6>1. j \in DOMAIN old /\ new[j] = old[j]
            BY <1>2, <5>1, <5>3
          <6> HIDE DEF old, new, n, last
          <6> QED
            BY <2>1, <4>1, <5>1, <5>3, <6>1
        <5> QED
          BY <5>2, <5>3
      <4>2. CASE k = last
        <5>1. new[k] = n
          BY <1>2, <4>2
        <5>2. <<d, new[k]>> \in accepted'
          BY <1>4, <5>1
        <5>3. ASSUME NEW j \in DOMAIN new, new[k] = new[j] PROVE k = j
          <6>1. j \notin DOMAIN old
            BY <1>2, <2>1, <5>1, <5>3
          <6> QED
            BY <1>2, <4>2, <6>1
        <5> QED
          BY <5>2, <5>3
      <4> QED
        BY <1>2, <4>1, <4>2
    <3>2. CASE e # d
      BY <1>3, <1>4, <2>2, <3>2 DEF IInv, QueuesHoldTheirOwn
    <3> QED
      BY <3>1, <3>2
  <2>3. ASSUME NEW h \in Goroutines, op'[h].at = "read", NEW i \in DOMAIN op'[h].seen
        PROVE  /\ <<op'[h].to, op'[h].seen[i]>> \in accepted'
               /\ \A j \in DOMAIN op'[h].seen : op'[h].seen[i] = op'[h].seen[j] => i = j
    <3>1. op'[h] = op[h]
      BY <1>3, <2>3
    <3> QED
      BY <1>4, <2>3, <3>1 DEF IInv, QueuesHoldTheirOwn
  <2> QED
    BY <2>2, <2>3 DEF QueuesHoldTheirOwn
<1>11. "worker" \in Goroutines /\ \A h \in Keepers : h \in Goroutines
  BY DEF Goroutines
<1>12. WorkerAddsInHandlers'
  BY <1>6, <1>8, <1>11 DEF IInv, WorkerAddsInHandlers
<1>13. WorkerLosesNothing'
  <2> SUFFICES ASSUME NEW e \in Requests \ outside
               PROVE  /\ \A h \in Keepers : Adding(h)' => op'[h].to # e
                      /\ \A m \in Calls : <<e, m>> \in accepted' => \E i \in DOMAIN queue'[e] : queue'[e][i] = m
                      /\ \A i, j \in DOMAIN queue'[e] : i < j => queue'[e][i] < queue'[e][j]
                      /\ Adding("worker")' /\ op'["worker"].to = e =>
                            /\ \A i \in DOMAIN queue'[e] : queue'[e][i] < op'["worker"].call
                            /\ op'["worker"].at = "read" => op'["worker"].seen = queue'[e]
    BY <1>6 DEF WorkerLosesNothing
  <2>1. \A h \in Keepers : Adding(h)' => op'[h].to # e
    BY <1>8, <1>11 DEF IInv, WorkerLosesNothing
  <2>2. CASE e # d
    BY <1>3, <1>4, <1>8, <1>11, <2>1, <2>2 DEF IInv, WorkerLosesNothing
  <2>3. CASE e = d
    <3>1. g = "worker" /\ ~Adding("worker")'
      BY <1>1, <1>8, <1>11, <2>3 DEF IInv, WorkerLosesNothing, Goroutines
    <3>2. old = queue[d] /\ \A i \in DOMAIN queue[d] : queue[d][i] < n
      BY <1>0, <1>1, <2>3, <3>1 DEF IInv, WorkerLosesNothing
    <3>3. \A i \in DOMAIN queue[d] : i \in DOMAIN new /\ new[i] = queue[d][i] /\ i < last
      BY <1>2, <3>2
    <3>4. \A i \in DOMAIN new : i \in DOMAIN queue[d] \/ i = last
      BY <1>2, <3>2
    <3>5. new[last] = n /\ last \in DOMAIN new /\ last \in Nat
      BY <1>2
    <3>6. \A i, j \in DOMAIN queue[d] : i < j => queue[d][i] < queue[d][j]
      BY <2>3 DEF IInv, WorkerLosesNothing
    <3>7. \A m \in Calls : <<d, m>> \in accepted => \E i \in DOMAIN queue[d] : queue[d][i] = m
      BY <2>3 DEF IInv, WorkerLosesNothing
    <3>8. \A i \in DOMAIN new : i \in Nat
      BY <1>2
    <3>9. \A m : <<d, m>> \in accepted' => <<d, m>> \in accepted \/ m = n
      BY <1>4
    <3>10. \A m \in Calls : <<d, m>> \in accepted' => \E i \in DOMAIN new : new[i] = m
      <4> HIDE DEF new, last, n, d
      <4> QED
        BY <3>3, <3>5, <3>7, <3>9
    <3>11. \A i, j \in DOMAIN new : i < j => new[i] < new[j]
      <4> HIDE DEF new, last, n, d
      <4> SUFFICES ASSUME NEW i \in DOMAIN new, NEW j \in DOMAIN new, i < j PROVE new[i] < new[j]
        OBVIOUS
      <4>1. i \in DOMAIN queue[d]
        <5>1. CASE i = last
          <6>1. j = last \/ j < last
            BY <3>3, <3>4
          <6> QED
            BY <3>5, <3>8, <5>1, <6>1
        <5> QED
          BY <3>4, <5>1
      <4>2. CASE j = last
        BY <3>2, <3>3, <3>5, <4>1, <4>2
      <4>3. CASE j \in DOMAIN queue[d]
        BY <3>3, <3>6, <4>1, <4>3
      <4> QED
        BY <3>4, <4>2, <4>3
    <3> QED
      BY <2>1, <2>3, <3>1, <3>10, <3>11
  <2> QED
    BY <2>2, <2>3
<1>14. SentIsSettled'
  BY <1>6, <1>8 DEF IInv, SentIsSettled
<1>15. CancelledByItsHandlers'
  BY <1>6 DEF IInv, CancelledByItsHandlers
<1>16. AcceptedEffectsTravel'
  <2> SUFFICES ASSUME NEW e \in Requests, answer[e] # None
               PROVE  LET sent == answer[e].effects
                      IN  /\ IsInjective(sent)
                          /\ kind[e].is = "event" => Range(sent) \subseteq Effects(e)'
                          /\ e \notin outside /\ answer[e].encoded =>
                               /\ Effects(e)' \subseteq Range(sent)
                               /\ \A i, j \in DOMAIN sent :
                                    i < j /\ {sent[i], sent[j]} \subseteq Effects(e)' => sent[i] < sent[j]
                          /\ kind[e].is = "event" /\ ~answer[e].encoded => e \in spoilt
                          /\ \A f \in Requests \ {e} : Range(sent) \cap Effects(f)' = {}
    BY <1>6 DEF AcceptedEffectsTravel
  <2> DEFINE sent == answer[e].effects
  <2>1. /\ IsInjective(sent)
        /\ kind[e].is = "event" => Range(sent) \subseteq Effects(e)
        /\ e \notin outside /\ answer[e].encoded =>
             /\ Effects(e) \subseteq Range(sent)
             /\ \A i, j \in DOMAIN sent :
                  i < j /\ {sent[i], sent[j]} \subseteq Effects(e) => sent[i] < sent[j]
        /\ kind[e].is = "event" /\ ~answer[e].encoded => e \in spoilt
        /\ \A f \in Requests \ {e} : Range(sent) \cap Effects(f) = {}
    BY DEF IInv, AcceptedEffectsTravel
  <2>2. \A f \in Requests : Effects(f)' = IF f = d THEN Effects(f) \cup {n} ELSE Effects(f)
    BY <1>1, <1>4 DEF Effects
  <2>3. n \notin Range(sent)
    BY <1>1 DEF IInv, SentIsSettled, Range
  <2>4. e \notin outside => e # d
    <3> SUFFICES ASSUME e \notin outside, e = d PROVE FALSE
      OBVIOUS
    <3>1. g = "worker"
      BY <1>1, <1>11 DEF IInv, WorkerLosesNothing, Goroutines
    <3>2. pc = "handler" /\ d \notin sealed
      BY <1>1, <3>1 DEF IInv, WorkerAddsInHandlers
    <3> QED
      BY <1>1, <3>2 DEF IInv, Stages
  <2> HIDE DEF d, n
  <2> QED
    BY <2>1, <2>2, <2>3, <2>4
<1> QED
  BY <1>5, <1>7, <1>9, <1>10, <1>12, <1>13, <1>14, <1>15, <1>16 DEF IInv

\* Nothing is under way on the worker when it seals.
LEMMA SealStep == ASSUME IInv, Seal PROVE IInv'
<1>0. /\ TypeOK /\ Stages /\ ControlIsOwn /\ pc = "calling" /\ pc' = "sealed"
      /\ sealed' = sealed \cup {current} /\ current \in Requests /\ ~Adding("worker")
      /\ UNCHANGED <<current, kind, snapshot, ran, cancelled, refused, replies, failed, spoken,
                     handles, spoilt, queue, op, accepted, outside, calls, answer>>
  BY DEF IInv, Stages, WorkerAddsInHandlers, Seal, request, handling
<1>1. TypeOK' /\ Stages' /\ ControlIsOwn'
  BY <1>0 DEF TypeOK, Stages, ControlIsOwn, InHand
<1>2. CallsAreOwned' /\ QueuesHoldTheirOwn' /\ WorkerLosesNothing'
  BY <1>0, NothingAdded
<1>3. WorkerAddsInHandlers' /\ SentIsSettled'
  BY <1>0, NothingAnswered DEF WorkerAddsInHandlers, Adding
<1>4. AcceptedEffectsTravel' /\ CancelledByItsHandlers'
  BY <1>0, AnswersStand
<1> QED
  BY <1>1, <1>2, <1>3, <1>4 DEF IInv

\* The replies, which no queue holds, and the queue; or nothing of either.
LEMMA SendStep == ASSUME IInv, Send PROVE IInv'
<1> PICK encoded \in Encodes :
      answer' = [answer EXCEPT ![current] =
        [cancelled |-> Verdict, failed |-> failed, encoded |-> encoded,
         effects |-> IF encoded THEN Result ELSE <<>>]]
  BY DEF Send
<1> DEFINE sent == IF encoded THEN Result ELSE <<>>
<1>0. /\ TypeOK /\ Stages /\ ControlIsOwn /\ pc = "sealed" /\ pc' = "idle" /\ current \in Requests
      /\ answer' = [answer EXCEPT ![current] =
                      [cancelled |-> Verdict, failed |-> failed, encoded |-> encoded,
                       effects |-> sent]]
      /\ UNCHANGED <<current, kind, snapshot, ran, cancelled, refused, replies, failed, spoken,
                     handles, spoilt, queue, sealed, op, accepted, outside, calls>>
  BY DEF IInv, Stages, Send, request, handling, sinks
<1>1. /\ answer'[current] = [cancelled |-> Verdict, failed |-> failed, encoded |-> encoded,
                              effects |-> sent]
      /\ \A d \in Requests : d # current => answer'[d] = answer[d]
  BY <1>0 DEF TypeOK
<1>2. UNCHANGED <<current, kind, snapshot, ran, cancelled, refused, replies, failed, spoken,
                  handles, spoilt, queue, sealed, op, accepted, outside, calls>>
  BY <1>0
<1>3. /\ replies \in Seq(Calls) /\ queue[current] \in Seq(Calls) /\ sent \in Seq(Calls)
      /\ Len(replies) \in Nat /\ Len(queue[current]) \in Nat
      /\ DOMAIN replies = 1..Len(replies) /\ DOMAIN queue[current] = 1..Len(queue[current])
      /\ DOMAIN sent = IF encoded THEN 1..Len(replies) + Len(queue[current]) ELSE {}
      /\ \A i \in DOMAIN sent : sent[i] = IF i <= Len(replies) THEN replies[i]
                                          ELSE queue[current][i - Len(replies)]
  <2>1. replies \in Seq(Calls) /\ queue[current] \in Seq(Calls)
    BY <1>0 DEF TypeOK
  <2>2. /\ Len(replies) \in Nat /\ Len(queue[current]) \in Nat
        /\ DOMAIN replies = 1..Len(replies) /\ DOMAIN queue[current] = 1..Len(queue[current])
        /\ Result \in Seq(Calls) /\ DOMAIN Result = 1..Len(replies) + Len(queue[current])
        /\ \A i \in DOMAIN Result : Result[i] = IF i <= Len(replies) THEN replies[i]
                                                ELSE queue[current][i - Len(replies)]
    BY <2>1, ConcatProperties, LenProperties DEF Result
  <2>3. CASE encoded
    BY <2>1, <2>2, <2>3
  <2>4. CASE ~encoded
    BY <2>1, <2>2, <2>4, EmptySeq
  <2> QED
    BY <2>3, <2>4
<1>4. /\ kind[current] \in Kinds /\ current \in Nat
      /\ Verdict = IF failed THEN kind[current].deny ELSE cancelled /\ kind[current].cancellable
  BY <1>0 DEF Stages, Verdict, InHand, Requests
<1>5. /\ Verdict \in BOOLEAN /\ encoded \in BOOLEAN
      /\ kind[current].is = "event" /\ ~encoded => current \in spoilt
  BY <1>0, <1>4, KindsOfRequests DEF TypeOK, Encodes, InHand
<1>6. TypeOK'
  <2>1. [cancelled |-> Verdict, failed |-> failed, encoded |-> encoded, effects |-> sent] \in Sent
    BY <1>0, <1>3, <1>5 DEF Sent, TypeOK
  <2>2. answer' \in [Requests -> Sent \cup {None}]
    BY <1>0, <2>1 DEF TypeOK
  <2> QED
    BY <1>0, <2>2 DEF TypeOK
<1>7. Stages' /\ ControlIsOwn'
  BY <1>0, <1>1, <1>4 DEF Stages, ControlIsOwn
<1>8. CallsAreOwned' /\ QueuesHoldTheirOwn' /\ WorkerLosesNothing'
  BY <1>2, NothingAdded
<1>9. WorkerAddsInHandlers'
  BY <1>0 DEF IInv, WorkerAddsInHandlers, Adding
<1>10. \A i \in DOMAIN sent :
         \/ /\ i \in DOMAIN replies /\ sent[i] = replies[i]
            /\ replies[i] <= calls /\ \A d \in Requests : <<d, replies[i]>> \notin accepted
         \/ /\ i - Len(replies) \in DOMAIN queue[current] /\ sent[i] = queue[current][i - Len(replies)]
            /\ <<current, sent[i]>> \in accepted /\ sent[i] <= calls
  <2>1. ASSUME NEW i \in DOMAIN replies
        PROVE  replies[i] <= calls /\ \A d \in Requests : <<d, replies[i]>> \notin accepted
    BY DEF IInv, CallsAreOwned
  <2>2. ASSUME NEW i \in DOMAIN queue[current]
        PROVE  <<current, queue[current][i]>> \in accepted /\ queue[current][i] <= calls
    <3>1. queue[current][i] \in Calls
      BY <1>3, CallNumbers
    <3> QED
      BY <1>0, <3>1 DEF IInv, QueuesHoldTheirOwn, CallsAreOwned
  <2>3. \A i \in DOMAIN sent :
          \/ i \in DOMAIN replies /\ sent[i] = replies[i]
          \/ i - Len(replies) \in DOMAIN queue[current] /\ sent[i] = queue[current][i - Len(replies)]
    <3>1. \A i \in DOMAIN sent : i \in 1..Len(replies) + Len(queue[current])
      BY <1>3
    <3> HIDE DEF sent
    <3> QED
      BY <1>3, <3>1
  <2> HIDE DEF sent
  <2> QED
    BY <2>1, <2>2, <2>3
<1>11. SentIsSettled'
  <2>1. ASSUME NEW i \in DOMAIN sent, NEW g \in Goroutines, Adding(g)
        PROVE  op[g].call # sent[i]
    <3> HIDE DEF sent
    <3> QED
      BY <1>0, <1>10, <2>1 DEF IInv, CallsAreOwned
  <2>2. ASSUME NEW d \in Requests, answer'[d] # None, NEW i \in DOMAIN answer'[d].effects
        PROVE  /\ answer'[d].effects[i] <= calls
               /\ \A g \in Goroutines : Adding(g) => op[g].call # answer'[d].effects[i]
    <3>1. CASE d = current
      <4>1. answer'[d].effects = sent
        BY <1>1, <3>1
      <4> HIDE DEF sent
      <4> QED
        BY <1>10, <2>1, <2>2, <4>1
    <3>2. CASE d # current
      BY <1>1, <2>2, <3>2 DEF IInv, SentIsSettled
    <3> QED
      BY <3>1, <3>2
  <2> QED
    BY <1>2, <2>2 DEF SentIsSettled, Adding
<1>12. CancelledByItsHandlers'
  <2>1. ASSUME NEW d \in Requests, answer'[d] # None
        PROVE  (answer'[d].cancelled <=> IF answer'[d].failed /\ kind[d].is = "event" THEN kind[d].deny
                                         ELSE d \in refused /\ kind[d].cancellable)
    <3>1. CASE d = current
      <4>1. answer'[d].cancelled = Verdict /\ answer'[d].failed = failed
        BY <1>1, <3>1
      <4>2. cancelled <=> current \in refused
        BY <1>0 DEF ControlIsOwn
      <4>3. failed \in BOOLEAN /\ cancelled \in BOOLEAN
        BY <1>0 DEF TypeOK
      <4> QED
        BY <1>4, <3>1, <4>1, <4>2, <4>3, KindsOfRequests
    <3>2. CASE d # current
      BY <1>1, <2>1, <3>2 DEF IInv, CancelledByItsHandlers
    <3> QED
      BY <3>1, <3>2
  <2> QED
    BY <1>2, <2>1 DEF CancelledByItsHandlers
<1>13. AcceptedEffectsTravel'
  <2>1. \A d : Effects(d)' = Effects(d)
    BY <1>2 DEF Effects
  <2>2. \A d \in Requests : \A i \in DOMAIN sent : sent[i] \in Effects(d) => d = current
    BY <1>0, <1>3, <1>10, CallNumbers DEF IInv, CallsAreOwned, Effects
  <2>3. \A i \in DOMAIN sent : sent[i] \in Effects(current)
          => i - Len(replies) \in DOMAIN queue[current] /\ sent[i] = queue[current][i - Len(replies)]
    BY <1>0, <1>10 DEF Effects
  <2>4. IsInjective(sent)
    <3> SUFFICES ASSUME NEW i \in DOMAIN sent, NEW j \in DOMAIN sent, sent[i] = sent[j] PROVE i = j
      BY DEF IsInjective
    <3>1. CASE i \in DOMAIN replies /\ sent[i] = replies[i] /\ \A d \in Requests : <<d, sent[i]>> \notin accepted
      <4>1. j \in DOMAIN replies /\ sent[j] = replies[j]
        BY <1>0, <1>10, <3>1
      <4> QED
        BY <3>1, <4>1 DEF IInv, CallsAreOwned
    <3>2. CASE /\ i - Len(replies) \in DOMAIN queue[current]
               /\ sent[i] = queue[current][i - Len(replies)] /\ <<current, sent[i]>> \in accepted
      <4>1. /\ j - Len(replies) \in DOMAIN queue[current]
            /\ sent[j] = queue[current][j - Len(replies)]
        BY <1>0, <1>10, <3>2
      <4>2. i - Len(replies) = j - Len(replies)
        BY <1>0, <3>2, <4>1 DEF IInv, QueuesHoldTheirOwn
      <4> QED
        BY <1>3, <4>2
    <3> QED
      BY <1>10, <3>1, <3>2
  <2>5. kind[current].is = "event" => Range(sent) \subseteq Effects(current)
    <3> SUFFICES ASSUME kind[current].is = "event", NEW i \in DOMAIN sent
                 PROVE  sent[i] \in Effects(current)
      BY DEF Range
    <3>1. i \notin DOMAIN replies
      <4>1. replies = <<>>
        BY <1>0 DEF ControlIsOwn, InHand
      <4> QED
        BY <4>1, EmptySeq
    <3> HIDE DEF sent
    <3>2. <<current, sent[i]>> \in accepted
      BY <1>10, <3>1
    <3> QED
      BY <1>3, <3>2, CallNumbers DEF Effects
  <2>6. current \notin outside /\ encoded => Effects(current) \subseteq Range(sent)
    <3> SUFFICES ASSUME current \notin outside, encoded, NEW m \in Effects(current) PROVE m \in Range(sent)
      OBVIOUS
    <3>1. PICK i \in DOMAIN queue[current] : queue[current][i] = m
      BY <1>0 DEF IInv, WorkerLosesNothing, Effects
    <3>2. i + Len(replies) \in DOMAIN sent /\ sent[i + Len(replies)] = m
      BY <1>3, <3>1
    <3> QED
      BY <3>2 DEF Range
  <2>7. ASSUME current \notin outside, NEW i \in DOMAIN sent, NEW j \in DOMAIN sent, i < j,
               {sent[i], sent[j]} \subseteq Effects(current)
        PROVE  sent[i] < sent[j]
    <3>1. /\ i - Len(replies) \in DOMAIN queue[current] /\ sent[i] = queue[current][i - Len(replies)]
          /\ j - Len(replies) \in DOMAIN queue[current] /\ sent[j] = queue[current][j - Len(replies)]
      BY <2>3, <2>7
    <3>2. i - Len(replies) < j - Len(replies)
      BY <1>3, <2>7
    <3>3. queue[current][i - Len(replies)] < queue[current][j - Len(replies)]
      BY <1>0, <2>7, <3>1, <3>2 DEF IInv, WorkerLosesNothing
    <3> QED
      BY <3>1, <3>3
  <2>8. \A e \in Requests \ {current} : Range(sent) \cap Effects(e) = {}
    BY <2>2 DEF Range
  <2> SUFFICES ASSUME NEW d \in Requests, answer'[d] # None
               PROVE  LET got == answer'[d].effects
                      IN  /\ IsInjective(got)
                          /\ kind[d].is = "event" => Range(got) \subseteq Effects(d)
                          /\ d \notin outside /\ answer'[d].encoded =>
                               /\ Effects(d) \subseteq Range(got)
                               /\ \A i, j \in DOMAIN got :
                                    i < j /\ {got[i], got[j]} \subseteq Effects(d) => got[i] < got[j]
                          /\ kind[d].is = "event" /\ ~answer'[d].encoded => d \in spoilt
                          /\ \A e \in Requests \ {d} : Range(got) \cap Effects(e) = {}
    BY <1>2, <2>1 DEF AcceptedEffectsTravel
  <2>9. CASE d = current
    <3>1. answer'[d].effects = sent /\ answer'[d].encoded = encoded
      BY <1>1, <2>9
    <3> HIDE DEF sent
    <3> QED
      BY <1>5, <2>4, <2>5, <2>6, <2>7, <2>8, <2>9, <3>1
  <2>10. CASE d # current
    BY <1>1, <2>10 DEF IInv, AcceptedEffectsTravel
  <2> QED
    BY <2>9, <2>10
<1> QED
  BY <1>6, <1>7, <1>8, <1>9, <1>11, <1>12, <1>13 DEF IInv

LEMMA StutteringStep == ASSUME IInv, UNCHANGED vars PROVE IInv'
<1>0. UNCHANGED <<current, kind, pc, snapshot, ran, cancelled, replies, failed, queue,
                  sealed, op, calls, accepted, outside, spoken, handles, refused, spoilt, answer>>
  BY DEF vars
<1>1. TypeOK' /\ Stages' /\ ControlIsOwn'
  BY <1>0 DEF IInv, TypeOK, Stages, ControlIsOwn, InHand
<1>2. CallsAreOwned' /\ QueuesHoldTheirOwn' /\ WorkerLosesNothing'
  BY <1>0, NothingAdded
<1>3. WorkerAddsInHandlers' /\ SentIsSettled'
  BY <1>0, NothingAnswered DEF IInv, WorkerAddsInHandlers, Adding
<1>4. AcceptedEffectsTravel' /\ CancelledByItsHandlers'
  BY <1>0, AnswersStand
<1> QED
  BY <1>1, <1>2, <1>3, <1>4 DEF IInv

LEMMA InvStep == IInv /\ [Next]_vars => IInv'
<1> SUFFICES ASSUME IInv, [Next]_vars PROVE IInv'
  OBVIOUS
<1>1. CASE \E k \in Kinds : Begin(k) \/ BeginFails(k)
  BY <1>1, BeginStep
<1>2. CASE CallHandler \/ Cancel \/ HandlerReturns \/ HandlerPanics
  BY <1>2, HandlerStep
<1>3. CASE Reply
  BY <1>3, ReplyStep
<1>4. CASE \E g \in Goroutines : \/ AddReads(g) \/ AddWrites(g) \/ WriteNoKind(g)
                                 \/ \E d \in Requests : AddChecks(g, d)
  BY <1>4, AddReadsStep, AddWritesStep, AddChecksStep, WriteNoKindStep
<1>5. CASE Seal
  BY <1>5, SealStep
<1>6. CASE Send
  BY <1>6, SendStep
<1>7. CASE UNCHANGED vars
  BY <1>7, StutteringStep
<1> QED
  BY <1>1, <1>2, <1>3, <1>4, <1>5, <1>6, <1>7 DEF Next

LEMMA Invariance == Spec => []IInv
<1>1. Init => IInv
  BY InvInit
<1>2. IInv /\ [Next]_vars => IInv'
  BY InvStep
<1> QED
  BY <1>1, <1>2, PTL DEF Spec

-----------------------------------------------------------------------------

\* The variables have their types in every reachable state of the worker and of
\* the goroutines that use a request's handles (dispatch.go, control.go).
THEOREM TypeCorrect == Spec => []TypeOK
<1>1. IInv => TypeOK
  BY DEF IInv
<1> QED
  BY <1>1, Invariance, PTL

\* Whatever goroutines use the handles beside the worker, however their adds
\* interleave with its own, with sealing and with the answers, and whether an answer
\* encodes or not: no effect is sent twice or with another request's answer, and an
\* event's answer holds nothing that was not accepted for it. A request only its
\* handlers add to loses nothing and keeps the order of the calls, if its answer
\* encodes, and an event's does unless a Value of no kind was written into it
\* (control.go:47-67, 88-96, session_handle.go:92-96, 117-121).
THEOREM EffectsTravel == Spec => []AcceptedEffectsTravel
<1>1. IInv => AcceptedEffectsTravel
  BY DEF IInv
<1> QED
  BY <1>1, Invariance, PTL

\* An answer says cancelled exactly when a handler of its own request cancelled
\* what can be cancelled, or the event failed and denies (dispatch.go:16, 29,
\* session_handle.go:86-89).
THEOREM CancellationIsOwn == Spec => []CancelledByItsHandlers
<1>1. IInv => CancelledByItsHandlers
  BY DEF IInv
<1> QED
  BY <1>1, Invariance, PTL
=============================================================================
