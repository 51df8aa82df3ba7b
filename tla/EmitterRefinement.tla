------------------------- MODULE EmitterRefinement -------------------------
(***************************************************************************)
(* Emitter.tla implements the safety of Exchange.tla, for every set of     *)
(* callers and every bound on the numbers.                                 *)
(*                                                                         *)
(* The inductive invariant of EmitterProofs says where an answer is; the   *)
(* mapping needs four facts more: a slot holds an answer about its own     *)
(* number, a question has left only under a number that was registered, a  *)
(* caller on its way out is not registered under a number that left, and   *)
(* a channel is closed only when the emitter is.                           *)
(***************************************************************************)
EXTENDS EmitterProofs

SlotsHoldTheirOwn == \A n \in Numbers : buffer[n] # None => buffer[n].about = n

AskedWasRegistered ==
  /\ \A n \in asked : n <= seq
  /\ \A c \in Callers : pc[c] \in {"numbered", "registered"} => mine[c] \notin asked

LeaversAreNotWaitedFor ==
  \A c \in Callers : pc[c] = "leaving" => ~(mine[c] \in pending /\ mine[c] \in asked)

ClosedWithTheEmitter == \A n \in Numbers : chan[n] = "closed" => closed

RInv ==
  /\ IInv
  /\ SlotsHoldTheirOwn
  /\ AskedWasRegistered
  /\ LeaversAreNotWaitedFor
  /\ ClosedWithTheEmitter

LEMMA RInvInit == Init => RInv
<1> SUFFICES ASSUME Init PROVE RInv
  OBVIOUS
<1>1. IInv
  BY InvInit
<1>2. SlotsHoldTheirOwn /\ ClosedWithTheEmitter
  BY DEF Init, SlotsHoldTheirOwn, ClosedWithTheEmitter
<1>3. AskedWasRegistered /\ LeaversAreNotWaitedFor
  BY DEF Init, AskedWasRegistered, LeaversAreNotWaitedFor
<1> QED
  BY <1>1, <1>2, <1>3 DEF RInv

\* The numbers of two callers that are past Number differ, and are numbers.
LEMMA CallersHoldNumbers ==
  ASSUME IInv, NEW c \in Callers, pc[c] \notin {"idle", "admitted"}
  PROVE  mine[c] \in Numbers /\ \A d \in Callers \ {c} : mine[d] # mine[c]
BY NumbersAreNat DEF IInv, TInv, TypeOK, CallersAreNumbered, NumbersAreNeverShared

LEMMA SlotsStep == RInv /\ [Next]_vars => SlotsHoldTheirOwn'
<1> SUFFICES ASSUME RInv, [Next]_vars PROVE SlotsHoldTheirOwn'
  OBVIOUS
<1>1. ASSUME NEW c \in Callers, Receive(c) PROVE SlotsHoldTheirOwn'
  BY <1>1 DEF Receive, RInv, IInv, TInv, TypeOK, SlotsHoldTheirOwn
<1>2. CASE HandOver
  BY <1>2 DEF HandOver, RInv, IInv, TInv, TypeOK, SlotsHoldTheirOwn
<1>3. CASE UNCHANGED buffer
  BY <1>3 DEF RInv, SlotsHoldTheirOwn
<1> QED
  BY <1>1, <1>2, <1>3 DEF Next, CallerStep, EmitRefused, Emit, Number, Expect, Send, SendFails,
     ReceiveClosed, Forget, Deliver, Shutdown, Clear, vars

LEMMA ClosedStep == RInv /\ [Next]_vars => ClosedWithTheEmitter'
<1> SUFFICES ASSUME RInv, [Next]_vars PROVE ClosedWithTheEmitter'
  OBVIOUS
<1>1. ASSUME NEW c \in Callers, Expect(c) PROVE ClosedWithTheEmitter'
  BY <1>1 DEF Expect, RInv, IInv, TInv, TypeOK, ClosedWithTheEmitter
<1>2. CASE Shutdown
  BY <1>2 DEF Shutdown, ClosedWithTheEmitter
<1>3. CASE UNCHANGED <<chan, closed>>
  BY <1>3 DEF RInv, ClosedWithTheEmitter
<1> QED
  BY <1>1, <1>2, <1>3 DEF Next, CallerStep, EmitRefused, Emit, Number, Send, SendFails,
     Receive, ReceiveClosed, Forget, Deliver, HandOver, Clear, vars

LEMMA AskedStep == RInv /\ [Next]_vars => AskedWasRegistered'
<1> SUFFICES ASSUME RInv, [Next]_vars PROVE AskedWasRegistered'
  OBVIOUS
<1> USE DEF RInv, AskedWasRegistered
<1>0. IInv /\ TypeOK /\ seq \in Nat /\ asked \subseteq Nat
  BY NumbersAreNat DEF IInv, TInv, TypeOK
<1>1. ASSUME NEW c \in Callers, Number(c) PROVE AskedWasRegistered'
  <2>1. seq' = seq + 2 /\ asked' = asked /\ seq + 2 \notin asked
    BY <1>0, <1>1 DEF Number
  <2>2. \A d \in Callers : /\ mine'[d] = (IF d = c THEN seq + 2 ELSE mine[d])
                           /\ pc'[d] = (IF d = c THEN "numbered" ELSE pc[d])
    BY <1>0, <1>1 DEF Number, TypeOK
  <2> QED
    BY <1>0, <2>1, <2>2
<1>2. ASSUME NEW c \in Callers, Expect(c) PROVE AskedWasRegistered'
  BY <1>0, <1>2 DEF Expect, TypeOK
<1>3. ASSUME NEW c \in Callers, Send(c) PROVE AskedWasRegistered'
  <2>1. mine[c] \in Numbers /\ mine[c] <= seq /\ \A d \in Callers \ {c} : mine[d] # mine[c]
    BY <1>0, <1>3, CallersHoldNumbers DEF Send, IInv, NumbersWereTaken
  <2>2. /\ asked' = asked \cup {mine[c]} /\ seq' = seq /\ mine' = mine
        /\ \A d \in Callers : pc'[d] = IF d = c THEN "waiting" ELSE pc[d]
    BY <1>0, <1>3 DEF Send, TypeOK
  <2> QED
    BY <2>1, <2>2
<1>4. ASSUME NEW c \in Callers,
             Emit(c) \/ SendFails(c) \/ Receive(c) \/ ReceiveClosed(c) \/ Forget(c)
      PROVE  AskedWasRegistered'
  BY <1>0, <1>4 DEF Emit, SendFails, Receive, ReceiveClosed, Forget, TypeOK
<1>5. CASE UNCHANGED <<seq, asked, pc, mine>>
  BY <1>5
<1> QED
  BY <1>1, <1>2, <1>3, <1>4, <1>5
     DEF Next, CallerStep, EmitRefused, Deliver, HandOver, Shutdown, Clear, vars

LEMMA LeaversStep == RInv /\ [Next]_vars => LeaversAreNotWaitedFor'
<1> SUFFICES ASSUME RInv, [Next]_vars PROVE LeaversAreNotWaitedFor'
  OBVIOUS
<1> USE DEF RInv, LeaversAreNotWaitedFor
<1>0. IInv /\ TypeOK
  BY DEF IInv, TInv
<1>1. ASSUME NEW c \in Callers, Expect(c) \/ Send(c) PROVE LeaversAreNotWaitedFor'
  <2>1. \A d \in Callers \ {c} : mine[d] # mine[c]
    BY <1>0, <1>1, CallersHoldNumbers DEF Expect, Send
  <2> QED
    BY <1>0, <1>1, <2>1 DEF Expect, Send, TypeOK
<1>2. ASSUME NEW c \in Callers, SendFails(c) PROVE LeaversAreNotWaitedFor'
  BY <1>0, <1>2 DEF SendFails, AskedWasRegistered, TypeOK
<1>3. ASSUME NEW c \in Callers, Receive(c) \/ ReceiveClosed(c) PROVE LeaversAreNotWaitedFor'
  <2>1. mine[c] \notin pending
    BY <1>0, <1>3 DEF Receive, ReceiveClosed, IInv, EntriesAreArmed, Armed
  <2> QED
    BY <1>0, <1>3, <2>1 DEF Receive, ReceiveClosed, TypeOK
<1>4. ASSUME NEW c \in Callers, Emit(c) \/ Number(c) \/ Forget(c) PROVE LeaversAreNotWaitedFor'
  BY <1>0, <1>4 DEF Emit, Number, Forget, TypeOK
<1>5. CASE (pending' \subseteq pending) /\ UNCHANGED <<asked, pc, mine>>
  BY <1>5
<1> QED
  BY <1>1, <1>2, <1>3, <1>4, <1>5
     DEF Next, CallerStep, EmitRefused, Deliver, HandOver, Shutdown, Clear, vars

LEMMA RInvStep == RInv /\ [Next]_vars => RInv'
BY InvStep, SlotsStep, ClosedStep, AskedStep, LeaversStep DEF RInv

-----------------------------------------------------------------------------
(* The simulation, one step for each action of Emitter *)

LEMMA InitMaps == Init => Promise!Init
<1> SUFFICES ASSUME Init PROVE Promise!Init
  OBVIOUS
<1>1. numbersUsed = {}
  BY NumbersAreNat DEF Init, numbersUsed, Numbers
<1>2. asking = [c \in Callers |-> None] /\ answersTaken = {} /\ answered = [c \in Callers |-> None]
  BY DEF Init, asking, answersTaken, answered, Refusal
<1> QED
  BY <1>1, <1>2 DEF Init, Promise!Init

\* A step of a caller changes what it asks and nobody else's.
LEMMA AskingOfOneCaller ==
  ASSUME TypeOK, NEW c \in Callers, NEW phase, pc' = [pc EXCEPT ![c] = phase], UNCHANGED mine
  PROVE  asking' = [asking EXCEPT ![c] =
                      IF phase \in {"numbered", "registered", "waiting"} THEN mine[c] ELSE None]
BY DEF TypeOK, asking

LEMMA RefusalsAreNotAnswers ==
  ASSUME TypeOK, NEW c \in Callers, NEW n, result' = [result EXCEPT ![c] = Refusal(n)]
  PROVE  answered' = [answered EXCEPT ![c] = None]
BY DEF TypeOK, answered, Refusal

LEMMA NumberMaps == ASSUME RInv, NEW c \in Callers, Number(c) PROVE Promise!Ask(c)
<1>0. TypeOK /\ seq \in Nat
  BY NumbersAreNat DEF RInv, IInv, TInv, TypeOK
<1>1. asking[c] = None
  BY DEF Number, asking
<1>2. seq + 2 \in Numbers \ numbersUsed
  BY <1>0 DEF Number, numbersUsed
<1>3. numbersUsed' = numbersUsed \cup {seq + 2}
  <2>1. seq % 2 = 0
    BY <1>0 DEF TypeOK, Numbers
  <2>2. ASSUME NEW n \in Numbers PROVE n <= seq + 2 <=> (n <= seq \/ n = seq + 2)
    BY <1>0, <2>1 DEF Numbers
  <2> QED
    BY <2>2, <1>2 DEF Number, numbersUsed
<1>4. asking' = [asking EXCEPT ![c] = seq + 2]
  BY <1>0 DEF Number, asking, TypeOK
<1>5. UNCHANGED <<asked, answersTaken, closed, answered>>
  BY DEF Number, answersTaken, answered
<1> QED
  BY <1>1, <1>2, <1>3, <1>4, <1>5 DEF Promise!Ask

\* The three ways a call fails: refused by expect, by the connection, by shutdown.
LEMMA FailureMaps ==
  ASSUME RInv, NEW c \in Callers, pc[c] \in {"numbered", "registered", "waiting"},
         mine[c] \notin asked \/ (closed /\ ~Promise!Answered(mine[c])),
         NEW phase \in {"idle", "leaving"}, pc' = [pc EXCEPT ![c] = phase],
         result' = [result EXCEPT ![c] = Refusal(mine[c])],
         UNCHANGED <<seq, mine, asked, handing, buffer, closed>>
  PROVE  Promise!Fail(c)
<1>0. TypeOK
  BY DEF RInv, IInv, TInv
<1>1. asking[c] = mine[c] /\ asking[c] # None
  <2>1. mine[c] \in Numbers
    BY CallersHoldNumbers DEF RInv
  <2> QED
    BY <2>1, EmitterAssumption DEF asking
<1>2. asking' = [asking EXCEPT ![c] = None]
  BY <1>0, AskingOfOneCaller
<1>3. answered' = [answered EXCEPT ![c] = None]
  BY <1>0, RefusalsAreNotAnswers
<1>4. UNCHANGED <<numbersUsed, asked, answersTaken, closed>>
  BY DEF numbersUsed, answersTaken
<1> QED
  BY <1>1, <1>2, <1>3, <1>4 DEF Promise!Fail

LEMMA ExpectMaps ==
  ASSUME RInv, NEW c \in Callers, Expect(c) PROVE Promise!Fail(c) \/ UNCHANGED Promise!vars
<1>0. TypeOK
  BY DEF RInv, IInv, TInv
<1>1. CASE closed
  <2>1. mine[c] \notin asked
    BY DEF RInv, AskedWasRegistered, Expect
  <2> QED
    BY <1>1, <2>1, FailureMaps DEF Expect
<1>2. CASE ~closed
  <2>1. asking' = asking
    BY <1>0, <1>2 DEF Expect, asking, TypeOK
  <2> QED
    BY <1>2, <2>1 DEF Expect, Promise!vars, numbersUsed, answersTaken, answered
<1> QED
  BY <1>1, <1>2

LEMMA SendMaps == ASSUME RInv, NEW c \in Callers, Send(c) PROVE Promise!Send(c)
<1>0. TypeOK
  BY DEF RInv, IInv, TInv
<1>1. mine[c] \in Numbers
  BY CallersHoldNumbers DEF RInv, Send
<1>2. asking[c] = mine[c] /\ asking[c] # None
  BY <1>1, EmitterAssumption DEF asking, Send
<1>3. asking' = asking
  BY <1>0 DEF Send, asking, TypeOK
<1> QED
  BY <1>2, <1>3 DEF Send, Promise!Send, numbersUsed, answersTaken, answered

LEMMA SendFailsMaps == ASSUME RInv, NEW c \in Callers, SendFails(c) PROVE Promise!Fail(c)
<1>1. mine[c] \notin asked
  BY DEF RInv, AskedWasRegistered, SendFails
<1> QED
  BY <1>1, FailureMaps DEF SendFails

\* Nothing else holds the answer the caller reads, so reading it takes it away.
LEMMA ReceiveMaps == ASSUME RInv, NEW c \in Callers, Receive(c) PROVE Promise!Return(c)
<1> DEFINE a == buffer[mine[c]]
<1>0. TypeOK /\ mine[c] \in Numbers /\ a # None
  BY CallersHoldNumbers DEF RInv, IInv, TInv, Receive
<1>1. a \in Answers /\ a.about = mine[c]
  BY <1>0 DEF RInv, SlotsHoldTheirOwn, TypeOK
<1>2. asking[c] = mine[c]
  BY DEF asking, Receive
<1>3. a \in answersTaken
  BY <1>0 DEF answersTaken
<1>4. answersTaken' = answersTaken \ {a}
  <2>1. handing # a
    BY <1>0, <1>1 DEF RInv, IInv, HandoffNeverBlocks
  <2>2. \A n \in Numbers \ {mine[c]} : buffer[n] # a
    BY <1>0, <1>1 DEF RInv, SlotsHoldTheirOwn
  <2>3. /\ handing' = handing
        /\ \A n \in Numbers : buffer'[n] = IF n = mine[c] THEN None ELSE buffer[n]
    BY <1>0 DEF Receive, TypeOK
  <2> QED
    BY <1>0, <2>1, <2>2, <2>3 DEF answersTaken
<1>5. asking' = [asking EXCEPT ![c] = None]
  BY <1>0, AskingOfOneCaller DEF Receive
<1>6. answered' = [answered EXCEPT ![c] = a]
  BY <1>0 DEF Receive, Outcome, answered, TypeOK
<1> QED
  BY <1>1, <1>2, <1>3, <1>4, <1>5, <1>6 DEF Promise!Return, Receive, numbersUsed

LEMMA ReceiveClosedMaps ==
  ASSUME RInv, NEW c \in Callers, ReceiveClosed(c) PROVE Promise!Fail(c)
<1>0. mine[c] \in Numbers
  BY CallersHoldNumbers DEF RInv, ReceiveClosed
<1>1. closed
  BY <1>0 DEF RInv, ClosedWithTheEmitter, ReceiveClosed
<1>2. handing # None => handing.about # mine[c]
  BY DEF RInv, IInv, HandoffNeverBlocks, ReceiveClosed
<1>3. \A n \in Numbers : buffer[n] # None => buffer[n].about # mine[c]
  BY DEF RInv, SlotsHoldTheirOwn, ReceiveClosed
<1>4. ~Promise!Answered(mine[c])
  BY <1>2, <1>3 DEF Promise!Answered, answersTaken
<1> QED
  BY <1>1, <1>4, FailureMaps DEF ReceiveClosed

LEMMA DeliverMaps ==
  ASSUME RInv, NEW a \in Answers, Deliver(a) PROVE Promise!Take(a) \/ UNCHANGED Promise!vars
<1>0. TypeOK /\ a # None /\ a.about \in Numbers
  BY AnswersAreAnswers DEF RInv, IInv, TInv
<1>1. CASE a.about \in pending
  <2>1. ~closed
    BY <1>1 DEF RInv, IInv, ParkedCallerIsReachable
  <2>2. \E c \in Callers : asking[c] = a.about
    <3>1. PICK c \in Callers : mine[c] = a.about /\ pc[c] \notin {"idle", "admitted"}
      BY <1>1 DEF RInv, IInv, NoEntryOutlivesItsCall
    <3>2. pc[c] # "leaving"
      BY <1>1, <3>1 DEF RInv, LeaversAreNotWaitedFor, Deliver
    <3> QED
      BY <1>0, <3>1, <3>2 DEF asking, TypeOK, Phases
  <2>3. ~Promise!Answered(a.about)
    BY <1>1, <1>0 DEF Promise!Answered, answersTaken, RInv, IInv, EntriesAreArmed, Armed,
       SlotsHoldTheirOwn, Deliver
  <2>4. answersTaken' = answersTaken \cup {a}
    BY <1>0, <1>1 DEF Deliver, answersTaken
  <2> QED
    BY <2>1, <2>2, <2>3, <2>4 DEF Deliver, Promise!Take, numbersUsed, asking, answered
<1>2. CASE a.about \notin pending
  BY <1>2 DEF Deliver, Promise!vars, numbersUsed, asking, answersTaken, answered
<1> QED
  BY <1>1, <1>2

LEMMA HandOverMaps == ASSUME RInv, HandOver PROVE UNCHANGED Promise!vars
<1>0. TypeOK /\ handing.about \in Numbers
  BY AnswersAreAnswers DEF RInv, IInv, TInv, TypeOK, HandOver
<1>1. \A n \in Numbers : buffer'[n] = IF n = handing.about THEN handing ELSE buffer[n]
  BY <1>0 DEF HandOver, TypeOK
<1>2. answersTaken' = answersTaken
  BY <1>0, <1>1 DEF HandOver, answersTaken
<1> QED
  BY <1>2 DEF HandOver, Promise!vars, numbersUsed, asking, answered

\* Every step of the emitter is a step of the exchange or leaves it alone.
LEMMA StepMaps == RInv /\ [Next]_vars => [Promise!Next]_Promise!vars
<1> SUFFICES ASSUME RInv, [Next]_vars PROVE [Promise!Next]_Promise!vars
  OBVIOUS
<1>0. TypeOK
  BY DEF RInv, IInv, TInv
<1>1. ASSUME NEW c \in Callers, EmitRefused(c) PROVE Promise!Refuse(c)
  <2>1. asking[c] = None
    BY <1>1 DEF EmitRefused, asking
  <2>2. answered' = [answered EXCEPT ![c] = None]
    BY <1>0, <1>1, RefusalsAreNotAnswers DEF EmitRefused
  <2> QED
    BY <1>1, <2>1, <2>2 DEF EmitRefused, Promise!Refuse, numbersUsed, asking, answersTaken
<1>2. ASSUME NEW c \in Callers, Emit(c) \/ Forget(c) PROVE UNCHANGED Promise!vars
  <2>1. asking' = asking
    BY <1>0, <1>2 DEF Emit, Forget, asking, TypeOK
  <2> QED
    BY <1>2, <2>1 DEF Emit, Forget, Promise!vars, numbersUsed, answersTaken, answered
<1>3. ASSUME NEW c \in Callers, CallerStep(c) PROVE [Promise!Next]_Promise!vars
  BY <1>2, <1>3, NumberMaps, ExpectMaps, SendMaps, SendFailsMaps, ReceiveMaps, ReceiveClosedMaps
     DEF CallerStep, Promise!Next
<1>4. ASSUME NEW a \in Answers, Deliver(a) PROVE [Promise!Next]_Promise!vars
  BY <1>4, DeliverMaps DEF Promise!Next
<1>5. CASE HandOver
  BY <1>5, HandOverMaps
<1>6. CASE Shutdown
  BY <1>6 DEF Shutdown, Promise!Next, Promise!End, numbersUsed, asking, answersTaken, answered
<1>7. CASE Clear \/ UNCHANGED vars
  BY <1>7 DEF Clear, vars, Promise!vars, numbersUsed, asking, answersTaken, answered
<1> QED
  BY <1>1, <1>2, <1>3, <1>4, <1>5, <1>6, <1>7 DEF Next, Promise!Next

\* The emitter implements the exchange: every behaviour of its table, channels
\* and mutex is one in which each caller gets its own first answer, or an error
\* that means there is none (emit.go:108-113, 145-147, 155-159). The liveness
\* of the exchange is checked by TLC.
THEOREM EmitterImplementsExchange == Spec => Promise!Safety
<1>1. Spec => []RInv
  BY RInvInit, RInvStep, PTL DEF Spec
<1> QED
  BY <1>1, InitMaps, StepMaps, PTL DEF Spec, Promise!Safety
=============================================================================
