--------------------------- MODULE EmitterProofs ---------------------------
(***************************************************************************)
(* Emitter.tla for every set of callers and every bound on the numbers.    *)
(*                                                                         *)
(* None of the safety properties is inductive alone.  A number is followed *)
(* through its life instead: not handed out yet or only just taken         *)
(* (Untouched), registered (its channel open and its slot empty), taken by *)
(* deliver (still open, still empty, no longer registered).  IInv says     *)
(* that of every number, and that callers own disjoint numbers.            *)
(***************************************************************************)
EXTENDS Emitter, TLAPS

Handed(n) == handing # None /\ handing.about = n

Untouched(n) ==
  n \notin pending /\ chan[n] = "absent" /\ buffer[n] = None /\ ~Handed(n)

Armed(n) == chan[n] = "open" /\ buffer[n] = None

CallersAreNumbered ==
  \A c \in Callers : pc[c] \notin {"idle", "admitted"} => mine[c] # 0

NumbersWereTaken == \A c \in Callers : mine[c] <= seq

NumbersAreFresh ==
  /\ \A n \in Numbers : n > seq => Untouched(n)
  /\ \A c \in Callers : pc[c] = "numbered" => Untouched(mine[c])

EntriesAreArmed == \A n \in pending : Armed(n) /\ ~Handed(n)

RegisteredIsReachable ==
  \A c \in Callers : pc[c] = "registered" => Reachable(mine[c])

LEMMA NumbersAreNat == 0 \notin Numbers /\ \A n \in Numbers \cup {0} : n \in Nat
  BY EmitterAssumption DEF Numbers

LEMMA AnswersAreAnswers == \A answer \in Answers : answer # None /\ answer.about \in Numbers
  BY EmitterAssumption DEF Answers

-----------------------------------------------------------------------------
(* Type correctness, which needs that a caller past Number holds a number *)

LEMMA RefusalsAreResults == \A n \in Numbers \cup {0} : Refusal(n) \in Results
  BY DEF Refusal, Results

LEMMA OutcomesAreResults == \A answer \in Answers : Outcome(answer) \in Results
  BY DEF Outcome, Results, Answers

TInv == TypeOK /\ CallersAreNumbered

LEMMA TypeInit == Init => TInv
<1> SUFFICES ASSUME Init PROVE TInv
  OBVIOUS
<1>1. result \in [Callers -> Results]
  BY RefusalsAreResults DEF Init
<1>2. TypeOK
  BY <1>1, NumbersAreNat DEF Init, TypeOK, Phases
<1>3. CallersAreNumbered
  BY DEF Init, CallersAreNumbered
<1> QED
  BY <1>2, <1>3 DEF TInv

LEMMA TypeStep == TInv /\ [Next]_vars => TInv'
<1> SUFFICES ASSUME TInv, [Next]_vars PROVE TInv'
  OBVIOUS
<1> USE NumbersAreNat, RefusalsAreResults, OutcomesAreResults
    DEF TInv, TypeOK, CallersAreNumbered, Phases
<1>1. ASSUME NEW c \in Callers, EmitRefused(c) PROVE TInv'
  BY <1>1 DEF EmitRefused
<1>2. ASSUME NEW c \in Callers, Emit(c) PROVE TInv'
  BY <1>2 DEF Emit
<1>3. ASSUME NEW c \in Callers, Number(c) PROVE TInv'
  BY <1>3 DEF Number
<1>4. ASSUME NEW c \in Callers, Expect(c) PROVE TInv'
  <2>0. mine[c] \in Numbers
    BY <1>4 DEF Expect
  <2>1. CASE closed
    <3>1. Refusal(mine[c]) \in Results
      BY <2>0
    <3> QED
      BY <1>4, <2>1, <3>1 DEF Expect
  <2>2. CASE ~closed
    <3>1. pending' \subseteq Numbers /\ chan' \in [Numbers -> {"absent", "open", "closed"}]
      <4>1. pending' = pending \cup {mine[c]} /\ chan' = [chan EXCEPT ![mine[c]] = "open"]
        BY <1>4, <2>2 DEF Expect
      <4> QED
        BY <2>0, <4>1
    <3>2. pc' \in [Callers -> Phases] /\ CallersAreNumbered'
      BY <1>4, <2>0, <2>2 DEF Expect
    <3> QED
      BY <1>4, <2>2, <3>1, <3>2 DEF Expect
  <2> QED
    BY <2>1, <2>2
<1>5. ASSUME NEW c \in Callers, Send(c) PROVE TInv'
  BY <1>5 DEF Send
<1>6. ASSUME NEW c \in Callers, SendFails(c) PROVE TInv'
  BY <1>6 DEF SendFails
<1>7. ASSUME NEW c \in Callers, Receive(c) PROVE TInv'
  BY <1>7 DEF Receive
<1>8. ASSUME NEW c \in Callers, ReceiveClosed(c) PROVE TInv'
  BY <1>8 DEF ReceiveClosed
<1>9. ASSUME NEW c \in Callers, Forget(c) PROVE TInv'
  BY <1>9 DEF Forget
<1>10. ASSUME NEW answer \in Answers, Deliver(answer) PROVE TInv'
  BY <1>10 DEF Deliver
<1>11. CASE HandOver
  BY <1>11, AnswersAreAnswers DEF HandOver
<1>12. CASE Shutdown
  BY <1>12 DEF Shutdown
<1>13. CASE Clear
  BY <1>13 DEF Clear
<1>14. CASE UNCHANGED vars
  BY <1>14 DEF vars
<1> QED
  BY <1>1, <1>2, <1>3, <1>4, <1>5, <1>6, <1>7, <1>8, <1>9, <1>10, <1>11, <1>12, <1>13,
     <1>14 DEF Next, CallerStep

\* The state of emit.go has the shape its declarations give it (lines 114-121).
THEOREM TypeCorrect == Spec => []TypeOK
<1>1. TInv => TypeOK
  BY DEF TInv
<1> QED
  BY <1>1, TypeInit, TypeStep, PTL DEF Spec

-----------------------------------------------------------------------------
(* The inductive invariant *)

IInv ==
  /\ TInv
  /\ NumbersWereTaken
  /\ NumbersAreNeverShared
  /\ NumbersAreFresh
  /\ EntriesAreArmed
  /\ HandoffNeverBlocks
  /\ NoEntryOutlivesItsCall
  /\ RegisteredIsReachable
  /\ ParkedCallerIsReachable

LEMMA InvInit == Init => IInv
<1> SUFFICES ASSUME Init PROVE IInv
  OBVIOUS
<1>1. TInv
  BY TypeInit
<1>2. NumbersWereTaken /\ NumbersAreNeverShared /\ EntriesAreArmed /\ HandoffNeverBlocks
  BY DEF Init, NumbersWereTaken, NumbersAreNeverShared, EntriesAreArmed, HandoffNeverBlocks
<1>3. NumbersAreFresh
  BY DEF Init, NumbersAreFresh, Untouched, Handed
<1>4. NoEntryOutlivesItsCall /\ RegisteredIsReachable /\ ParkedCallerIsReachable
  BY DEF Init, NoEntryOutlivesItsCall, RegisteredIsReachable, ParkedCallerIsReachable
<1> QED
  BY <1>1, <1>2, <1>3, <1>4 DEF IInv

LEMMA InvStep == IInv /\ [Next]_vars => IInv'
<1> SUFFICES ASSUME IInv, [Next]_vars PROVE IInv'
  OBVIOUS
<1> USE NumbersAreNat, AnswersAreAnswers
<1> USE DEF IInv, TInv, TypeOK, CallersAreNumbered
<1>0. TInv'
  BY TypeStep
<1>1. ASSUME NEW c \in Callers, EmitRefused(c) PROVE IInv'
  BY <1>0, <1>1 DEF EmitRefused, NumbersWereTaken, NumbersAreNeverShared, NumbersAreFresh, Untouched, Handed,
     EntriesAreArmed, Armed, HandoffNeverBlocks, NoEntryOutlivesItsCall, RegisteredIsReachable,
     ParkedCallerIsReachable, Reachable
<1>2. ASSUME NEW c \in Callers, Emit(c) PROVE IInv'
  <2>1. NumbersWereTaken' /\ NumbersAreNeverShared'
    BY <1>0, <1>2 DEF Emit, NumbersWereTaken, NumbersAreNeverShared
  <2>2. NumbersAreFresh'
    BY <1>0, <1>2 DEF Emit, NumbersAreFresh, Untouched, Handed, NumbersWereTaken, NumbersAreNeverShared
  <2>3. EntriesAreArmed' /\ HandoffNeverBlocks'
    BY <1>0, <1>2 DEF Emit, EntriesAreArmed, Armed, Handed, HandoffNeverBlocks, NumbersAreFresh, Untouched
  <2>4. NoEntryOutlivesItsCall'
    BY <1>0, <1>2 DEF Emit, NoEntryOutlivesItsCall, NumbersAreNeverShared
  <2>5. RegisteredIsReachable' /\ ParkedCallerIsReachable'
    BY <1>0, <1>2 DEF Emit, RegisteredIsReachable, ParkedCallerIsReachable, Reachable, NumbersAreNeverShared, NumbersAreFresh, Untouched, Handed
  <2> QED
    BY <1>0, <2>1, <2>2, <2>3, <2>4, <2>5
<1>3. ASSUME NEW c \in Callers, Number(c) PROVE IInv'
  <2> seq \in Nat
    OBVIOUS
  <2> \A d \in Callers : mine[d] \in Nat
    <3> TAKE d \in Callers
    <3>1. mine[d] \in Numbers \cup {0}
      OBVIOUS
    <3> QED
      BY <3>1, NumbersAreNat
  <2>0. \A d \in Callers : mine[d] < seq + 2
    BY DEF NumbersWereTaken
  <2>1. NumbersWereTaken' /\ NumbersAreNeverShared'
    <3>1. NumbersWereTaken'
      <4>1. \A d \in Callers : mine'[d] = IF d = c THEN seq + 2 ELSE mine[d]
        BY <1>3 DEF Number
      <4> QED
        BY <1>3, <2>0, <4>1 DEF Number, NumbersWereTaken
    <3>2. ASSUME NEW d \in Callers, d # c PROVE mine'[c] # mine[d] /\ mine'[d] = mine[d]
      BY <1>3, <2>0, <3>2 DEF Number
    <3>3. NumbersAreNeverShared'
      BY <1>3, <3>2 DEF Number, NumbersAreNeverShared
    <3> QED
      BY <3>1, <3>3
  <2>2. NumbersAreFresh'
    BY <1>0, <1>3 DEF Number, NumbersAreFresh, Untouched, Handed, NumbersWereTaken, NumbersAreNeverShared
  <2>3. EntriesAreArmed' /\ HandoffNeverBlocks'
    BY <1>0, <1>3 DEF Number, EntriesAreArmed, Armed, Handed, HandoffNeverBlocks, NumbersAreFresh, Untouched
  <2>4. NoEntryOutlivesItsCall'
    BY <1>0, <1>3 DEF Number, NoEntryOutlivesItsCall, NumbersAreNeverShared
  <2>5. RegisteredIsReachable' /\ ParkedCallerIsReachable'
    BY <1>0, <1>3 DEF Number, RegisteredIsReachable, ParkedCallerIsReachable, Reachable, NumbersAreNeverShared, NumbersAreFresh, Untouched, Handed
  <2> QED
    BY <1>0, <2>1, <2>2, <2>3, <2>4, <2>5
<1>4. ASSUME NEW c \in Callers, Expect(c) PROVE IInv'
  <2>0. mine[c] \in Numbers /\ Untouched(mine[c]) /\ \A d \in Callers \ {c} : mine[d] # mine[c]
    BY <1>4 DEF Expect, NumbersAreFresh, NumbersAreNeverShared
  <2>1. CASE closed
    <3>1. NumbersWereTaken' /\ NumbersAreNeverShared'
      BY <1>0, <1>4, <2>0, <2>1 DEF Expect, NumbersWereTaken, NumbersAreNeverShared
    <3>2. NumbersAreFresh'
      BY <1>0, <1>4, <2>0, <2>1 DEF Expect, NumbersAreFresh, Untouched, Handed, NumbersWereTaken, NumbersAreNeverShared
    <3>3. EntriesAreArmed' /\ HandoffNeverBlocks'
      BY <1>0, <1>4, <2>0, <2>1 DEF Expect, EntriesAreArmed, Armed, Handed, HandoffNeverBlocks, NumbersAreFresh, Untouched
    <3>4. NoEntryOutlivesItsCall'
      BY <1>0, <1>4, <2>0, <2>1 DEF Expect, NoEntryOutlivesItsCall, Untouched
    <3>5. RegisteredIsReachable' /\ ParkedCallerIsReachable'
      BY <1>0, <1>4, <2>0, <2>1 DEF Expect, RegisteredIsReachable, ParkedCallerIsReachable, Reachable, NumbersAreNeverShared, NumbersAreFresh, Untouched, Handed
    <3> QED
      BY <1>0, <3>1, <3>2, <3>3, <3>4, <3>5
  <2>2. CASE ~closed
    <3>0. /\ pending' = pending \cup {mine[c]}
          /\ \A n \in Numbers : chan'[n] = IF n = mine[c] THEN "open" ELSE chan[n]
          /\ \A d \in Callers : pc'[d] = IF d = c THEN "registered" ELSE pc[d]
          /\ UNCHANGED <<seq, closed, buffer, handing, asked, active, mine>>
      BY <1>4, <2>2 DEF Expect
    <3>1. NumbersWereTaken' /\ NumbersAreNeverShared'
      BY <1>0, <2>0, <2>2, <3>0 DEF NumbersWereTaken, NumbersAreNeverShared
    <3>2. NumbersAreFresh'
      <4>1. ASSUME NEW n \in Numbers, n # mine[c], Untouched(n) PROVE Untouched(n)'
        BY <3>0, <4>1 DEF Untouched, Handed
      <4>2. ASSUME NEW n \in Numbers, n > seq' PROVE Untouched(n)'
        <5>1. n # mine[c] /\ n > seq
          BY <3>0, <4>2 DEF NumbersWereTaken
        <5> QED
          BY <4>1, <5>1 DEF NumbersAreFresh
      <4>3. ASSUME NEW d \in Callers, pc'[d] = "numbered" PROVE Untouched(mine[d])'
        <5>1. d # c /\ pc[d] = "numbered" /\ mine[d] \in Numbers
          BY <3>0, <4>3
        <5>2. mine[d] # mine[c] /\ Untouched(mine[d])
          BY <2>0, <5>1 DEF NumbersAreFresh
        <5> QED
          BY <3>0, <5>1, <5>2 DEF Untouched, Handed
      <4> QED
        BY <3>0, <4>2, <4>3 DEF NumbersAreFresh, Untouched, Handed
    <3>3. EntriesAreArmed' /\ HandoffNeverBlocks'
      BY <1>0, <2>0, <2>2, <3>0 DEF EntriesAreArmed, Armed, Handed, HandoffNeverBlocks, NumbersAreFresh, Untouched
    <3>4. NoEntryOutlivesItsCall'
      BY <1>0, <2>0, <2>2, <3>0 DEF NoEntryOutlivesItsCall, Untouched
    <3>5. RegisteredIsReachable' /\ ParkedCallerIsReachable'
      <4>1. \A d \in Callers : d # c /\ pc[d] \in {"registered", "waiting"}
                                => mine[d] \in Numbers \ {mine[c]} /\ Reachable(mine[d])
        BY <2>0 DEF RegisteredIsReachable, ParkedCallerIsReachable
      <4>2. \A n \in Numbers \ {mine[c]} : Reachable(n) => Reachable(n)'
        BY <3>0 DEF Reachable
      <4>3. Reachable(mine[c])'
        BY <3>0 DEF Reachable
      <4> QED
        BY <2>2, <3>0, <4>1, <4>2, <4>3
           DEF RegisteredIsReachable, ParkedCallerIsReachable, Reachable
    <3> QED
      BY <1>0, <3>1, <3>2, <3>3, <3>4, <3>5
  <2> QED
    BY <2>1, <2>2
<1>5. ASSUME NEW c \in Callers, Send(c) PROVE IInv'
  <2>1. NumbersWereTaken' /\ NumbersAreNeverShared'
    BY <1>0, <1>5 DEF Send, NumbersWereTaken, NumbersAreNeverShared
  <2>2. NumbersAreFresh'
    BY <1>0, <1>5 DEF Send, NumbersAreFresh, Untouched, Handed, NumbersWereTaken, NumbersAreNeverShared
  <2>3. EntriesAreArmed' /\ HandoffNeverBlocks'
    BY <1>0, <1>5 DEF Send, EntriesAreArmed, Armed, Handed, HandoffNeverBlocks, NumbersAreFresh, Untouched
  <2>4. NoEntryOutlivesItsCall'
    BY <1>0, <1>5 DEF Send, NoEntryOutlivesItsCall, NumbersAreNeverShared
  <2>5. RegisteredIsReachable' /\ ParkedCallerIsReachable'
    BY <1>0, <1>5 DEF Send, RegisteredIsReachable, ParkedCallerIsReachable, Reachable, NumbersAreNeverShared, NumbersAreFresh, Untouched, Handed
  <2> QED
    BY <1>0, <2>1, <2>2, <2>3, <2>4, <2>5
<1>6. ASSUME NEW c \in Callers, SendFails(c) PROVE IInv'
  <2>1. NumbersWereTaken' /\ NumbersAreNeverShared'
    BY <1>0, <1>6 DEF SendFails, NumbersWereTaken, NumbersAreNeverShared
  <2>2. NumbersAreFresh'
    BY <1>0, <1>6 DEF SendFails, NumbersAreFresh, Untouched, Handed, NumbersWereTaken, NumbersAreNeverShared
  <2>3. EntriesAreArmed' /\ HandoffNeverBlocks'
    BY <1>0, <1>6 DEF SendFails, EntriesAreArmed, Armed, Handed, HandoffNeverBlocks, NumbersAreFresh, Untouched
  <2>4. NoEntryOutlivesItsCall'
    BY <1>0, <1>6 DEF SendFails, NoEntryOutlivesItsCall, NumbersAreNeverShared
  <2>5. RegisteredIsReachable' /\ ParkedCallerIsReachable'
    BY <1>0, <1>6 DEF SendFails, RegisteredIsReachable, ParkedCallerIsReachable, Reachable, NumbersAreNeverShared, NumbersAreFresh, Untouched, Handed
  <2> QED
    BY <1>0, <2>1, <2>2, <2>3, <2>4, <2>5
<1>7. ASSUME NEW c \in Callers, Receive(c) PROVE IInv'
  <2>1. NumbersWereTaken' /\ NumbersAreNeverShared'
    BY <1>0, <1>7 DEF Receive, NumbersWereTaken, NumbersAreNeverShared
  <2>2. NumbersAreFresh'
    BY <1>0, <1>7 DEF Receive, NumbersAreFresh, Untouched, Handed, NumbersWereTaken, NumbersAreNeverShared
  <2>3. EntriesAreArmed' /\ HandoffNeverBlocks'
    BY <1>0, <1>7 DEF Receive, EntriesAreArmed, Armed, Handed, HandoffNeverBlocks, NumbersAreFresh, Untouched
  <2>4. NoEntryOutlivesItsCall'
    BY <1>0, <1>7 DEF Receive, NoEntryOutlivesItsCall, NumbersAreNeverShared
  <2>5. RegisteredIsReachable' /\ ParkedCallerIsReachable'
    BY <1>0, <1>7 DEF Receive, RegisteredIsReachable, ParkedCallerIsReachable, Reachable, NumbersAreNeverShared, NumbersAreFresh, Untouched, Handed
  <2> QED
    BY <1>0, <2>1, <2>2, <2>3, <2>4, <2>5
<1>8. ASSUME NEW c \in Callers, ReceiveClosed(c) PROVE IInv'
  <2>1. NumbersWereTaken' /\ NumbersAreNeverShared'
    BY <1>0, <1>8 DEF ReceiveClosed, NumbersWereTaken, NumbersAreNeverShared
  <2>2. NumbersAreFresh'
    BY <1>0, <1>8 DEF ReceiveClosed, NumbersAreFresh, Untouched, Handed, NumbersWereTaken, NumbersAreNeverShared
  <2>3. EntriesAreArmed' /\ HandoffNeverBlocks'
    BY <1>0, <1>8 DEF ReceiveClosed, EntriesAreArmed, Armed, Handed, HandoffNeverBlocks, NumbersAreFresh, Untouched
  <2>4. NoEntryOutlivesItsCall'
    BY <1>0, <1>8 DEF ReceiveClosed, NoEntryOutlivesItsCall, NumbersAreNeverShared
  <2>5. RegisteredIsReachable' /\ ParkedCallerIsReachable'
    BY <1>0, <1>8 DEF ReceiveClosed, RegisteredIsReachable, ParkedCallerIsReachable, Reachable, NumbersAreNeverShared, NumbersAreFresh, Untouched, Handed
  <2> QED
    BY <1>0, <2>1, <2>2, <2>3, <2>4, <2>5
<1>9. ASSUME NEW c \in Callers, Forget(c) PROVE IInv'
  <2>1. NumbersWereTaken' /\ NumbersAreNeverShared'
    BY <1>0, <1>9 DEF Forget, NumbersWereTaken, NumbersAreNeverShared
  <2>2. NumbersAreFresh'
    BY <1>0, <1>9 DEF Forget, NumbersAreFresh, Untouched, Handed, NumbersWereTaken, NumbersAreNeverShared
  <2>3. EntriesAreArmed' /\ HandoffNeverBlocks'
    BY <1>0, <1>9 DEF Forget, EntriesAreArmed, Armed, Handed, HandoffNeverBlocks, NumbersAreFresh, Untouched
  <2>4. NoEntryOutlivesItsCall'
    BY <1>0, <1>9 DEF Forget, NoEntryOutlivesItsCall, NumbersAreNeverShared
  <2>5. RegisteredIsReachable' /\ ParkedCallerIsReachable'
    BY <1>0, <1>9 DEF Forget, RegisteredIsReachable, ParkedCallerIsReachable, Reachable, NumbersAreNeverShared, NumbersAreFresh, Untouched, Handed
  <2> QED
    BY <1>0, <2>1, <2>2, <2>3, <2>4, <2>5
<1>10. ASSUME NEW answer \in Answers, Deliver(answer) PROVE IInv'
  <2>1. NumbersWereTaken' /\ NumbersAreNeverShared'
    BY <1>0, <1>10 DEF Deliver, NumbersWereTaken, NumbersAreNeverShared
  <2>2. NumbersAreFresh'
    BY <1>0, <1>10 DEF Deliver, NumbersAreFresh, Untouched, Handed, NumbersWereTaken, NumbersAreNeverShared
  <2>3. EntriesAreArmed' /\ HandoffNeverBlocks'
    BY <1>0, <1>10 DEF Deliver, EntriesAreArmed, Armed, Handed, HandoffNeverBlocks, NumbersAreFresh, Untouched
  <2>4. NoEntryOutlivesItsCall'
    BY <1>0, <1>10 DEF Deliver, NoEntryOutlivesItsCall, NumbersAreNeverShared
  <2>5. RegisteredIsReachable' /\ ParkedCallerIsReachable'
    BY <1>0, <1>10 DEF Deliver, RegisteredIsReachable, ParkedCallerIsReachable, Reachable, NumbersAreNeverShared, NumbersAreFresh, Untouched, Handed
  <2> QED
    BY <1>0, <2>1, <2>2, <2>3, <2>4, <2>5
<1>11. CASE HandOver
  <2>1. NumbersWereTaken' /\ NumbersAreNeverShared'
    BY <1>0, <1>11 DEF HandOver, NumbersWereTaken, NumbersAreNeverShared
  <2>2. NumbersAreFresh'
    BY <1>0, <1>11 DEF HandOver, NumbersAreFresh, Untouched, Handed, NumbersWereTaken, NumbersAreNeverShared
  <2>3. EntriesAreArmed' /\ HandoffNeverBlocks'
    BY <1>0, <1>11 DEF HandOver, EntriesAreArmed, Armed, Handed, HandoffNeverBlocks, NumbersAreFresh, Untouched
  <2>4. NoEntryOutlivesItsCall'
    BY <1>0, <1>11 DEF HandOver, NoEntryOutlivesItsCall, NumbersAreNeverShared
  <2>5. RegisteredIsReachable' /\ ParkedCallerIsReachable'
    BY <1>0, <1>11 DEF HandOver, RegisteredIsReachable, ParkedCallerIsReachable, Reachable, NumbersAreNeverShared, NumbersAreFresh, Untouched, Handed
  <2> QED
    BY <1>0, <2>1, <2>2, <2>3, <2>4, <2>5
<1>12. CASE Shutdown
  <2>1. NumbersWereTaken' /\ NumbersAreNeverShared'
    BY <1>0, <1>12 DEF Shutdown, NumbersWereTaken, NumbersAreNeverShared
  <2>2. NumbersAreFresh'
    BY <1>0, <1>12 DEF Shutdown, NumbersAreFresh, Untouched, Handed, NumbersWereTaken, NumbersAreNeverShared
  <2>3. EntriesAreArmed' /\ HandoffNeverBlocks'
    BY <1>0, <1>12 DEF Shutdown, EntriesAreArmed, Armed, Handed, HandoffNeverBlocks, NumbersAreFresh, Untouched
  <2>4. NoEntryOutlivesItsCall'
    BY <1>0, <1>12 DEF Shutdown, NoEntryOutlivesItsCall, NumbersAreNeverShared
  <2>5. RegisteredIsReachable' /\ ParkedCallerIsReachable'
    BY <1>0, <1>12 DEF Shutdown, RegisteredIsReachable, ParkedCallerIsReachable, Reachable, NumbersAreNeverShared, NumbersAreFresh, Untouched, Handed
  <2> QED
    BY <1>0, <2>1, <2>2, <2>3, <2>4, <2>5
<1>13. CASE Clear
  BY <1>0, <1>13 DEF Clear, NumbersWereTaken, NumbersAreNeverShared, NumbersAreFresh, Untouched, Handed,
     EntriesAreArmed, Armed, HandoffNeverBlocks, NoEntryOutlivesItsCall, RegisteredIsReachable,
     ParkedCallerIsReachable, Reachable
<1>14. CASE UNCHANGED vars
  BY <1>14 DEF vars, NumbersWereTaken, NumbersAreNeverShared, NumbersAreFresh, Untouched, Handed,
     EntriesAreArmed, Armed, HandoffNeverBlocks, NoEntryOutlivesItsCall, RegisteredIsReachable,
     ParkedCallerIsReachable, Reachable
<1> QED
  BY <1>1, <1>2, <1>3, <1>4, <1>5, <1>6, <1>7, <1>8, <1>9, <1>10, <1>11, <1>12, <1>13,
     <1>14 DEF Next, CallerStep
-----------------------------------------------------------------------------
(* What follows from it *)

LEMMA Invariance == Spec => []IInv
  BY InvInit, InvStep, PTL DEF Spec

\* Two emissions never carry the same number (emit.go:108-113).
THEOREM NumbersDisjoint == Spec => []NumbersAreNeverShared
<1>1. IInv => NumbersAreNeverShared
  BY DEF IInv
<1> QED
  BY <1>1, Invariance, PTL

\* deliver's send finds an empty slot and an open channel (emit.go:155-169).
THEOREM DeliveryNeverBlocks == Spec => []HandoffNeverBlocks
<1>1. IInv => HandoffNeverBlocks
  BY DEF IInv
<1> QED
  BY <1>1, Invariance, PTL

\* Whoever is parked on an answer can be found by the answer or by shutdown
\* (emit.go:145-152, 173-184).
THEOREM ParkedIsReachable == Spec => []ParkedCallerIsReachable
<1>1. IInv => ParkedCallerIsReachable
  BY DEF IInv
<1> QED
  BY <1>1, Invariance, PTL

\* No path out of emit leaves its entry in the table (emit.go:140, 197-201).
THEOREM NoLeakedEntry == Spec => []NoEntryOutlivesItsCall
<1>1. IInv => NoEntryOutlivesItsCall
  BY DEF IInv
<1> QED
  BY <1>1, Invariance, PTL
=============================================================================
