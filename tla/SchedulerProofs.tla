-------------------------- MODULE SchedulerProofs --------------------------
(***************************************************************************)
(* Scheduler.tla for every number of tasks and every set of clients.       *)
(*                                                                         *)
(* That stop waits for everybody rests on two facts no line of the code    *)
(* states: the group's counter is the number of goroutines that have not   *)
(* finished (Counted), and the table holds exactly the tasks that have not *)
(* called remove (Owned).  StoppedIsQuiet and StopCoversEveryTask are      *)
(* inductive beside them.                                                  *)
(***************************************************************************)
EXTENDS Scheduler, FiniteSetTheorems, TLAPS

Numbered == \A t \in Tasks : pc[t] = "absent" <=> t > next

Counted == wait = Cardinality(Live)

Owned == cancels = {t \in Tasks : pc[t] \in {"selecting", "running", "leaving"}}

ActiveUntilStop == active <=> stopping = "no"

IInv ==
  /\ TypeOK
  /\ Numbered
  /\ Counted
  /\ Owned
  /\ ActiveUntilStop
  /\ StoppedIsQuiet
  /\ StopCoversEveryTask

LEMMA TasksAreFinite == IsFiniteSet(Tasks) /\ IsFiniteSet(Live) /\ \A t \in Tasks : t \in Nat \ {0}
<1>1. IsFiniteSet(Tasks) /\ \A t \in Tasks : t \in Nat \ {0}
  BY FS_Interval, SchedulerAssumption DEF Tasks
<1> QED
  BY <1>1, FS_Subset DEF Live

LEMMA NobodyIsCountedAsZero ==
  ASSUME TypeOK, Counted
  PROVE  wait = 0 <=> Live = {}
  BY FS_EmptySet, TasksAreFinite DEF Counted, TypeOK

\* What a step does to the goroutines that are left.
LEMMA LiveKept ==
  ASSUME Counted, Live' = Live, wait' = wait
  PROVE  Counted'
  BY DEF Counted

LEMMA LiveGrows ==
  ASSUME NEW t \in Tasks, Counted, t \notin Live, Live' = Live \cup {t}, wait' = wait + 1
  PROVE  Counted'
  BY FS_AddElement, TasksAreFinite DEF Counted

LEMMA LiveShrinks ==
  ASSUME NEW t \in Live, TypeOK, Counted, Live' = Live \ {t}, wait' = wait - 1
  PROVE  Counted' /\ wait' \in Nat
<1>1. Cardinality(Live') = Cardinality(Live) - 1
  BY FS_RemoveElement, TasksAreFinite
<1>2. Cardinality(Live \ {t}) \in Nat
  BY FS_CardinalityType, FS_Subset, TasksAreFinite
<1> QED
  BY <1>1, <1>2 DEF Counted

-----------------------------------------------------------------------------

LEMMA InvInit == Init => IInv
<1> SUFFICES ASSUME Init PROVE IInv
  OBVIOUS
<1>1. TypeOK
  BY DEF Init, TypeOK, Phases
<1>2. Numbered /\ Owned /\ ActiveUntilStop /\ StoppedIsQuiet /\ StopCoversEveryTask
  BY TasksAreFinite
     DEF Init, Numbered, Owned, ActiveUntilStop, StoppedIsQuiet, StopCoversEveryTask
<1>3. Counted
  BY FS_EmptySet DEF Init, Counted, Live
<1> QED
  BY <1>1, <1>2, <1>3 DEF IInv

LEMMA InvStep == IInv /\ [Next]_vars => IInv'
<1> SUFFICES ASSUME IInv, [Next]_vars PROVE IInv'
  OBVIOUS
<1> USE TasksAreFinite DEF IInv
<1>1. ASSUME NEW every \in BOOLEAN, Schedule(every) PROVE IInv'
  <2> DEFINE t == next + 1
  <2>1. t \in Tasks /\ pc[t] = "absent" /\ active /\ stopping = "no"
    BY <1>1 DEF Schedule, Numbered, TypeOK, ActiveUntilStop
  <2>2. TypeOK'
    BY <1>1, <2>1 DEF Schedule, TypeOK, Phases
  <2>3. \A u \in Tasks : pc'[u] = IF u = t THEN "selecting" ELSE pc[u]
    BY <1>1 DEF Schedule, TypeOK
  <2>4. Numbered'
    BY <1>1, <2>1, <2>3 DEF Schedule, Numbered, TypeOK
  <2>5. Owned'
    BY <1>1, <2>1, <2>3 DEF Schedule, Owned
  <2>6. t \notin Live /\ Live' = Live \cup {t}
    BY <2>1, <2>3 DEF Live
  <2>7. Counted'
    BY <1>1, <2>1, <2>6, LiveGrows DEF Schedule
  <2>8. ActiveUntilStop' /\ StoppedIsQuiet' /\ StopCoversEveryTask'
    BY <1>1, <2>1 DEF Schedule, ActiveUntilStop, StoppedIsQuiet, StopCoversEveryTask
  <2> QED
    BY <2>2, <2>4, <2>5, <2>7, <2>8
<1>2. ASSUME NEW t \in Tasks, TimerFires(t) PROVE IInv'
  BY <1>2 DEF TimerFires, TypeOK, Numbered, Counted, Live, Owned, ActiveUntilStop,
     StoppedIsQuiet, StopCoversEveryTask
<1>3. ASSUME NEW t \in Tasks, NEW p \in Phases,
             pc[t] \in {"selecting", "running"},
             p \in {"selecting", "running", "leaving"},
             pc' = [pc EXCEPT ![t] = p],
             fired' \subseteq Tasks, started' \subseteq Tasks,
             UNCHANGED <<next, active, cancels, wait, repeat, cancelled, aim, stopping,
                         snapshot, told>>
      PROVE  IInv'
  <2>1. TypeOK'
    BY <1>3 DEF TypeOK
  <2>2. \A u \in Tasks : pc'[u] = IF u = t THEN p ELSE pc[u]
    BY <1>3 DEF TypeOK
  <2>3. Numbered' /\ Owned' /\ ActiveUntilStop' /\ StopCoversEveryTask'
    BY <1>3, <2>2 DEF Numbered, Owned, ActiveUntilStop, StopCoversEveryTask
  <2>4. Live' = Live /\ t \in Live
    BY <1>3, <2>2 DEF Live
  <2>5. Counted' /\ StoppedIsQuiet'
    BY <1>3, <2>4, LiveKept DEF StoppedIsQuiet
  <2> QED
    BY <2>1, <2>3, <2>5
<1>4. ASSUME NEW t \in Tasks, TakeDone(t) \/ TakeTimer(t) \/ Finish(t) PROVE IInv'
  <2>1. CASE TakeDone(t)
    BY <1>3, <2>1 DEF TakeDone, TypeOK, Phases
  <2>2. CASE TakeTimer(t)
    BY <1>3, <2>2 DEF TakeTimer, TypeOK, Phases
  <2>3. CASE Finish(t)
    <3>1. CASE t \in repeat
      BY <1>3, <2>3, <3>1 DEF Finish, TypeOK, Phases
    <3>2. CASE t \notin repeat
      BY <1>3, <2>3, <3>2 DEF Finish, TypeOK, Phases
    <3> QED
      BY <3>1, <3>2
  <2> QED
    BY <1>4, <2>1, <2>2, <2>3
<1>5. ASSUME NEW t \in Tasks, Remove(t) PROVE IInv'
  <2>1. TypeOK'
    BY <1>5 DEF Remove, TypeOK, Phases
  <2>2. \A u \in Tasks : pc'[u] = IF u = t THEN "removed" ELSE pc[u]
    BY <1>5 DEF Remove, TypeOK
  <2>3. Numbered' /\ Owned' /\ ActiveUntilStop' /\ StopCoversEveryTask'
    BY <1>5, <2>2 DEF Remove, Numbered, Owned, ActiveUntilStop, StopCoversEveryTask
  <2>4. Live' = Live
    BY <1>5, <2>2 DEF Remove, Live
  <2>5. Counted' /\ StoppedIsQuiet'
    BY <1>5, <2>4, LiveKept DEF Remove, StoppedIsQuiet
  <2> QED
    BY <2>1, <2>3, <2>5
<1>6. ASSUME NEW t \in Tasks, Done(t) PROVE IInv'
  <2>1. \A u \in Tasks : pc'[u] = IF u = t THEN "done" ELSE pc[u]
    BY <1>6 DEF Done, TypeOK
  <2>2. Numbered' /\ Owned' /\ ActiveUntilStop' /\ StopCoversEveryTask'
    BY <1>6, <2>1 DEF Done, Numbered, Owned, ActiveUntilStop, StopCoversEveryTask
  <2>3. t \in Live /\ Live' = Live \ {t}
    BY <1>6, <2>1 DEF Done, Live
  <2>4. Counted' /\ wait' \in Nat
    BY <1>6, <2>3, LiveShrinks DEF Done
  <2>5. TypeOK'
    BY <1>6, <2>4 DEF Done, TypeOK, Phases
  <2>6. StoppedIsQuiet'
    BY <1>6, <2>3 DEF Done, StoppedIsQuiet
  <2> QED
    BY <2>2, <2>4, <2>5, <2>6
<1>7. ASSUME NEW k \in Clients, NEW t \in Tasks, CancelLooksUp(k, t) PROVE IInv'
  BY <1>7 DEF CancelLooksUp, TypeOK, Numbered, Counted, Live, Owned, ActiveUntilStop,
     StoppedIsQuiet, StopCoversEveryTask
<1>8. ASSUME NEW k \in Clients, CancelReturns(k) PROVE IInv'
  BY <1>8 DEF CancelReturns, TypeOK, Numbered, Counted, Live, Owned, ActiveUntilStop,
     StoppedIsQuiet, StopCoversEveryTask
<1>9. CASE StopBegins
  BY <1>9 DEF StopBegins, TypeOK, Numbered, Counted, Live, Owned, ActiveUntilStop,
     StoppedIsQuiet, StopCoversEveryTask
<1>10. ASSUME NEW t \in Tasks, StopCancels(t) PROVE IInv'
  BY <1>10 DEF StopCancels, TypeOK, Numbered, Counted, Live, Owned, ActiveUntilStop,
     StoppedIsQuiet, StopCoversEveryTask
<1>11. CASE StopReturns
  <2>1. Live = {}
    BY <1>11, NobodyIsCountedAsZero DEF StopReturns
  <2> QED
    BY <1>11, <2>1 DEF StopReturns, TypeOK, Numbered, Counted, Live, Owned, ActiveUntilStop,
       StoppedIsQuiet, StopCoversEveryTask
<1>12. CASE UNCHANGED vars
  BY <1>12 DEF vars, TypeOK, Numbered, Counted, Live, Owned, ActiveUntilStop,
     StoppedIsQuiet, StopCoversEveryTask
<1> QED
  BY <1>1, <1>2, <1>4, <1>5, <1>6, <1>7, <1>8, <1>9, <1>10, <1>11, <1>12 DEF Next

LEMMA Invariance == Spec => []IInv
  BY InvInit, InvStep, PTL DEF Spec

-----------------------------------------------------------------------------

\* The WaitGroup's counter never goes negative, which would panic, and every
\* other field keeps the shape it is declared with.
THEOREM TypeCorrect == Spec => []TypeOK
<1>1. IInv => TypeOK
  BY DEF IInv
<1> QED
  BY <1>1, Invariance, PTL

\* When stop has returned, no task goroutine is left (scheduler.go:87-103).
THEOREM StopLeavesNobody == Spec => []StoppedIsQuiet
<1>1. IInv => StoppedIsQuiet
  BY DEF IInv
<1> QED
  BY <1>1, Invariance, PTL

\* stop cancels every goroutine that could go round its loop again.
THEOREM StopMissesNobody == Spec => []StopCoversEveryTask
<1>1. IInv => StopCoversEveryTask
  BY DEF IInv
<1> QED
  BY <1>1, Invariance, PTL
-----------------------------------------------------------------------------
(* A task of After that has started is past its select *)

OneShotsMoveOn ==
  \A t \in started \ repeat : pc[t] \in {"running", "leaving", "removed", "done"}

LEMMA OneShotsStep == IInv /\ OneShotsMoveOn /\ [Next]_vars => OneShotsMoveOn'
<1> SUFFICES ASSUME IInv, OneShotsMoveOn, [Next]_vars PROVE OneShotsMoveOn'
  OBVIOUS
<1> USE DEF IInv, TypeOK, OneShotsMoveOn
<1>1. ASSUME NEW every \in BOOLEAN, Schedule(every) PROVE OneShotsMoveOn'
  <2>1. pc[next + 1] = "absent"
    BY <1>1, TasksAreFinite DEF Schedule, Numbered
  <2> QED
    BY <1>1, <2>1 DEF Schedule
<1>2. ASSUME NEW t \in Tasks, TimerFires(t) PROVE OneShotsMoveOn'
  BY <1>2 DEF TimerFires
<1>3. ASSUME NEW t \in Tasks, TakeDone(t) PROVE OneShotsMoveOn'
  BY <1>3 DEF TakeDone
<1>4. ASSUME NEW t \in Tasks, TakeTimer(t) PROVE OneShotsMoveOn'
  BY <1>4 DEF TakeTimer
<1>5. ASSUME NEW t \in Tasks, Finish(t) PROVE OneShotsMoveOn'
  BY <1>5 DEF Finish
<1>6. ASSUME NEW t \in Tasks, Remove(t) \/ Done(t) PROVE OneShotsMoveOn'
  BY <1>6 DEF Remove, Done
<1>7. ASSUME NEW t \in Tasks, StopCancels(t) PROVE OneShotsMoveOn'
  BY <1>7 DEF StopCancels
<1>8. ASSUME NEW k \in Clients, CancelReturns(k) \/ \E t \in Tasks : CancelLooksUp(k, t)
      PROVE  OneShotsMoveOn'
  BY <1>8 DEF CancelReturns, CancelLooksUp
<1>9. CASE StopBegins \/ StopReturns
  BY <1>9 DEF StopBegins, StopReturns
<1>10. CASE UNCHANGED vars
  BY <1>10 DEF vars
<1> QED
  BY <1>1, <1>2, <1>3, <1>4, <1>5, <1>6, <1>7, <1>8, <1>9, <1>10 DEF Next

LEMMA OnlySelectingTasksStart ==
  ASSUME TypeOK, [Next]_vars, NEW t \in Tasks, pc[t] # "running", pc'[t] = "running"
  PROVE  pc[t] = "selecting"
<1> USE DEF TypeOK
<1>1. ASSUME NEW every \in BOOLEAN, Schedule(every) PROVE FALSE
  BY <1>1 DEF Schedule
<1>2. CASE \E u \in Tasks : TimerFires(u) \/ StopCancels(u)
  BY <1>2 DEF TimerFires, StopCancels
<1>3. ASSUME NEW u \in Tasks, TakeDone(u) \/ Finish(u) \/ Remove(u) \/ Done(u) PROVE FALSE
  BY <1>3 DEF TakeDone, Finish, Remove, Done
<1>4. ASSUME NEW u \in Tasks, TakeTimer(u) PROVE pc[t] = "selecting"
  BY <1>4 DEF TakeTimer
<1>5. CASE \E k \in Clients : CancelReturns(k) \/ \E u \in Tasks : CancelLooksUp(k, u)
  BY <1>5 DEF CancelReturns, CancelLooksUp
<1>6. CASE StopBegins \/ StopReturns \/ UNCHANGED vars
  BY <1>6 DEF StopBegins, StopReturns, vars
<1> QED
  BY <1>1, <1>2, <1>3, <1>4, <1>5, <1>6 DEF Next

\* A task of After starts at most once, whatever Cancel and stop do meanwhile
\* (scheduler.go:46-54).
THEOREM OneShotsStartOnce == Spec => OneShotStartsOnce
<1>1. Init => OneShotsMoveOn
  BY DEF Init, OneShotsMoveOn
<1>2. IInv /\ OneShotsMoveOn /\ [Next]_vars
        => [\A t \in Tasks \ repeat :
              pc[t] # "running" /\ pc'[t] = "running" => t \notin started]_vars
  BY OnlySelectingTasksStart DEF IInv, OneShotsMoveOn
<1> QED
  BY <1>1, <1>2, OneShotsStep, Invariance, PTL DEF Spec, OneShotStartsOnce
=============================================================================
