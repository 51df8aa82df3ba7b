-------------------------- MODULE LifecycleProofs --------------------------
(***************************************************************************)
(* Lifecycle.tla for any number of loads and tasks.  The argument is a     *)
(* table: for each place the worker can be, which of the runtime's fields  *)
(* are set (Stage) and how much of the current context has been closed     *)
(* (Closing).  Contexts the runtime has let go of need no table: nothing   *)
(* in plugin code can revive a dead one.                                   *)
(***************************************************************************)
EXTENDS Lifecycle, TLAPS

Loading == {"declaring", "loading"}
Closing == {"clearingEvents", "clearingCommands", "stopping", "waiting"}
Resting == {"idle", "replying", "exited", "crashed"}

ContextIsMade == context <= made

\* How much of the current context is closed.
ClosedSoFar ==
  /\ phase \in {"handling"} \cup Loading \cup {"enabling"}
       => context \in events \cap commands \cap scheduler
  /\ phase \in Resting /\ context # None => context \in events \cap commands \cap scheduler
  /\ phase \in {"clearingCommands", "stopping", "waiting"} => context \notin events \cup listeners
  /\ phase \in {"stopping", "waiting"} => context \notin commands \cup handlers
  /\ phase = "waiting" => context \notin scheduler
  /\ phase = "disabling" => Dead(context)

\* Which fields are set.
Stage ==
  /\ phase \notin Resting => context # None
  /\ phase \in Resting => /\ open <=> context # None
                          /\ initialized <=> context # None
                          /\ enabled <=> context # None
  /\ phase \in Loading => ~open /\ ~initialized /\ ~enabled
  /\ phase = "enabling" => open /\ initialized /\ ~enabled
  /\ phase = "handling" => open /\ initialized /\ enabled
  /\ phase \in Closing => /\ open <=> initialized
                          /\ after \in {"loadFailed", "panic"} => ~initialized /\ ~enabled
                          /\ after # "none"
  /\ phase = "disabling" => /\ initialized /\ ~open
                            /\ after \in {"enableFailed", "unload", "exit"}
  /\ phase \in {"exited", "crashed"} => context = None

\* What is known of the answer to the LOAD in hand.
Answer ==
  phase \in Loading \cup {"enabling"}
    \/ (phase \in Closing \cup {"disabling"} /\ after \in {"loadFailed", "enableFailed", "panic"})
  => before = None /\ ~loaded

IInv ==
  /\ TypeOK
  /\ ContextIsMade
  /\ ClosedSoFar
  /\ Stage
  /\ Answer
  /\ StaleContextsAreDead
  /\ FailedLoadLeavesNothing

LEMMA ContextsAreNat == None \notin Contexts /\ \A g \in Contexts : g \in Nat
  BY LifecycleAssumption DEF Contexts, None

-----------------------------------------------------------------------------

LEMMA InvInit == Init => IInv
<1> SUFFICES ASSUME Init PROVE IInv
  OBVIOUS
<1>1. tasks \in [Contexts -> 0..MaxTasks]
  BY LifecycleAssumption DEF Init
<1>2. TypeOK
  BY <1>1 DEF Init, TypeOK, None, Phases, Reasons
<1>3. ContextIsMade /\ ClosedSoFar /\ Stage /\ Answer
  BY DEF Init, ContextIsMade, ClosedSoFar, Stage, Answer, Loading, Closing, Resting, None
<1>4. StaleContextsAreDead
  BY DEF Init, StaleContextsAreDead, Dead
<1>5. FailedLoadLeavesNothing
  BY DEF Init, FailedLoadLeavesNothing
<1> QED
  BY <1>2, <1>3, <1>4, <1>5 DEF IInv

\* Forgetting a context that is dead, with nothing initialized or open.
LEMMA LetGo ==
  ASSUME IInv, Dead(context), context' = None, ~initialized', ~enabled', ~open',
         initialized' \in BOOLEAN, enabled' \in BOOLEAN, open' \in BOOLEAN,
         phase' \in Resting, after' = "none",
         phase' = "replying" => before = None /\ ~loaded,
         UNCHANGED <<declares, made, handed, registries, before, loaded>>
  PROVE  IInv'
<1> USE DEF IInv
<1>1. TypeOK' /\ ContextIsMade'
  BY ContextsAreNat DEF TypeOK, registries, Phases, Reasons, Resting, ContextIsMade, None
<1>2. ClosedSoFar' /\ Stage'
  BY DEF ClosedSoFar, Stage, Loading, Closing, Resting
<1>3. Answer' /\ FailedLoadLeavesNothing'
  BY DEF Answer, FailedLoadLeavesNothing, Loading, Closing, Resting
<1>4. StaleContextsAreDead'
  BY DEF StaleContextsAreDead, Dead, registries
<1> QED
  BY <1>1, <1>2, <1>3, <1>4

LEMMA InvStep == IInv /\ [Next]_vars => IInv'
<1> SUFFICES ASSUME IInv, [Next]_vars PROVE IInv'
  OBVIOUS
<1> USE ContextsAreNat, LifecycleAssumption DEF IInv
<1>1. CASE LoadRefused
  <2>1. TypeOK' /\ ContextIsMade'
    BY <1>1 DEF LoadRefused, fields, registries, TypeOK, ContextIsMade, Phases, Reasons, Closing, Loading, Resting, Stage
  <2>2. ClosedSoFar' /\ Stage'
    BY <1>1 DEF LoadRefused, fields, registries, TypeOK, ClosedSoFar, Stage, Loading, Closing, Resting, Dead, StaleContextsAreDead
  <2>3. Answer' /\ FailedLoadLeavesNothing'
    BY <1>1 DEF LoadRefused, fields, registries, TypeOK, Answer, FailedLoadLeavesNothing, Stage, Loading, Closing, Resting
  <2>4. StaleContextsAreDead'
    BY <1>1 DEF LoadRefused, fields, registries, TypeOK, ClosedSoFar, Stage, Loading, Closing, Resting, Dead, StaleContextsAreDead
  <2> QED
    BY <2>1, <2>2, <2>3, <2>4
<1>2. CASE Handle
  <2>1. TypeOK' /\ ContextIsMade'
    BY <1>2 DEF Handle, fields, registries, TypeOK, ContextIsMade, Phases, Reasons, Closing, Loading, Resting, Stage
  <2>2. ClosedSoFar' /\ Stage'
    BY <1>2 DEF Handle, fields, registries, TypeOK, ClosedSoFar, Stage, Loading, Closing, Resting, Dead, StaleContextsAreDead
  <2>3. Answer' /\ FailedLoadLeavesNothing'
    BY <1>2 DEF Handle, fields, registries, TypeOK, Answer, FailedLoadLeavesNothing, Stage, Loading, Closing, Resting
  <2>4. StaleContextsAreDead'
    BY <1>2 DEF Handle, fields, registries, TypeOK, ClosedSoFar, Stage, Loading, Closing, Resting, Dead, StaleContextsAreDead
  <2> QED
    BY <2>1, <2>2, <2>3, <2>4
<1>3. CASE HandlerReturns
  <2>1. TypeOK' /\ ContextIsMade'
    BY <1>3 DEF HandlerReturns, fields, registries, TypeOK, ContextIsMade, Phases, Reasons, Closing, Loading, Resting, Stage
  <2>2. ClosedSoFar' /\ Stage'
    BY <1>3 DEF HandlerReturns, fields, registries, TypeOK, ClosedSoFar, Stage, Loading, Closing, Resting, Dead, StaleContextsAreDead
  <2>3. Answer' /\ FailedLoadLeavesNothing'
    BY <1>3 DEF HandlerReturns, fields, registries, TypeOK, Answer, FailedLoadLeavesNothing, Stage, Loading, Closing, Resting
  <2>4. StaleContextsAreDead'
    BY <1>3 DEF HandlerReturns, fields, registries, TypeOK, ClosedSoFar, Stage, Loading, Closing, Resting, Dead, StaleContextsAreDead
  <2> QED
    BY <2>1, <2>2, <2>3, <2>4
<1>4. CASE Unload
  <2>1. TypeOK' /\ ContextIsMade'
    BY <1>4 DEF Unload, CleanUp, fields, registries, TypeOK, ContextIsMade, Phases, Reasons, Closing, Loading, Resting, Stage
  <2>2. ClosedSoFar' /\ Stage'
    BY <1>4 DEF Unload, CleanUp, fields, registries, TypeOK, ClosedSoFar, Stage, Loading, Closing, Resting, Dead, StaleContextsAreDead
  <2>3. Answer' /\ FailedLoadLeavesNothing'
    BY <1>4 DEF Unload, CleanUp, fields, registries, TypeOK, Answer, FailedLoadLeavesNothing, Stage, Loading, Closing, Resting
  <2>4. StaleContextsAreDead'
    BY <1>4 DEF Unload, CleanUp, fields, registries, TypeOK, ClosedSoFar, Stage, Loading, Closing, Resting, Dead, StaleContextsAreDead
  <2> QED
    BY <2>1, <2>2, <2>3, <2>4
<1>5. CASE WorkEnds
  <2>1. TypeOK' /\ ContextIsMade'
    BY <1>5 DEF WorkEnds, CleanUp, fields, registries, TypeOK, ContextIsMade, Phases, Reasons, Closing, Loading, Resting, Stage
  <2>2. ClosedSoFar' /\ Stage'
    BY <1>5 DEF WorkEnds, CleanUp, fields, registries, TypeOK, ClosedSoFar, Stage, Loading, Closing, Resting, Dead, StaleContextsAreDead
  <2>3. Answer' /\ FailedLoadLeavesNothing'
    BY <1>5 DEF WorkEnds, CleanUp, fields, registries, TypeOK, Answer, FailedLoadLeavesNothing, Stage, Loading, Closing, Resting
  <2>4. StaleContextsAreDead'
    BY <1>5 DEF WorkEnds, CleanUp, fields, registries, TypeOK, ClosedSoFar, Stage, Loading, Closing, Resting, Dead, StaleContextsAreDead
  <2> QED
    BY <2>1, <2>2, <2>3, <2>4
<1>6. CASE CommandsDeclared
  <2>1. TypeOK' /\ ContextIsMade'
    BY <1>6 DEF CommandsDeclared, CleanUp, fields, registries, TypeOK, ContextIsMade, Phases, Reasons, Closing, Loading, Resting, Stage
  <2>2. ClosedSoFar' /\ Stage'
    BY <1>6 DEF CommandsDeclared, CleanUp, fields, registries, TypeOK, ClosedSoFar, Stage, Loading, Closing, Resting, Dead, StaleContextsAreDead
  <2>3. Answer' /\ FailedLoadLeavesNothing'
    BY <1>6 DEF CommandsDeclared, CleanUp, fields, registries, TypeOK, Answer, FailedLoadLeavesNothing, Stage, Loading, Closing, Resting
  <2>4. StaleContextsAreDead'
    BY <1>6 DEF CommandsDeclared, CleanUp, fields, registries, TypeOK, ClosedSoFar, Stage, Loading, Closing, Resting, Dead, StaleContextsAreDead
  <2> QED
    BY <2>1, <2>2, <2>3, <2>4
<1>7. CASE CommandsPanics
  <2>1. TypeOK' /\ ContextIsMade'
    BY <1>7 DEF CommandsPanics, CleanUp, fields, registries, TypeOK, ContextIsMade, Phases, Reasons, Closing, Loading, Resting, Stage
  <2>2. ClosedSoFar' /\ Stage'
    BY <1>7 DEF CommandsPanics, CleanUp, fields, registries, TypeOK, ClosedSoFar, Stage, Loading, Closing, Resting, Dead, StaleContextsAreDead
  <2>3. Answer' /\ FailedLoadLeavesNothing'
    BY <1>7 DEF CommandsPanics, CleanUp, fields, registries, TypeOK, Answer, FailedLoadLeavesNothing, Stage, Loading, Closing, Resting
  <2>4. StaleContextsAreDead'
    BY <1>7 DEF CommandsPanics, CleanUp, fields, registries, TypeOK, ClosedSoFar, Stage, Loading, Closing, Resting, Dead, StaleContextsAreDead
  <2> QED
    BY <2>1, <2>2, <2>3, <2>4
<1>8. CASE OnLoadReturns
  <2>1. TypeOK' /\ ContextIsMade'
    BY <1>8 DEF OnLoadReturns, CleanUp, fields, registries, TypeOK, ContextIsMade, Phases, Reasons, Closing, Loading, Resting, Stage
  <2>2. ClosedSoFar' /\ Stage'
    BY <1>8 DEF OnLoadReturns, CleanUp, fields, registries, TypeOK, ClosedSoFar, Stage, Loading, Closing, Resting, Dead, StaleContextsAreDead
  <2>3. Answer' /\ FailedLoadLeavesNothing'
    BY <1>8 DEF OnLoadReturns, CleanUp, fields, registries, TypeOK, Answer, FailedLoadLeavesNothing, Stage, Loading, Closing, Resting
  <2>4. StaleContextsAreDead'
    BY <1>8 DEF OnLoadReturns, CleanUp, fields, registries, TypeOK, ClosedSoFar, Stage, Loading, Closing, Resting, Dead, StaleContextsAreDead
  <2> QED
    BY <2>1, <2>2, <2>3, <2>4
<1>9. CASE OnEnableReturns
  <2>1. TypeOK' /\ ContextIsMade'
    BY <1>9 DEF OnEnableReturns, CleanUp, fields, registries, TypeOK, ContextIsMade, Phases, Reasons, Closing, Loading, Resting, Stage
  <2>2. ClosedSoFar' /\ Stage'
    BY <1>9 DEF OnEnableReturns, CleanUp, fields, registries, TypeOK, ClosedSoFar, Stage, Loading, Closing, Resting, Dead, StaleContextsAreDead
  <2>3. Answer' /\ FailedLoadLeavesNothing'
    BY <1>9 DEF OnEnableReturns, CleanUp, fields, registries, TypeOK, Answer, FailedLoadLeavesNothing, Stage, Loading, Closing, Resting
  <2>4. StaleContextsAreDead'
    BY <1>9 DEF OnEnableReturns, CleanUp, fields, registries, TypeOK, ClosedSoFar, Stage, Loading, Closing, Resting, Dead, StaleContextsAreDead
  <2> QED
    BY <2>1, <2>2, <2>3, <2>4
<1>10. CASE Reply
  <2>1. TypeOK' /\ ContextIsMade'
    BY <1>10 DEF Reply, fields, registries, TypeOK, ContextIsMade, Phases, Reasons, Closing, Loading, Resting, Stage
  <2>2. ClosedSoFar' /\ Stage'
    BY <1>10 DEF Reply, fields, registries, TypeOK, ClosedSoFar, Stage, Loading, Closing, Resting, Dead, StaleContextsAreDead
  <2>3. Answer' /\ FailedLoadLeavesNothing'
    BY <1>10 DEF Reply, fields, registries, TypeOK, Answer, FailedLoadLeavesNothing, Stage, Loading, Closing, Resting
  <2>4. StaleContextsAreDead'
    BY <1>10 DEF Reply, fields, registries, TypeOK, ClosedSoFar, Stage, Loading, Closing, Resting, Dead, StaleContextsAreDead
  <2> QED
    BY <2>1, <2>2, <2>3, <2>4
<1>11. CASE ClearEvents
  <2>1. TypeOK' /\ ContextIsMade'
    BY <1>11 DEF ClearEvents, fields, registries, TypeOK, ContextIsMade, Phases, Reasons, Closing, Loading, Resting, Stage
  <2>2. ClosedSoFar' /\ Stage'
    BY <1>11 DEF ClearEvents, fields, registries, TypeOK, ClosedSoFar, Stage, Loading, Closing, Resting, Dead, StaleContextsAreDead
  <2>3. Answer' /\ FailedLoadLeavesNothing'
    BY <1>11 DEF ClearEvents, fields, registries, TypeOK, Answer, FailedLoadLeavesNothing, Stage, Loading, Closing, Resting
  <2>4. StaleContextsAreDead'
    BY <1>11 DEF ClearEvents, fields, registries, TypeOK, ClosedSoFar, Stage, Loading, Closing, Resting, Dead, StaleContextsAreDead
  <2> QED
    BY <2>1, <2>2, <2>3, <2>4
<1>12. CASE ClearCommands
  <2>1. TypeOK' /\ ContextIsMade'
    BY <1>12 DEF ClearCommands, fields, registries, TypeOK, ContextIsMade, Phases, Reasons, Closing, Loading, Resting, Stage
  <2>2. ClosedSoFar' /\ Stage'
    BY <1>12 DEF ClearCommands, fields, registries, TypeOK, ClosedSoFar, Stage, Loading, Closing, Resting, Dead, StaleContextsAreDead
  <2>3. Answer' /\ FailedLoadLeavesNothing'
    BY <1>12 DEF ClearCommands, fields, registries, TypeOK, Answer, FailedLoadLeavesNothing, Stage, Loading, Closing, Resting
  <2>4. StaleContextsAreDead'
    BY <1>12 DEF ClearCommands, fields, registries, TypeOK, ClosedSoFar, Stage, Loading, Closing, Resting, Dead, StaleContextsAreDead
  <2> QED
    BY <2>1, <2>2, <2>3, <2>4
<1>13. CASE StopScheduler
  <2>1. TypeOK' /\ ContextIsMade'
    BY <1>13 DEF StopScheduler, fields, registries, TypeOK, ContextIsMade, Phases, Reasons, Closing, Loading, Resting, Stage
  <2>2. ClosedSoFar' /\ Stage'
    BY <1>13 DEF StopScheduler, fields, registries, TypeOK, ClosedSoFar, Stage, Loading, Closing, Resting, Dead, StaleContextsAreDead
  <2>3. Answer' /\ FailedLoadLeavesNothing'
    BY <1>13 DEF StopScheduler, fields, registries, TypeOK, Answer, FailedLoadLeavesNothing, Stage, Loading, Closing, Resting
  <2>4. StaleContextsAreDead'
    BY <1>13 DEF StopScheduler, fields, registries, TypeOK, ClosedSoFar, Stage, Loading, Closing, Resting, Dead, StaleContextsAreDead
  <2> QED
    BY <2>1, <2>2, <2>3, <2>4
<1>14. CASE Cleaned
  <2>0. IInv
    OBVIOUS
  <2>1. context # None /\ context \in Contexts /\ Dead(context)
    BY <1>14 DEF Cleaned, TypeOK, Stage, Resting, ClosedSoFar, Dead
  <2>2. CASE after = "loadFailed"
    <3>1. /\ context' = None /\ phase' = "replying" /\ after' = "none"
          /\ ~initialized /\ ~enabled /\ ~open /\ before = None /\ ~loaded
          /\ UNCHANGED <<initialized, enabled, open, declares, made, handed, registries, before, loaded>>
      BY <1>14, <2>2 DEF Cleaned, Stage, Closing, Answer
    <3> QED
      <4>1. /\ initialized' \in BOOLEAN /\ enabled' \in BOOLEAN /\ open' \in BOOLEAN
            /\ phase' \in Resting
        BY <3>1 DEF TypeOK, Resting
      <4> QED
        BY ONLY <2>0, <2>1, <3>1, <4>1, LetGo
  <2>3. CASE after # "loadFailed" /\ initialized
    <3>1. /\ phase' = "disabling" /\ open' = FALSE
          /\ after \in {"enableFailed", "unload", "exit"}
          /\ UNCHANGED <<fields, after, declares, made, handed, registries, before, loaded>>
      BY <1>14, <2>3 DEF Cleaned, Stage, Closing, TypeOK, Reasons
    <3>2. TypeOK' /\ ContextIsMade' /\ ClosedSoFar' /\ StaleContextsAreDead'
      BY <2>1, <3>1 DEF fields, registries, TypeOK, Phases, ContextIsMade, ClosedSoFar, Dead,
         StaleContextsAreDead, Loading, Resting
    <3>3. Stage' /\ Answer' /\ FailedLoadLeavesNothing'
      BY <1>14, <2>1, <2>3, <3>1 DEF Cleaned, fields, Stage, Answer, FailedLoadLeavesNothing,
         Loading, Resting, Closing
    <3> QED
      BY <3>2, <3>3
  <2>4. CASE after # "loadFailed" /\ ~initialized
    <3>1. /\ Disabled /\ ~open
          /\ UNCHANGED <<open, declares, made, handed, registries, before, loaded>>
      BY <1>14, <2>4 DEF Cleaned, Stage, Closing
    <3>2. phase' = "replying" => before = None /\ ~loaded
      BY <1>14, <2>4, <3>1 DEF Cleaned, Disabled, Answer, Closing
    <3> QED
      <4>1. /\ initialized' = FALSE /\ enabled' = FALSE /\ open' = open /\ open \in BOOLEAN
            /\ context' = None /\ after' = "none" /\ phase' \in Resting /\ ~open
            /\ UNCHANGED <<declares, made, handed, registries, before, loaded>>
        BY <3>1 DEF Disabled, TypeOK, Resting
      <4> QED
        BY ONLY <2>0, <2>1, <3>2, <4>1, LetGo
  <2> QED
    BY <2>2, <2>3, <2>4
<1>15. CASE OnDisableReturns
  <2>0. IInv
    OBVIOUS
  <2>1. context # None /\ context \in Contexts /\ Dead(context)
    BY <1>15 DEF OnDisableReturns, TypeOK, Stage, Resting, ClosedSoFar
  <2>2. phase' = "replying" => before = None /\ ~loaded
    BY <1>15 DEF OnDisableReturns, Disabled, Answer, Closing
  <2>3. /\ initialized' = FALSE /\ enabled' = FALSE /\ open' = open /\ open \in BOOLEAN
        /\ context' = None /\ after' = "none" /\ phase' \in Resting /\ ~open
        /\ UNCHANGED <<declares, made, handed, registries, before, loaded>>
    BY <1>15 DEF OnDisableReturns, Disabled, TypeOK, Resting, Stage
  <2> QED
    BY ONLY <2>0, <2>1, <2>2, <2>3, LetGo
<1>16. CASE LoadBegins
  <2>0. made' = made + 1 /\ made + 1 \in Contexts /\ context' = made + 1
    BY <1>16 DEF LoadBegins
  <2>1. TypeOK' /\ ContextIsMade'
    <3>1. handed' \subseteq Contexts /\ phase' \in Phases
      BY <1>16, <2>0 DEF LoadBegins, TypeOK, Phases
    <3>2. events' \cup listeners' \cup commands' \cup handlers' \cup scheduler' \subseteq Contexts
      BY <1>16, <2>0 DEF LoadBegins, TypeOK
    <3>3. before' \in Contexts \cup {None} /\ loaded' \in BOOLEAN
          /\ UNCHANGED <<declares, initialized, enabled, tasks, after, open>>
      BY <1>16 DEF LoadBegins, TypeOK
    <3>4. context' <= made'
      BY <2>0
    <3> QED
      BY <2>0, <3>1, <3>2, <3>3, <3>4 DEF TypeOK, ContextIsMade
  <2>2. ClosedSoFar' /\ Stage'
    BY <1>16 DEF LoadBegins, fields, registries, TypeOK, ClosedSoFar, Stage, Loading, Closing, Resting, Dead, StaleContextsAreDead
  <2>3. Answer' /\ FailedLoadLeavesNothing'
    BY <1>16 DEF LoadBegins, fields, registries, TypeOK, Answer, FailedLoadLeavesNothing, Stage, Loading, Closing, Resting
  <2>4. StaleContextsAreDead'
    BY <1>16 DEF LoadBegins, fields, registries, TypeOK, ClosedSoFar, Stage, Loading, Closing, Resting, Dead, StaleContextsAreDead
  <2> QED
    BY <2>1, <2>2, <2>3, <2>4
<1>17. ASSUME NEW g \in Contexts, On(g) PROVE IInv'
  <2>1. TypeOK' /\ ContextIsMade'
    BY <1>17 DEF On, fields, TypeOK, ContextIsMade
  <2>2. ClosedSoFar' /\ Stage' /\ Answer' /\ FailedLoadLeavesNothing'
    BY <1>17 DEF On, fields, TypeOK, ClosedSoFar, Stage, Loading, Closing, Resting, Dead, Answer,
       FailedLoadLeavesNothing
  <2>3. StaleContextsAreDead'
    BY <1>17 DEF On, fields, TypeOK, Dead, StaleContextsAreDead
  <2> QED
    BY <2>1, <2>2, <2>3
<1>18. ASSUME NEW g \in Contexts, Register(g) PROVE IInv'
  <2>1. TypeOK' /\ ContextIsMade'
    BY <1>18 DEF Register, fields, TypeOK, ContextIsMade
  <2>2. ClosedSoFar' /\ Stage' /\ Answer' /\ FailedLoadLeavesNothing'
    BY <1>18 DEF Register, fields, TypeOK, ClosedSoFar, Stage, Loading, Closing, Resting, Dead, Answer,
       FailedLoadLeavesNothing
  <2>3. StaleContextsAreDead'
    BY <1>18 DEF Register, fields, TypeOK, Dead, StaleContextsAreDead
  <2> QED
    BY <2>1, <2>2, <2>3
<1>19. ASSUME NEW g \in Contexts, Schedule(g) PROVE IInv'
  <2>1. TypeOK' /\ ContextIsMade'
    BY <1>19 DEF Schedule, fields, TypeOK, ContextIsMade
  <2>2. ClosedSoFar' /\ Stage' /\ Answer' /\ FailedLoadLeavesNothing'
    BY <1>19 DEF Schedule, fields, TypeOK, ClosedSoFar, Stage, Loading, Closing, Resting, Dead, Answer,
       FailedLoadLeavesNothing
  <2>3. StaleContextsAreDead'
    BY <1>19 DEF Schedule, fields, TypeOK, Dead, StaleContextsAreDead
  <2> QED
    BY <2>1, <2>2, <2>3
<1>20. ASSUME NEW g \in Contexts, TaskEnds(g) PROVE IInv'
  <2>1. TypeOK' /\ ContextIsMade'
    BY <1>20 DEF TaskEnds, fields, TypeOK, ContextIsMade
  <2>2. ClosedSoFar' /\ Stage' /\ Answer' /\ FailedLoadLeavesNothing'
    BY <1>20 DEF TaskEnds, fields, TypeOK, ClosedSoFar, Stage, Loading, Closing, Resting, Dead, Answer,
       FailedLoadLeavesNothing
  <2>3. StaleContextsAreDead'
    BY <1>20 DEF TaskEnds, fields, TypeOK, Dead, StaleContextsAreDead
  <2> QED
    BY <2>1, <2>2, <2>3
<1>21. CASE UNCHANGED vars
  BY <1>21 DEF vars, fields, registries, TypeOK, ContextIsMade, ClosedSoFar, Stage, Answer, Dead,
     StaleContextsAreDead, FailedLoadLeavesNothing
<1> QED
  BY <1>1, <1>2, <1>3, <1>4, <1>5, <1>6, <1>7, <1>8, <1>9, <1>10, <1>11, <1>12,
     <1>13, <1>14, <1>15, <1>16, <1>17, <1>18, <1>19, <1>20, <1>21 DEF Next, Proceed

LEMMA Invariance == Spec => []IInv
  BY InvInit, InvStep, PTL DEF Spec

-----------------------------------------------------------------------------
(* What follows from it *)

\* The runtime's fields keep the shape lifecycle.go declares, and no scheduler
\* counts fewer than no tasks.
THEOREM TypeCorrect == Spec => []TypeOK
<1>1. IInv => TypeOK
  BY DEF IInv
<1> QED
  BY <1>1, Invariance, PTL

\* No path of load or disable lets go of a context that is not closed and
\* drained, and nothing reopens one (lifecycle.go:60-61, 66-67, 86-91).
THEOREM StaleContextsStayDead == Spec => []StaleContextsAreDead
<1>1. IInv => StaleContextsAreDead
  BY DEF IInv
<1> QED
  BY <1>1, Invariance, PTL

\* OnDisable is called with every registry closed and no task running.
THEOREM DisableIsAlone == Spec => []OnDisableRunsAlone
<1>1. IInv => OnDisableRunsAlone
  BY DEF IInv, OnDisableRunsAlone, ClosedSoFar, StaleContextsAreDead
<1> QED
  BY <1>1, Invariance, PTL

\* OnDisable is called once for each OnLoad that succeeded.
THEOREM DisablePairs == Spec => []DisablePairsWithLoad
<1>1. IInv => DisablePairsWithLoad
  BY DEF IInv, DisablePairsWithLoad, Stage, Loading, Closing, Resting
<1> QED
  BY <1>1, Invariance, PTL

\* A LOAD answered with FAIL leaves the runtime as it found it.
THEOREM FailLeavesNothing == Spec => []FailedLoadLeavesNothing
<1>1. IInv => FailedLoadLeavesNothing
  BY DEF IInv
<1> QED
  BY <1>1, Invariance, PTL

\* Handlers run only while the plugin is enabled and its registries open.
THEOREM HandlersNeedEnable == Spec => []HandlersRunEnabled
<1>1. IInv => HandlersRunEnabled
  BY DEF IInv, HandlersRunEnabled, ClosedSoFar, Stage
<1> QED
  BY <1>1, Invariance, PTL
=============================================================================
