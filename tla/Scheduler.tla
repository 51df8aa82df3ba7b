----------------------------- MODULE Scheduler -----------------------------
(***************************************************************************)
(* A plugin's scheduler (scheduler.go): every task is a goroutine of its   *)
(* own that selects between its context and its timer; Cancel and stop     *)
(* cancel contexts, and stop waits for every goroutine to end.  After,     *)
(* Every and Cancel may be called by any goroutine, a running task         *)
(* included.                                                               *)
(*                                                                         *)
(* One step is one critical section of Scheduler.mu, one branch of the     *)
(* select, the body of a task, one cancel() or one WaitGroup operation.    *)
(* A stop of a scheduler that is not active returns at once and is not a   *)
(* step; a body that panics is recovered by call and ends like another.    *)
(***************************************************************************)
EXTENDS Integers, FiniteSets

CONSTANTS MaxTasks,  \* bound: the tasks ever scheduled
          Clients    \* goroutines that call Cancel

ASSUME SchedulerAssumption == MaxTasks \in Nat

Tasks == 1..MaxTasks

VARIABLES
  next,       \* Scheduler.next
  active,     \* Scheduler.active
  cancels,    \* the keys of Scheduler.cancels
  wait,       \* the counter of Scheduler.wait
  repeat,     \* which tasks came from Every
  pc,         \* where each task's goroutine is inside run
  fired,      \* tasks whose timer channel holds a tick
  cancelled,  \* tasks whose context is done
  aim,        \* the task whose cancel function a client inside Cancel holds
  stopping,   \* where stop is
  snapshot,   \* the tasks whose cancel functions stop copied and still has to call
  started,    \* history: tasks whose body has started at least once
  told        \* history: tasks some Cancel returned true for

vars == <<next, active, cancels, wait, repeat, pc, fired, cancelled, aim, stopping,
          snapshot, started, told>>

Phases == {"absent", "selecting", "running", "leaving", "removed", "done"}

\* Goroutines that have not called wait.Done yet.
Live == {t \in Tasks : pc[t] \notin {"absent", "done"}}

-----------------------------------------------------------------------------
(* After and Every *)

\* Mutant of Schedule: the goroutine adds itself to the group, too late for stop.
ScheduleWithoutAdd(every) ==
  /\ next + 1 \in Tasks
  /\ active
  /\ next' = next + 1
  /\ cancels' = cancels \cup {next + 1}
  /\ repeat' = IF every THEN repeat \cup {next + 1} ELSE repeat
  /\ pc' = [pc EXCEPT ![next + 1] = "selecting"]
  /\ UNCHANGED <<active, wait, fired, cancelled, aim, stopping, snapshot, started, told>>

\* Mutant of Schedule: active is not looked at.
ScheduleAfterStop(every) ==
  /\ next + 1 \in Tasks
  /\ next' = next + 1
  /\ cancels' = cancels \cup {next + 1}
  /\ wait' = wait + 1
  /\ repeat' = IF every THEN repeat \cup {next + 1} ELSE repeat
  /\ pc' = [pc EXCEPT ![next + 1] = "selecting"]
  /\ UNCHANGED <<active, fired, cancelled, aim, stopping, snapshot, started, told>>

\* schedule, lines 26-38, when the delay is positive and the scheduler active;
\* otherwise it returns an error and changes nothing.
Schedule(every) ==
  /\ next + 1 \in Tasks
  /\ active
  /\ next' = next + 1
  /\ cancels' = cancels \cup {next + 1}
  /\ wait' = wait + 1
  /\ repeat' = IF every THEN repeat \cup {next + 1} ELSE repeat
  /\ pc' = [pc EXCEPT ![next + 1] = "selecting"]
  /\ UNCHANGED <<active, fired, cancelled, aim, stopping, snapshot, started, told>>

-----------------------------------------------------------------------------
(* run: the goroutine of one task *)

TimerFires(t) ==
  /\ pc[t] = "selecting"
  /\ t \notin fired
  /\ fired' = fired \cup {t}
  /\ UNCHANGED <<next, active, cancels, wait, repeat, pc, cancelled, aim, stopping,
                 snapshot, started, told>>

\* With both channels ready Go's select takes either branch. Returning stops
\* the timer (line 45).
TakeDone(t) ==
  /\ pc[t] = "selecting"
  /\ t \in cancelled
  /\ fired' = fired \ {t}
  /\ pc' = [pc EXCEPT ![t] = "leaving"]
  /\ UNCHANGED <<next, active, cancels, wait, repeat, cancelled, aim, stopping,
                 snapshot, started, told>>

TakeTimer(t) ==
  /\ pc[t] = "selecting"
  /\ t \in fired
  /\ fired' = fired \ {t}
  /\ started' = started \cup {t}
  /\ pc' = [pc EXCEPT ![t] = "running"]
  /\ UNCHANGED <<next, active, cancels, wait, repeat, cancelled, aim, stopping,
                 snapshot, told>>

\* Mutant of Finish: a one-shot task goes round the loop again.
FinishAndLoop(t) ==
  /\ pc[t] = "running"
  /\ pc' = [pc EXCEPT ![t] = "selecting"]
  /\ UNCHANGED <<next, active, cancels, wait, repeat, fired, cancelled, aim, stopping,
                 snapshot, started, told>>

\* The body returned or panicked, lines 51-55.
Finish(t) ==
  /\ pc[t] = "running"
  /\ pc' = [pc EXCEPT ![t] = IF t \in repeat THEN "selecting" ELSE "leaving"]
  /\ UNCHANGED <<next, active, cancels, wait, repeat, fired, cancelled, aim, stopping,
                 snapshot, started, told>>

\* The deferred remove, then the deferred wait.Done.
Remove(t) ==
  /\ pc[t] = "leaving"
  /\ cancels' = cancels \ {t}
  /\ pc' = [pc EXCEPT ![t] = "removed"]
  /\ UNCHANGED <<next, active, wait, repeat, fired, cancelled, aim, stopping,
                 snapshot, started, told>>

\* Mutant of Done: the group is told twice.
DoneTwice(t) ==
  /\ pc[t] = "removed"
  /\ wait' = wait - 2
  /\ pc' = [pc EXCEPT ![t] = "done"]
  /\ UNCHANGED <<next, active, cancels, repeat, fired, cancelled, aim, stopping,
                 snapshot, started, told>>

Done(t) ==
  /\ pc[t] = "removed"
  /\ wait' = wait - 1
  /\ pc' = [pc EXCEPT ![t] = "done"]
  /\ UNCHANGED <<next, active, cancels, repeat, fired, cancelled, aim, stopping,
                 snapshot, started, told>>

-----------------------------------------------------------------------------
(* Cancel and stop *)

\* Lines 78-80. An id that is not in the table makes Cancel return false.
CancelLooksUp(k, t) ==
  /\ aim[k] = 0
  /\ t \in cancels
  /\ aim' = [aim EXCEPT ![k] = t]
  /\ UNCHANGED <<next, active, cancels, wait, repeat, pc, fired, cancelled, stopping,
                 snapshot, started, told>>

\* Mutant of CancelReturns: reports success without calling the cancel function.
CancelForgets(k) ==
  /\ aim[k] # 0
  /\ told' = told \cup {aim[k]}
  /\ aim' = [aim EXCEPT ![k] = 0]
  /\ UNCHANGED <<next, active, cancels, wait, repeat, pc, fired, cancelled, stopping,
                 snapshot, started>>

\* Lines 81-84, outside the mutex.
CancelReturns(k) ==
  /\ aim[k] # 0
  /\ cancelled' = cancelled \cup {aim[k]}
  /\ told' = told \cup {aim[k]}
  /\ aim' = [aim EXCEPT ![k] = 0]
  /\ UNCHANGED <<next, active, cancels, wait, repeat, pc, fired, stopping,
                 snapshot, started>>

\* Mutant of StopBegins: only waits for the tasks, cancels none.
StopWithoutCancelling ==
  /\ active
  /\ active' = FALSE
  /\ snapshot' = {}
  /\ stopping' = "cancelling"
  /\ UNCHANGED <<next, cancels, wait, repeat, pc, fired, cancelled, aim, started, told>>

\* Lines 88-98: one critical section ends scheduling and copies the table.
StopBegins ==
  /\ active
  /\ active' = FALSE
  /\ snapshot' = cancels
  /\ stopping' = "cancelling"
  /\ UNCHANGED <<next, cancels, wait, repeat, pc, fired, cancelled, aim, started, told>>

StopCancels(t) ==
  /\ stopping = "cancelling"
  /\ t \in snapshot
  /\ cancelled' = cancelled \cup {t}
  /\ snapshot' = snapshot \ {t}
  /\ UNCHANGED <<next, active, cancels, wait, repeat, pc, fired, aim, stopping,
                 started, told>>

\* wait.Wait returns, lines 102-103.
StopReturns ==
  /\ stopping = "cancelling"
  /\ snapshot = {}
  /\ wait = 0
  /\ stopping' = "stopped"
  /\ UNCHANGED <<next, active, cancels, wait, repeat, pc, fired, cancelled, aim,
                 snapshot, started, told>>

-----------------------------------------------------------------------------

\* newScheduler
Init ==
  /\ next = 0
  /\ active = TRUE
  /\ cancels = {}
  /\ wait = 0
  /\ repeat = {}
  /\ pc = [t \in Tasks |-> "absent"]
  /\ fired = {}
  /\ cancelled = {}
  /\ aim = [k \in Clients |-> 0]
  /\ stopping = "no"
  /\ snapshot = {}
  /\ started = {}
  /\ told = {}

Next ==
  \/ \E every \in BOOLEAN : Schedule(every)
  \/ \E t \in Tasks : TimerFires(t) \/ TakeDone(t) \/ TakeTimer(t) \/ Finish(t)
                        \/ Remove(t) \/ Done(t) \/ StopCancels(t)
  \/ \E k \in Clients : CancelReturns(k) \/ \E t \in Tasks : CancelLooksUp(k, t)
  \/ StopBegins
  \/ StopReturns

\* Goroutines run, bodies return, and select, which picks at random among the
\* branches that are ready, does not pass over a done context for ever.
\* Nothing has to be scheduled, cancelled or stopped, and no timer has to fire.
Fairness ==
  /\ \A t \in Tasks : /\ SF_vars(TakeDone(t))
                      /\ WF_vars(TakeTimer(t) \/ Finish(t) \/ Remove(t) \/ Done(t))
                      /\ WF_vars(StopCancels(t))
  /\ \A k \in Clients : WF_vars(CancelReturns(k))
  /\ WF_vars(StopReturns)

Spec == Init /\ [][Next]_vars /\ Fairness
-----------------------------------------------------------------------------
(* Properties *)

TypeOK ==
  /\ next \in Tasks \cup {0}
  /\ active \in BOOLEAN
  /\ cancels \subseteq Tasks
  /\ wait \in Nat
  /\ repeat \subseteq Tasks
  /\ pc \in [Tasks -> Phases]
  /\ fired \subseteq Tasks
  /\ cancelled \subseteq Tasks
  /\ aim \in [Clients -> Tasks \cup {0}]
  /\ stopping \in {"no", "cancelling", "stopped"}
  /\ snapshot \subseteq Tasks
  /\ started \subseteq Tasks
  /\ told \subseteq Tasks

\* When stop has returned no task goroutine is left: nothing of the plugin runs
\* beside or after OnDisable, which lifecycle.go calls next (lifecycle.go:86-89).
StoppedIsQuiet == stopping = "stopped" => Live = {}

\* From the moment stop has copied the table, every goroutine that may still
\* go round its loop is cancelled or about to be: a task scheduled, cancelled
\* or ending at the same time escapes neither the copy nor the wait.
StopCoversEveryTask ==
  ~active => \A t \in Tasks : pc[t] \in {"selecting", "running"}
                                 => t \in cancelled \cup snapshot

\* A task of After starts once, whatever cancellations and stops run beside it.
OneShotStartsOnce ==
  [][\A t \in Tasks \ repeat :
        pc[t] # "running" /\ pc'[t] = "running" => t \notin started]_vars

\* stop returns: no task can be missed by the copy and run for ever.
StopTerminates == stopping = "cancelling" ~> stopping = "stopped"

\* A task that Cancel reported as cancelled ends.
CancelledTaskEnds == \A t \in Tasks : t \in told ~> pc[t] = "done"
=============================================================================
