----------------------------- MODULE Lifecycle -----------------------------
(***************************************************************************)
(* Loading, running and disabling the plugin (lifecycle.go, and the parts  *)
(* of session.go and session_handle.go that call it).  One goroutine, the  *)
(* session's worker, does all of it, one request at a time; beside it run  *)
(* the tasks of every scheduler and whatever goroutines the plugin keeps,  *)
(* and those may hold the context of an earlier load.                      *)
(*                                                                         *)
(* A context is a number: the n-th context newContext made. One step is a  *)
(* callback returning, or one critical section of a registry. A callback   *)
(* that panics ends like one that fails (call, lines 103-115), except      *)
(* Commands(), which is called outside call.                               *)
(***************************************************************************)
EXTENDS Naturals, FiniteSets

CONSTANTS MaxLoads,  \* bound: the contexts ever made
          MaxTasks   \* bound: the live tasks of one context

ASSUME LifecycleAssumption == MaxLoads \in Nat /\ MaxTasks \in Nat

Contexts == 1..MaxLoads
None == 0

VARIABLES
  declares,     \* whether the plugin is a CommandPlugin
  made,         \* contexts made so far
  handed,       \* contexts OnLoad was given: the ones plugin code can use
  context,      \* runtimeState.context
  initialized,  \* runtimeState.initialized
  enabled,      \* runtimeState.enabled
  events,       \* contexts whose event registry is active
  listeners,    \* contexts whose event registry holds a listener
  commands,     \* contexts whose command registry is active
  handlers,     \* contexts whose command registry holds a handler
  scheduler,    \* contexts whose scheduler is active
  tasks,        \* the counter each scheduler's stop waits on
  phase,        \* where the worker is
  after,        \* what the worker does once a cleanup has returned
  before,       \* runtimeState.context when the request in hand was taken
  loaded,       \* the answer to LOAD in hand: LOADED, or else FAIL
  open          \* history: OnLoad succeeded and OnDisable has not been called since

registries == <<events, listeners, commands, handlers, scheduler, tasks>>
fields == <<context, initialized, enabled>>
vars == <<declares, made, handed, fields, registries, phase, after, before, loaded, open>>

Phases == {"idle", "declaring", "loading", "enabling", "handling", "replying",
           "clearingEvents", "clearingCommands", "stopping", "waiting", "disabling",
           "exited", "crashed"}

\* Why the worker is cleaning up: load gave up before OnLoad succeeded, OnEnable
\* failed, UNLOAD, the end of the work channel, or a panic in Commands().
Reasons == {"none", "loadFailed", "enableFailed", "unload", "exit", "panic"}

-----------------------------------------------------------------------------
(* Plugin code on any goroutine, through any context it was given *)

On(g) ==
  /\ g \in handed \cap events
  /\ listeners' = listeners \cup {g}
  /\ UNCHANGED <<declares, made, handed, fields, events, commands, handlers, scheduler, tasks,
                 phase, after, before, loaded, open>>

Register(g) ==
  /\ g \in handed \cap commands
  /\ handlers' = handlers \cup {g}
  /\ UNCHANGED <<declares, made, handed, fields, events, listeners, commands, scheduler, tasks,
                 phase, after, before, loaded, open>>

Schedule(g) ==
  /\ g \in handed \cap scheduler
  /\ tasks[g] < MaxTasks
  /\ tasks' = [tasks EXCEPT ![g] = @ + 1]
  /\ UNCHANGED <<declares, made, handed, fields, events, listeners, commands, handlers,
                 scheduler, phase, after, before, loaded, open>>

\* Mutant of TaskEnds: the task leaves the group twice.
TaskEndsTwice(g) ==
  /\ tasks[g] > 0
  /\ tasks' = [tasks EXCEPT ![g] = @ - 2]
  /\ UNCHANGED <<declares, made, handed, fields, events, listeners, commands, handlers,
                 scheduler, phase, after, before, loaded, open>>

\* A task's goroutine ends: Scheduler.tla says when.
TaskEnds(g) ==
  /\ tasks[g] > 0
  /\ tasks' = [tasks EXCEPT ![g] = @ - 1]
  /\ UNCHANGED <<declares, made, handed, fields, events, listeners, commands, handlers,
                 scheduler, phase, after, before, loaded, open>>

-----------------------------------------------------------------------------
(* cleanup, lines 97-101, called from load and from disable *)

CleanUp(reason) == phase' = "clearingEvents" /\ after' = reason

\* Events.clear
ClearEvents ==
  /\ phase = "clearingEvents"
  /\ events' = events \ {context}
  /\ listeners' = listeners \ {context}
  /\ phase' = "clearingCommands"
  /\ UNCHANGED <<declares, made, handed, fields, commands, handlers, scheduler, tasks,
                 after, before, loaded, open>>

\* Commands.clear
ClearCommands ==
  /\ phase = "clearingCommands"
  /\ commands' = commands \ {context}
  /\ handlers' = handlers \ {context}
  /\ phase' = "stopping"
  /\ UNCHANGED <<declares, made, handed, fields, events, listeners, scheduler, tasks,
                 after, before, loaded, open>>

\* Mutant of StopScheduler: the scheduler goes on accepting tasks.
StopStaysActive ==
  /\ phase = "stopping"
  /\ phase' = "waiting"
  /\ UNCHANGED <<declares, made, handed, fields, registries, after, before, loaded, open>>

StopScheduler ==
  /\ phase = "stopping"
  /\ scheduler' = scheduler \ {context}
  /\ phase' = "waiting"
  /\ UNCHANGED <<declares, made, handed, fields, events, listeners, commands, handlers, tasks,
                 after, before, loaded, open>>

\* The rest of disable once cleanup has returned and OnDisable, if it was due:
\* lines 91-94, and what its caller does next.
Disabled ==
  /\ context' = None
  /\ initialized' = FALSE
  /\ enabled' = FALSE
  /\ \/ after = "enableFailed" /\ phase' = "replying"
     \/ after = "unload" /\ phase' = "idle"
     \/ after = "exit" /\ phase' = "exited"
     \/ after = "panic" /\ phase' = "crashed"
  /\ after' = "none"

\* Mutant of Cleaned: OnDisable is called while tasks are still ending.
CleanedWithoutWaiting ==
  /\ phase = "waiting"
  /\ \/ /\ after = "loadFailed"
        /\ context' = None
        /\ phase' = "replying"
        /\ after' = "none"
        /\ UNCHANGED <<initialized, enabled, open>>
     \/ /\ after # "loadFailed"
        /\ initialized
        /\ phase' = "disabling"
        /\ open' = FALSE
        /\ UNCHANGED <<fields, after>>
     \/ after # "loadFailed" /\ ~initialized /\ Disabled /\ UNCHANGED open
  /\ UNCHANGED <<declares, made, handed, registries, before, loaded>>

\* Mutant of Cleaned: the failed load keeps its context.
CleanedKeepsContext ==
  /\ phase = "waiting"
  /\ tasks[context] = 0
  /\ \/ /\ after = "loadFailed"
        /\ phase' = "replying"
        /\ after' = "none"
        /\ UNCHANGED <<fields, open>>
     \/ /\ after # "loadFailed"
        /\ initialized
        /\ phase' = "disabling"
        /\ open' = FALSE
        /\ UNCHANGED <<fields, after>>
     \/ after # "loadFailed" /\ ~initialized /\ Disabled /\ UNCHANGED open
  /\ UNCHANGED <<declares, made, handed, registries, before, loaded>>

\* wait.Wait returned, and cleanup with it: load forgets the context (lines
\* 60-62, 66-68); disable calls OnDisable only if OnLoad had succeeded.
Cleaned ==
  /\ phase = "waiting"
  /\ tasks[context] = 0
  /\ \/ /\ after = "loadFailed"
        /\ context' = None
        /\ phase' = "replying"
        /\ after' = "none"
        /\ UNCHANGED <<initialized, enabled, open>>
     \/ /\ after # "loadFailed"
        /\ initialized
        /\ phase' = "disabling"
        /\ open' = FALSE
        /\ UNCHANGED <<fields, after>>
     \/ after # "loadFailed" /\ ~initialized /\ Disabled /\ UNCHANGED open
  /\ UNCHANGED <<declares, made, handed, registries, before, loaded>>

\* Mutant of OnDisableReturns: a plugin whose OnEnable failed is not answered for.
OnDisableReturnsSilently ==
  /\ phase = "disabling"
  /\ context' = None
  /\ initialized' = FALSE
  /\ enabled' = FALSE
  /\ phase' = IF after = "exit" THEN "exited" ELSE "idle"
  /\ after' = "none"
  /\ UNCHANGED <<declares, made, handed, registries, before, loaded, open>>

\* Whether OnDisable succeeded is only logged.
OnDisableReturns ==
  /\ phase = "disabling"
  /\ Disabled
  /\ UNCHANGED <<declares, made, handed, registries, before, loaded, open>>

-----------------------------------------------------------------------------
(* LOAD: handleLoad and load, lines 38-80 *)

\* The plugin is loaded, the bundle names another plugin, or its command tree
\* cannot be read: nothing is constructed.
LoadRefused ==
  /\ phase = "idle"
  /\ phase' = "replying"
  /\ before' = context
  /\ loaded' = FALSE
  /\ UNCHANGED <<declares, made, handed, fields, registries, after, open>>

LoadBegins ==
  /\ phase = "idle"
  /\ context = None
  /\ made + 1 \in Contexts
  /\ made' = made + 1
  /\ context' = made + 1
  /\ events' = events \cup {made + 1}
  /\ commands' = commands \cup {made + 1}
  /\ scheduler' = scheduler \cup {made + 1}
  /\ before' = context
  /\ loaded' = FALSE
  /\ IF declares
     THEN phase' = "declaring" /\ UNCHANGED handed
     ELSE phase' = "loading" /\ handed' = handed \cup {made + 1}
  /\ UNCHANGED <<declares, initialized, enabled, listeners, handlers, tasks, after, open>>

\* RegisterSet(Commands()), lines 58-64: it may have bound some paths when it fails.
CommandsDeclared ==
  /\ phase = "declaring"
  /\ handlers' \in {handlers, handlers \cup {context}}
  /\ \/ phase' = "loading" /\ handed' = handed \cup {context} /\ UNCHANGED after
     \/ CleanUp("loadFailed") /\ UNCHANGED handed
  /\ UNCHANGED <<declares, made, fields, events, listeners, commands, scheduler, tasks,
                 before, loaded, open>>

\* Nothing recovers a panic in Commands(): the worker unwinds through its
\* deferred disable (session.go:20) and the process ends.
CommandsPanics ==
  /\ phase = "declaring"
  /\ CleanUp("panic")
  /\ UNCHANGED <<declares, made, handed, fields, registries, before, loaded, open>>

\* Mutant of OnLoadReturns: initialized is left for OnEnable's success to set.
OnLoadForgetsInitialized ==
  /\ phase = "loading"
  /\ \/ /\ phase' = "enabling"
        /\ open' = TRUE
        /\ UNCHANGED <<initialized, after>>
     \/ CleanUp("loadFailed") /\ UNCHANGED <<initialized, open>>
  /\ UNCHANGED <<declares, made, handed, context, enabled, registries, before, loaded>>

\* Mutant of OnLoadReturns: a failed OnLoad drops the context without cleanup.
OnLoadSkipsCleanUp ==
  /\ phase = "loading"
  /\ \/ /\ initialized' = TRUE
        /\ phase' = "enabling"
        /\ open' = TRUE
        /\ UNCHANGED context
     \/ phase' = "replying" /\ context' = None /\ UNCHANGED <<initialized, open>>
  /\ UNCHANGED <<declares, made, handed, enabled, registries, after, before, loaded>>

OnLoadReturns ==
  /\ phase = "loading"
  /\ \/ /\ initialized' = TRUE
        /\ phase' = "enabling"
        /\ open' = TRUE
        /\ UNCHANGED after
     \/ CleanUp("loadFailed") /\ UNCHANGED <<initialized, open>>
  /\ UNCHANGED <<declares, made, handed, context, enabled, registries, before, loaded>>

OnEnableReturns ==
  /\ phase = "enabling"
  /\ \/ /\ enabled' = TRUE
        /\ loaded' = TRUE
        /\ phase' = "replying"
        /\ UNCHANGED after
     \/ CleanUp("enableFailed") /\ UNCHANGED <<enabled, loaded>>
  /\ UNCHANGED <<declares, made, handed, context, initialized, registries, before, open>>

Reply ==
  /\ phase = "replying"
  /\ phase' = "idle"
  /\ UNCHANGED <<declares, made, handed, fields, registries, after, before, loaded, open>>

-----------------------------------------------------------------------------
(* The other requests, and the end of the session *)

\* Mutant of Handle: neither enabled nor the context is looked at.
HandleUnchecked ==
  /\ phase = "idle"
  /\ phase' = "handling"
  /\ UNCHANGED <<declares, made, handed, fields, registries, after, before, loaded, open>>

\* DISPATCH or INVOKE: a handler runs on the worker, if the plugin is enabled;
\* if not the request is answered with an error and nothing changes.
Handle ==
  /\ phase = "idle"
  /\ enabled
  /\ context # None
  /\ phase' = "handling"
  /\ UNCHANGED <<declares, made, handed, fields, registries, after, before, loaded, open>>

HandlerReturns ==
  /\ phase = "handling"
  /\ phase' = "idle"
  /\ UNCHANGED <<declares, made, handed, fields, registries, after, before, loaded, open>>

\* UNLOAD under the plugin's own id; another id is only logged, and an UNLOAD
\* with nothing loaded does nothing.
Unload ==
  /\ phase = "idle"
  /\ context # None
  /\ CleanUp("unload")
  /\ UNCHANGED <<declares, made, handed, fields, registries, before, loaded, open>>

\* The work channel is closed and drained: the deferred disable.
WorkEnds ==
  /\ phase = "idle"
  /\ IF context = None
     THEN phase' = "exited" /\ UNCHANGED after
     ELSE CleanUp("exit")
  /\ UNCHANGED <<declares, made, handed, fields, registries, before, loaded, open>>

-----------------------------------------------------------------------------

\* newRuntimeState
Init ==
  /\ declares \in BOOLEAN
  /\ made = 0
  /\ handed = {}
  /\ context = None
  /\ initialized = FALSE
  /\ enabled = FALSE
  /\ events = {}
  /\ listeners = {}
  /\ commands = {}
  /\ handlers = {}
  /\ scheduler = {}
  /\ tasks = [g \in Contexts |-> 0]
  /\ phase = "idle"
  /\ after = "none"
  /\ before = None
  /\ loaded = FALSE
  /\ open = FALSE

\* What the worker does once it has taken a request.
Proceed ==
  \/ CommandsDeclared \/ CommandsPanics \/ OnLoadReturns \/ OnEnableReturns \/ Reply
  \/ HandlerReturns
  \/ ClearEvents \/ ClearCommands \/ StopScheduler \/ Cleaned \/ OnDisableReturns

Next ==
  \/ LoadRefused \/ LoadBegins \/ Handle \/ Unload \/ WorkEnds
  \/ Proceed
  \/ \E g \in Contexts : On(g) \/ Register(g) \/ Schedule(g) \/ TaskEnds(g)

\* Callbacks return and the worker goes on. A task that its scheduler has
\* cancelled ends (CancelledTaskEnds of Scheduler.tla), a task of an active
\* scheduler need not.
Fairness ==
  /\ WF_vars(Proceed)
  /\ \A g \in Contexts : WF_vars(g \notin scheduler /\ TaskEnds(g))

Spec == Init /\ [][Next]_vars /\ Fairness
-----------------------------------------------------------------------------
(* Properties *)

TypeOK ==
  /\ declares \in BOOLEAN
  /\ made \in Contexts \cup {0}
  /\ handed \subseteq Contexts
  /\ context \in Contexts \cup {None}
  /\ initialized \in BOOLEAN
  /\ enabled \in BOOLEAN
  /\ events \cup listeners \cup commands \cup handlers \cup scheduler \subseteq Contexts
  /\ tasks \in [Contexts -> 0..MaxTasks]
  /\ phase \in Phases
  /\ after \in Reasons
  /\ before \in Contexts \cup {None}
  /\ loaded \in BOOLEAN
  /\ open \in BOOLEAN

Dead(g) ==
  /\ g \notin events \cup listeners \cup commands \cup handlers \cup scheduler
  /\ tasks[g] = 0

\* A context the runtime has let go of is dead for good: no registry of it
\* takes or holds anything and none of its tasks is left, on every path that
\* sets runtimeState.context to nil (lifecycle.go:60-61, 66-67, 86-91).
StaleContextsAreDead == \A g \in Contexts \ {context} : Dead(g)

\* OnDisable runs after the registries have been closed and with no task of
\* the plugin running beside it (lifecycle.go:86-89).
OnDisableRunsAlone == phase = "disabling" => \A g \in Contexts : Dead(g)

\* OnDisable is called exactly once for every OnLoad that succeeded and never
\* for one that did not, whether OnEnable failed, the host unloaded the plugin
\* or the session ended (lifecycle.go:70-76, 88-90).
DisablePairsWithLoad ==
  /\ phase = "loading" => ~open
  /\ phase \in {"idle", "replying", "exited", "crashed"} => (open <=> context # None)
  /\ phase = "waiting" => (open <=> initialized)

\* A LOAD answered with FAIL left the runtime as it found it: with nothing of
\* its own loaded, and with an earlier load still there (lifecycle.go:39-76).
FailedLoadLeavesNothing ==
  phase = "replying" => IF loaded THEN before = None /\ enabled ELSE context = before

\* Handlers run only between a successful OnEnable and the cleanup, with the
\* registry they were found in still open (dispatch.go:10-12, command_dispatch.go:17-19).
HandlersRunEnabled == phase = "handling" => /\ context \in events \cap commands \cap scheduler
                                            /\ open

\* Every LOAD that constructs something is answered, unless Commands() took the
\* process down.
LoadIsAnswered == phase \in {"declaring", "loading"} ~> phase \in {"replying", "crashed"}

\* The end of the session ends the worker: no task can keep stop waiting by
\* scheduling another.
WorkerExits == after = "exit" ~> phase = "exited"
=============================================================================
