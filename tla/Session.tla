------------------------------ MODULE Session ------------------------------
(***************************************************************************)
(* serve (session.go): the read loop takes messages off the connection,    *)
(* answers PING and hands over EMITTED itself, and passes requests through *)
(* a bounded channel to one worker, which runs the plugin's code.  A       *)
(* handler or a task of the plugin may park inside Emit until the host     *)
(* answers; disabling waits for the tasks; and the read loop waits for     *)
(* the worker before it returns and, in a deferred call, releases whoever  *)
(* is still parked.                                                        *)
(*                                                                         *)
(* Lifecycle.tla has loading and disabling in full and Emitter.tla the     *)
(* exchange behind Emit; here each is one step.                            *)
(***************************************************************************)
EXTENDS Naturals, Sequences, SequencesExt

CONSTANTS Cap,          \* the capacity of the work channel, 8 in session.go
          MaxRequests,  \* bound: the requests the host ever sends
          Tasks,        \* goroutines of the plugin's scheduler
          Sessions      \* the hosts and plugins considered

\* window: the requests the host leaves unfinished at once; ends: does it ever end
\* the session? emits: does the plugin emit? returns: do its callbacks return?
Circumstances == [window : Nat, ends : BOOLEAN, emits : BOOLEAN, returns : BOOLEAN]

ASSUME SessionAssumption ==
  /\ {Cap, MaxRequests} \subseteq Nat
  /\ Sessions \subseteq Circumstances
  /\ "worker" \notin Tasks

VARIABLES
  session,   \* which of Sessions this is: it stays that
  wire,      \* what the host has sent and the read loop has not received
  sent,      \* requests sent so far: they are numbered from 1
  reader,    \* where the read loop is
  hand,      \* the request it has received and not yet placed
  accepted,  \* history: requests received
  work,      \* the work channel
  closed,    \* it is closed
  worker,    \* where the worker is
  job,       \* the request it is on
  handled,   \* history: the numbers of the requests it has finished, in order
  active,    \* a plugin is loaded and its registries are open
  running,   \* tasks whose goroutine exists
  parked,    \* goroutines inside Emit, waiting for an answer
  asked      \* emissions the host has received and not answered

vars == <<session, wire, sent, reader, hand, accepted, work, closed, worker, job, handled,
          active, running, parked, asked>>

Goroutines == Tasks \cup {"worker"}

Request(n, kind) == [is |-> "request", n |-> n, kind |-> kind]
Emitted(p) == [is |-> "emitted", to |-> p]
Ping == [is |-> "ping"]

\* SHUTDOWN, the end of the stream, a broken frame or a message no plugin
\* expects: what is left of the session is the same.
End == [is |-> "end"]

NoRequest == Request(0, "none")
Deferred == Request(0, "deferred")  \* the worker's deferred disable
-----------------------------------------------------------------------------
(* The host: external *)

HostSends(m) ==
  /\ End \notin Range(wire)
  /\ reader \in {"receiving", "placing"}
  /\ wire' = Append(wire, m)

\* LOAD, DISPATCH and INVOKE are answered; UNLOAD is not.
HostRequests(kind) ==
  /\ sent < MaxRequests
  /\ sent - Len(handled) < session.window
  /\ HostSends(Request(sent + 1, kind))
  /\ sent' = sent + 1
  /\ UNCHANGED <<session, reader, hand, accepted, work, closed, worker, job, handled, active,
                 running, parked, asked>>

HostPings ==
  /\ Ping \notin Range(wire)
  /\ HostSends(Ping)
  /\ UNCHANGED <<session, sent, reader, hand, accepted, work, closed, worker, job, handled,
                 active, running, parked, asked>>

HostAnswers(p) ==
  /\ p \in asked
  /\ HostSends(Emitted(p))
  /\ asked' = asked \ {p}
  /\ UNCHANGED <<session, sent, reader, hand, accepted, work, closed, worker, job, handled,
                 active, running, parked>>

HostEnds ==
  /\ session.ends
  /\ HostSends(End)
  /\ UNCHANGED <<session, sent, reader, hand, accepted, work, closed, worker, job, handled,
                 active, running, parked, asked>>

-----------------------------------------------------------------------------
(* The read loop, lines 31-64 *)

Receive ==
  /\ reader = "receiving"
  /\ wire # <<>>
  /\ Head(wire).is = "request"
  /\ hand' = Head(wire)
  /\ accepted' = accepted + 1
  /\ reader' = "placing"
  /\ wire' = Tail(wire)
  /\ UNCHANGED <<session, sent, work, closed, worker, job, handled, active, running, parked,
                 asked>>

\* Mutant of Place: the channel never fills.
PlaceAlways ==
  /\ reader = "placing"
  /\ work' = Append(work, hand)
  /\ hand' = NoRequest
  /\ reader' = "receiving"
  /\ UNCHANGED <<session, wire, sent, accepted, closed, worker, job, handled, active, running,
                 parked, asked>>

\* Line 59: blocks while the channel is full.
Place ==
  /\ reader = "placing"
  /\ Len(work) < Cap
  /\ work' = Append(work, hand)
  /\ hand' = NoRequest
  /\ reader' = "receiving"
  /\ UNCHANGED <<session, wire, sent, accepted, closed, worker, job, handled, active, running,
                 parked, asked>>

\* Mutant of Pong: PING waits for the worker to be free.
PongWhenIdle ==
  /\ reader = "receiving"
  /\ wire # <<>>
  /\ Head(wire) = Ping
  /\ worker = "idle"
  /\ wire' = Tail(wire)
  /\ UNCHANGED <<session, sent, reader, hand, accepted, work, closed, worker, job, handled,
                 active, running, parked, asked>>

Pong ==
  /\ reader = "receiving"
  /\ wire # <<>>
  /\ Head(wire) = Ping
  /\ wire' = Tail(wire)
  /\ UNCHANGED <<session, sent, reader, hand, accepted, work, closed, worker, job, handled,
                 active, running, parked, asked>>

\* Mutant of Deliver: EMITTED is queued behind the work channel.
DeliverBehindWork ==
  /\ reader = "receiving"
  /\ wire # <<>>
  /\ Head(wire).is = "emitted"
  /\ worker = "idle" /\ work = <<>>
  /\ parked' = parked \ {Head(wire).to}
  /\ wire' = Tail(wire)
  /\ UNCHANGED <<session, sent, reader, hand, accepted, work, closed, worker, job, handled,
                 active, running, asked>>

\* Lines 47-51: whoever is parked on the answer goes on.
Deliver ==
  /\ reader = "receiving"
  /\ wire # <<>>
  /\ Head(wire).is = "emitted"
  /\ parked' = parked \ {Head(wire).to}
  /\ wire' = Tail(wire)
  /\ UNCHANGED <<session, sent, reader, hand, accepted, work, closed, worker, job, handled,
                 active, running, asked>>

\* Mutant of Stop: waits for the worker without closing the channel.
StopWithoutClose ==
  /\ reader = "receiving"
  /\ wire # <<>>
  /\ Head(wire) = End
  /\ reader' = "stopping"
  /\ wire' = Tail(wire)
  /\ UNCHANGED <<session, sent, hand, accepted, work, closed, worker, job, handled, active,
                 running, parked, asked>>

\* stop, lines 25-28, on every path that ends the loop.
Stop ==
  /\ reader = "receiving"
  /\ wire # <<>>
  /\ Head(wire) = End
  /\ closed' = TRUE
  /\ reader' = "stopping"
  /\ wire' = Tail(wire)
  /\ UNCHANGED <<session, sent, hand, accepted, work, worker, job, handled, active, running,
                 parked, asked>>

\* <-stopped, then the deferred calls: the connection closes and the emitter
\* shuts down, which releases everybody parked.
Return ==
  /\ reader = "stopping"
  /\ worker = "gone"
  /\ reader' = "returned"
  /\ parked' = {}
  /\ UNCHANGED <<session, wire, sent, hand, accepted, work, closed, worker, job, handled,
                 active, running, asked>>

-----------------------------------------------------------------------------
(* The worker, lines 18-24, and handle *)

Finished(r) == handled' = IF r = Deferred THEN handled ELSE Append(handled, r.n)

\* A request that runs no plugin code: a LOAD of a loaded plugin or one that
\* load refuses, a DISPATCH or INVOKE that does not decode or finds nothing
\* enabled, an UNLOAD with nothing loaded, any of them under another id.
TakeRefused ==
  /\ worker = "idle"
  /\ work # <<>>
  /\ Finished(Head(work))
  /\ work' = Tail(work)
  /\ UNCHANGED <<session, wire, sent, reader, hand, accepted, closed, worker, job, active,
                 running, parked, asked>>

\* LOAD constructs the context before it calls the plugin, so the plugin is
\* active in OnLoad already; UNLOAD closes the registries before it waits.
Take ==
  /\ worker = "idle"
  /\ work # <<>>
  /\ CASE Head(work).kind = "load" -> ~active /\ worker' = "running" /\ active' = TRUE
       [] Head(work).kind = "event" -> active /\ worker' = "running" /\ UNCHANGED active
       [] Head(work).kind = "unload" -> active /\ worker' = "disabling" /\ active' = FALSE
  /\ job' = Head(work)
  /\ work' = Tail(work)
  /\ UNCHANGED <<session, wire, sent, reader, hand, accepted, closed, handled, running,
                 parked, asked>>

\* The handler, or OnLoad and OnEnable, returned and the reply is sent.
PluginReturns ==
  /\ worker = "running"
  /\ "worker" \notin parked
  /\ \/ /\ Finished(job)
        /\ worker' = "idle"
        /\ job' = NoRequest
        /\ UNCHANGED active
     \/ /\ job.kind = "load"
        /\ worker' = "disabling"
        /\ active' = FALSE
        /\ UNCHANGED <<job, handled>>
  /\ UNCHANGED <<session, wire, sent, reader, hand, accepted, work, closed, running, parked,
                 asked>>

\* range ends when the channel is closed and empty; then the deferred disable.
Drained ==
  /\ worker = "idle"
  /\ closed
  /\ work = <<>>
  /\ IF active
     THEN worker' = "disabling" /\ job' = Deferred /\ active' = FALSE
     ELSE worker' = "gone" /\ UNCHANGED <<job, active>>
  /\ UNCHANGED <<session, wire, sent, reader, hand, accepted, work, closed, handled, running,
                 parked, asked>>

\* Mutant of Disabled: disabling does not wait for the scheduler's tasks.
DisabledAtOnce ==
  /\ worker = "disabling"
  /\ Finished(job)
  /\ worker' = IF job = Deferred THEN "gone" ELSE "idle"
  /\ job' = NoRequest
  /\ UNCHANGED <<session, wire, sent, reader, hand, accepted, work, closed, active, running,
                 parked, asked>>

\* The scheduler's stop has waited for every task.
Disabled ==
  /\ worker = "disabling"
  /\ running = {}
  /\ Finished(job)
  /\ worker' = IF job = Deferred THEN "gone" ELSE "idle"
  /\ job' = NoRequest
  /\ UNCHANGED <<session, wire, sent, reader, hand, accepted, work, closed, active, running,
                 parked, asked>>

-----------------------------------------------------------------------------
(* Plugin code, on the worker or in a task *)

InPlugin(p) ==
  /\ p \notin parked
  /\ IF p = "worker" THEN worker = "running" ELSE p \in running

Schedule(t) ==
  /\ active
  /\ t \notin running
  /\ \E p \in Goroutines : InPlugin(p)
  /\ running' = running \cup {t}
  /\ UNCHANGED <<session, wire, sent, reader, hand, accepted, work, closed, worker, job,
                 handled, active, parked, asked>>

TaskEnds(t) ==
  /\ t \in running \ parked
  /\ running' = running \ {t}
  /\ UNCHANGED <<session, wire, sent, reader, hand, accepted, work, closed, worker, job,
                 handled, active, parked, asked>>

\* Emit: the registry is active and the request reaches the host.
Emit(p) ==
  /\ session.emits
  /\ active
  /\ InPlugin(p)
  /\ parked' = parked \cup {p}
  /\ asked' = asked \cup {p}
  /\ UNCHANGED <<session, wire, sent, reader, hand, accepted, work, closed, worker, job,
                 handled, active, running>>

-----------------------------------------------------------------------------

Init ==
  /\ session \in Sessions
  /\ wire = <<>>
  /\ sent = 0
  /\ reader = "receiving"
  /\ hand = NoRequest
  /\ accepted = 0
  /\ work = <<>>
  /\ closed = FALSE
  /\ worker = "idle"
  /\ job = NoRequest
  /\ handled = <<>>
  /\ active = FALSE
  /\ running = {}
  /\ parked = {}
  /\ asked = {}

ReaderStep == Receive \/ Place \/ Pong \/ Deliver \/ Stop \/ Return
WorkerStep == TakeRefused \/ Take \/ Drained \/ Disabled

Next ==
  \/ \E kind \in {"load", "event", "unload"} : HostRequests(kind)
  \/ HostPings \/ HostEnds \/ (\E p \in Goroutines : HostAnswers(p))
  \/ ReaderStep
  \/ WorkerStep \/ PluginReturns
  \/ \E t \in Tasks : Schedule(t) \/ TaskEnds(t)
  \/ \E p \in Goroutines : Emit(p)

\* The two goroutines of serve run, and the host, as emit.go:145-146 has it,
\* always answers an emission.
Fairness ==
  /\ WF_vars(ReaderStep)
  /\ WF_vars(WorkerStep)
  /\ \A p \in Goroutines : WF_vars(HostAnswers(p))

\* What plugin code owes only where its callbacks return: they do, rather than emit
\* for ever, and a task ends once its scheduler stopped.
PluginFairness ==
  /\ SF_vars(session.returns /\ PluginReturns)
  /\ \A t \in Tasks : WF_vars(session.returns /\ ~active /\ TaskEnds(t))

Spec == Init /\ [][Next]_vars /\ Fairness /\ PluginFairness
-----------------------------------------------------------------------------
(* Properties *)

Requests == [is : {"request"}, n : 1..MaxRequests, kind : {"load", "event", "unload"}]
Messages == Requests \cup [is : {"emitted"}, to : Goroutines] \cup {Ping, End}

TypeOK ==
  /\ session \in Sessions
  /\ wire \in Seq(Messages)
  /\ sent \in 0..MaxRequests
  /\ reader \in {"receiving", "placing", "stopping", "returned"}
  /\ hand \in Requests \cup {NoRequest}
  /\ accepted \in 0..sent
  /\ work \in Seq(Requests) /\ Len(work) <= Cap
  /\ closed \in BOOLEAN
  /\ worker \in {"idle", "running", "disabling", "gone"}
  /\ job \in Requests \cup {NoRequest, Deferred}
  /\ handled \in Seq(1..MaxRequests)
  /\ active \in BOOLEAN
  /\ running \subseteq Tasks
  /\ parked \subseteq Goroutines
  /\ asked \subseteq Goroutines

\* No goroutine of the plugin outlives serve, which returns into main
\* (session.go:20, lifecycle.go:97-101).
NobodyOutlivesServe == reader = "returned" => running = {} /\ parked = {} /\ ~active

Accepted == INSTANCE Mailbox WITH
  received <- accepted, finished <- handled,
  over <- reader \in {"stopping", "returned"}, returned <- reader = "returned"

\* The read loop, the bounded channel and the worker implement a mailbox: every
\* request received is finished, in order, though the channel was full, a load
\* failed or the session ended meanwhile; and serve then returns, never before
\* (session.go:16-28, 52-59). A plugin that does not return from a callback keeps
\* its request for ever, and the promise is then only that of safety.
ImplementsMailbox == Accepted!Safety /\ (session.returns => Accepted!Liveness)

\* PING is answered however long a handler takes (session.go:41-46): the read
\* loop does not wait for the worker.
PingIsAnswered == Ping \in Range(wire) ~> Ping \notin Range(wire)

\* Whoever is parked in Emit is handed the host's answer, though it may be the
\* worker itself that is parked, with requests queued behind it (session.go:48-51).
EmissionsReturn == \A p \in Goroutines : p \in parked ~> p \notin parked

\* "if it dies instead, the read loop closes this channel rather than leaving
\* the caller parked forever" (emit.go:146-147).
EndReleasesCallers ==
  \A p \in Goroutines : reader = "stopping" /\ p \in parked ~> p \notin parked
=============================================================================
