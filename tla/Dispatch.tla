------------------------------ MODULE Dispatch -----------------------------
(***************************************************************************)
(* Answering DISPATCH and INVOKE (dispatch.go, command_dispatch.go,        *)
(* control.go, and the calls in event_registry.go, command_registry.go and *)
(* session_handle.go around them).  The worker runs the handlers of one    *)
(* request after another; they cancel, reply, write into the payload, and  *)
(* queue effects through the handles of the request, which are sealed when *)
(* it is answered.  An answer the encoder refuses goes out bare.           *)
(* A handle can be kept: by a later handler, and, for the goroutines in    *)
(* Keepers, by plugin code that runs beside the worker.                    *)
(*                                                                         *)
(* effects has no lock, so one step is one of its reads or writes: the     *)
(* look at sealed, the read of the slice, the write of it, the sealing,    *)
(* the reading of the queue for the answer.                                *)
(***************************************************************************)
EXTENDS Naturals, Sequences, FiniteSetsExt, SequencesExt

CONSTANTS MaxRequests,  \* bound: requests ever received
          MaxHandlers,  \* bound: handlers that listen to one event
          MaxCalls,     \* bound: calls of SendMessage and Reply
          Keepers,      \* goroutines beside the worker that keep handles
          None

ASSUME DispatchAssumption ==
  /\ {MaxRequests, MaxHandlers, MaxCalls} \subseteq Nat
  /\ "worker" \notin Keepers

Requests == 1..MaxRequests
Calls == 1..MaxCalls
Goroutines == Keepers \cup {"worker"}

\* custom: another plugin's event, handed out as a CustomDispatch. cancellable:
\* nativeCancellable of a native event, TRUE of a custom one. deny: event.OnFailure
\* == FailureDeny.
Kinds == {k \in [is : {"event"}, custom : BOOLEAN, cancellable : BOOLEAN, deny : BOOLEAN] :
            k.custom => k.cancellable}
           \cup [is : {"command"}, custom : {FALSE}, cancellable : {FALSE}, deny : {FALSE}]

VARIABLES
  current,    \* requests taken so far; the last is the one in hand
  kind,       \* what each request is
  pc,         \* where the worker is with it
  snapshot,   \* how many handlers it found
  ran,        \* how many of them it has called
  cancelled,  \* control.cancelled
  replies,    \* CommandContext.replies
  failed,     \* the request could not be decoded or run, or its handler failed
  queue,      \* effects.queue of each request: the calls queued
  sealed,     \* requests whose effects are sealed
  op,         \* the add each goroutine is inside of
  calls,      \* calls made so far
  accepted,   \* history: <<request, call>> for which add returned nil
  outside,    \* history: requests a keeper found open and added to
  spoken,     \* history: calls of Reply in the command in hand
  handles,    \* requests a handler has run for: the ones plugin code holds handles of
  refused,    \* history: requests one of whose handlers called Cancel
  spoilt,     \* requests among whose mutations is a Value of no kind
  answer      \* what was sent for each request

vars == <<current, kind, pc, snapshot, ran, cancelled, replies, failed, queue,
          sealed, op, calls, accepted, outside, spoken, handles, refused, spoilt, answer>>

\* What the request in hand is about, and what a goroutine's add works with.
request == <<current, kind, snapshot>>
handling == <<ran, cancelled, refused, replies, failed, spoken, handles, spoilt>>
sinks == <<queue, sealed, op, accepted, outside>>

InHand == kind[current]
Idle == [at |-> "idle", to |-> 0, call |-> 0, seen |-> <<>>]

-----------------------------------------------------------------------------
(* Taking a request *)

\* Mutant of Begin: the control of the last request is used again.
BeginReuses(k) ==
  /\ pc = "idle"
  /\ current + 1 \in Requests
  /\ current' = current + 1
  /\ kind' = [kind EXCEPT ![current + 1] = k]
  /\ snapshot' \in IF k.is = "event" THEN 0..MaxHandlers ELSE {1}
  /\ ran' = 0
  /\ UNCHANGED cancelled
  /\ replies' = <<>>
  /\ spoken' = {}
  /\ failed' = FALSE
  /\ pc' = "calling"
  /\ UNCHANGED <<sinks, handles, refused, spoilt, calls, answer>>

\* A decoded request for an enabled plugin: a control of its own, and the
\* handlers registered at this moment (event_registry.go:42, command_registry.go:41).
Begin(k) ==
  /\ pc = "idle"
  /\ current + 1 \in Requests
  /\ current' = current + 1
  /\ kind' = [kind EXCEPT ![current + 1] = k]
  /\ snapshot' \in IF k.is = "event" THEN 0..MaxHandlers ELSE {1}
  /\ ran' = 0
  /\ cancelled' = FALSE
  /\ replies' = <<>>
  /\ spoken' = {}
  /\ failed' = FALSE
  /\ pc' = "calling"
  /\ UNCHANGED <<sinks, handles, refused, spoilt, calls, answer>>

\* One that does not decode, is for another plugin, finds nothing enabled or
\* names no executor: it runs no handler, and there is nothing to seal. An event
\* that does not decode at all cannot say that it denies (session_handle.go:87).
BeginFails(k) ==
  /\ pc = "idle"
  /\ current + 1 \in Requests
  /\ current' = current + 1
  /\ kind' = [kind EXCEPT ![current + 1] = k]
  /\ snapshot' = 0
  /\ ran' = 0
  /\ cancelled' = FALSE
  /\ replies' = <<>>
  /\ spoken' = {}
  /\ failed' = TRUE
  /\ pc' = "sealed"
  /\ UNCHANGED <<sinks, handles, refused, spoilt, calls, answer>>

-----------------------------------------------------------------------------
(* Handlers *)

\* Mutant of CallHandler: one step past the last handler.
CallHandlerOnceMore ==
  /\ pc = "calling"
  /\ ran <= snapshot
  /\ ran' = ran + 1
  /\ handles' = handles \cup {current}
  /\ pc' = "handler"
  /\ UNCHANGED <<request, cancelled, refused, replies, failed, spoken, spoilt, sinks, calls,
                 answer>>

CallHandler ==
  /\ pc = "calling"
  /\ ran < snapshot
  /\ ran' = ran + 1
  /\ handles' = handles \cup {current}
  /\ pc' = "handler"
  /\ UNCHANGED <<request, cancelled, refused, replies, failed, spoken, spoilt, sinks, calls,
                 answer>>

\* control.Cancel
Cancel ==
  /\ pc = "handler"
  /\ op["worker"] = Idle
  /\ InHand.is = "event"
  /\ cancelled' = TRUE
  /\ refused' = refused \cup {current}
  /\ UNCHANGED <<request, pc, ran, replies, failed, spoken, handles, spoilt, sinks, calls,
                 answer>>

\* CommandContext.Reply
Reply ==
  /\ pc = "handler"
  /\ op["worker"] = Idle
  /\ InHand.is = "command"
  /\ calls + 1 \in Calls
  /\ calls' = calls + 1
  /\ replies' = Append(replies, calls + 1)
  /\ spoken' = spoken \cup {calls + 1}
  /\ UNCHANGED <<request, pc, ran, cancelled, refused, failed, handles, spoilt, sinks, answer>>

\* The handler returned. A command's error travels in the result.
HandlerReturns ==
  /\ pc = "handler"
  /\ op["worker"] = Idle
  /\ failed' \in IF InHand.is = "command" THEN BOOLEAN ELSE {failed}
  /\ pc' = "calling"
  /\ UNCHANGED <<request, ran, cancelled, refused, replies, spoken, handles, spoilt, sinks,
                 calls, answer>>

\* Recovered: an event goes on to the next handler (event_registry.go:49-57);
\* a command fails, and its named result is still nil (command_registry.go:39, 50-58).
HandlerPanics ==
  /\ pc = "handler"
  /\ op["worker"] = Idle
  /\ IF InHand.is = "command"
     THEN failed' = TRUE /\ replies' = <<>>
     ELSE UNCHANGED <<failed, replies>>
  /\ pc' = "calling"
  /\ UNCHANGED <<request, ran, cancelled, refused, spoken, handles, spoilt, sinks, calls,
                 answer>>

-----------------------------------------------------------------------------
(* Through a handle of a request: its payload, and effects.add *)

\* Plugin code that can run now: a handler, or a keeper at any time.
Acts(g) == g \in Keepers \/ pc = "handler"

\* CustomDispatch.Set with a Value nobody gave a kind: it is recorded like any
\* other, so that it is the encoder that refuses it (receive.go:149-178). A keeper's
\* write that comes too late, or is lost to the handler's, is none.
WriteNoKind(g) ==
  /\ Acts(g)
  /\ op[g] = Idle
  /\ pc # "idle"
  /\ current \in handles
  /\ InHand.custom
  /\ spoilt' = spoilt \cup {current}
  /\ UNCHANGED <<request, pc, ran, cancelled, refused, replies, failed, spoken, handles, sinks,
                 calls, answer>>

\* Mutant of AddChecks: sealed is not looked at.
AddUnchecked(g, d) ==
  /\ Acts(g)
  /\ op[g] = Idle
  /\ d \in handles
  /\ calls + 1 \in Calls
  /\ calls' = calls + 1
  /\ op' = [op EXCEPT ![g] = [at |-> "checked", to |-> d, call |-> calls + 1, seen |-> <<>>]]
  /\ outside' = outside \cup (IF g \in Keepers THEN {d} ELSE {})
  /\ UNCHANGED <<request, pc, handling, queue, sealed, accepted, answer>>

\* Line 62 of control.go found the queue open; if it is sealed add returns an error and
\* changes nothing.
AddChecks(g, d) ==
  /\ Acts(g)
  /\ op[g] = Idle
  /\ d \in handles
  /\ d \notin sealed
  /\ calls + 1 \in Calls
  /\ calls' = calls + 1
  /\ op' = [op EXCEPT ![g] = [at |-> "checked", to |-> d, call |-> calls + 1, seen |-> <<>>]]
  /\ outside' = outside \cup (IF g \in Keepers THEN {d} ELSE {})
  /\ UNCHANGED <<request, pc, handling, queue, sealed, accepted, answer>>

\* The append on line 65 reads the slice ...
AddReads(g) ==
  /\ op[g].at = "checked"
  /\ op' = [op EXCEPT ![g].at = "read", ![g].seen = queue[op[g].to]]
  /\ UNCHANGED <<request, pc, handling, queue, sealed, accepted, outside, calls, answer>>

\* ... and writes it, over whatever was written since.
AddWrites(g) ==
  /\ op[g].at = "read"
  /\ queue' = [queue EXCEPT ![op[g].to] = Append(op[g].seen, op[g].call)]
  /\ accepted' = accepted \cup {<<op[g].to, op[g].call>>}
  /\ op' = [op EXCEPT ![g] = Idle]
  /\ UNCHANGED <<request, pc, handling, sealed, outside, calls, answer>>

-----------------------------------------------------------------------------
(* Answering *)

\* control.verdict, control.go:94; command_dispatch.go:30.
Seal ==
  /\ pc = "calling"
  /\ ran = snapshot
  /\ sealed' = sealed \cup {current}
  /\ pc' = "sealed"
  /\ UNCHANGED <<request, handling, queue, op, accepted, outside, calls, answer>>

\* dispatch.go:29, session_handle.go:86-89.
Verdict ==
  IF failed THEN InHand.deny ELSE cancelled /\ InHand.cancellable

\* What the handlers asked for. A command's replies come first, whatever order its
\* handler made the calls in.
Result == replies \o queue[current]

\* Whether EncodeVerdict or EncodeCommandResult takes the answer. The effects are all
\* of the library's making and of one type, so a verdict fails only on a mutation; a
\* command's result holds nothing but effects, and handleInvoke reckons with either.
Encodes == IF InHand.is = "command" /\ Result # <<>> THEN BOOLEAN ELSE {current \notin spoilt}

\* Mutant of Send: a request that failed is logged and not answered.
SendIfHandled ==
  /\ pc = "sealed"
  /\ \E encoded \in Encodes :
       answer' = [answer EXCEPT ![current] = IF failed THEN None ELSE
         [cancelled |-> Verdict, failed |-> failed, encoded |-> encoded,
          effects |-> IF encoded THEN Result ELSE <<>>]]
  /\ pc' = "idle"
  /\ UNCHANGED <<request, handling, sinks, calls>>

\* The queue is read and the answer sent. If it does not encode, what is sent in
\* its place is bare: a verdict that says only whether the event is cancelled
\* (lines 92-96 of session_handle.go), a command's error (lines 117-121).
Send ==
  /\ pc = "sealed"
  /\ \E encoded \in Encodes :
       answer' = [answer EXCEPT ![current] =
         [cancelled |-> Verdict, failed |-> failed, encoded |-> encoded,
          effects |-> IF encoded THEN Result ELSE <<>>]]
  /\ pc' = "idle"
  /\ UNCHANGED <<request, handling, sinks, calls>>

-----------------------------------------------------------------------------

Init ==
  /\ current = 0
  /\ kind = [d \in Requests |-> None]
  /\ pc = "idle"
  /\ snapshot = 0
  /\ ran = 0
  /\ cancelled = FALSE
  /\ replies = <<>>
  /\ failed = FALSE
  /\ queue = [d \in Requests |-> <<>>]
  /\ sealed = {}
  /\ op = [g \in Goroutines |-> Idle]
  /\ calls = 0
  /\ accepted = {}
  /\ outside = {}
  /\ spoken = {}
  /\ handles = {}
  /\ refused = {}
  /\ spoilt = {}
  /\ answer = [d \in Requests |-> None]

Next ==
  \/ \E k \in Kinds : Begin(k) \/ BeginFails(k)
  \/ CallHandler \/ Cancel \/ Reply \/ HandlerReturns \/ HandlerPanics
  \/ \E g \in Goroutines : \/ AddReads(g) \/ AddWrites(g) \/ WriteNoKind(g)
                           \/ \E d \in Requests : AddChecks(g, d)
  \/ Seal \/ Send

\* The worker goes on, handlers return, and an add that began ends.
Fairness ==
  /\ WF_vars(CallHandler \/ HandlerReturns \/ Seal \/ Send)
  /\ \A g \in Goroutines : WF_vars(AddReads(g) \/ AddWrites(g))

Spec == Init /\ [][Next]_vars /\ Fairness
-----------------------------------------------------------------------------
(* Properties *)

Sent == [cancelled : BOOLEAN, failed : BOOLEAN, encoded : BOOLEAN, effects : Seq(Calls)]

TypeOK ==
  /\ current \in Requests \cup {0}
  /\ kind \in [Requests -> Kinds \cup {None}]
  /\ pc \in {"idle", "calling", "handler", "sealed"}
  /\ snapshot \in 0..MaxHandlers \cup {1} /\ ran \in 0..snapshot
  /\ {cancelled, failed} \subseteq BOOLEAN
  /\ replies \in Seq(Calls)
  /\ queue \in [Requests -> Seq(Calls)]
  /\ sealed \subseteq Requests
  /\ op \in [Goroutines -> [at : {"idle", "checked", "read"}, to : Requests \cup {0},
                            call : Calls \cup {0}, seen : Seq(Calls)]]
  /\ calls \in Calls \cup {0}
  /\ accepted \subseteq Requests \X Calls
  /\ spoken \subseteq Calls
  /\ handles \cup refused \cup spoilt \cup outside \subseteq Requests
  /\ answer \in [Requests -> Sent \cup {None}]

Effects(d) == {n \in Calls : <<d, n>> \in accepted}

\* SendMessage returns nil exactly for the effects that travel: each once, in
\* call order, with the answer of the request its handle came from, whichever
\* handler made the call and whether or not it failed afterwards (control.go:47-67,
\* 88-96). Two things can cost a request what it accepted, and nothing else: a
\* goroutine beside the worker that got into its queue, and an answer the encoder
\* refused, which takes every effect along (session_handle.go:92-96, 117-121); to an
\* event that happens only if a Value of no kind was written into it. Even then no
\* effect is sent twice or with another request's answer.
AcceptedEffectsTravel ==
  \A d \in Requests : answer[d] # None =>
    LET sent == answer[d].effects
    IN  /\ IsInjective(sent)
        /\ kind[d].is = "event" => Range(sent) \subseteq Effects(d)
        /\ d \notin outside /\ answer[d].encoded =>
             /\ Effects(d) \subseteq Range(sent)
             /\ \A i, j \in DOMAIN sent :
                  i < j /\ {sent[i], sent[j]} \subseteq Effects(d) => sent[i] < sent[j]
        /\ kind[d].is = "event" /\ ~answer[d].encoded => d \in spoilt
        /\ \A e \in Requests \ {d} : Range(sent) \cap Effects(e) = {}

\* An answer says cancelled exactly when a handler of this very request
\* cancelled an event that can be, or the event could not be handled and denies
\* on failure: what an earlier event's handlers decided never leaks into it, no
\* later handler undoes it, and it survives an answer that does not encode
\* (dispatch.go:16, 29, session_handle.go:86-95).
CancelledByItsHandlers ==
  \A d \in Requests : answer[d] # None =>
    (answer[d].cancelled <=> IF answer[d].failed /\ kind[d].is = "event" THEN kind[d].deny
                             ELSE d \in refused /\ kind[d].cancellable)

\* A request that was taken is answered.
EveryRequestIsAnswered ==
  \A d \in Requests : current = d ~> answer[d] # None

\* "The replies travel even when the handler failed" (command_dispatch.go:39), unless
\* the encoder refused them.
RepliesTravel ==
  [][answer' # answer /\ answer'[current].encoded =>
       spoken \subseteq Range(answer'[current].effects)]_vars
=============================================================================
