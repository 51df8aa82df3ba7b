------------------------------- MODULE Payload ------------------------------
(***************************************************************************)
(* The fields of one event on their way through its subscribers, and of a  *)
(* plugin's own event back to the plugin that emitted it (receive.go,      *)
(* dispatch.go, events.gen.go, and replay in emit.go).                     *)
(*                                                                         *)
(* The host dispatches the event to one plugin after another.  In each,    *)
(* handlers write to a view of the fields: a CustomDispatch, which records *)
(* a mutation for every write, or a native event's struct, which is        *)
(* compared with what arrived when the handlers are done.  The verdict     *)
(* carries the mutations, the host applies those it permits, and the next  *)
(* subscriber gets the result.  An emitter is sent the mutations that were *)
(* applied and replays them on its own copy.                               *)
(*                                                                         *)
(* The handlers of one dispatch share the view, and a panic of one leaves  *)
(* its writes standing, so who writes is not told apart.  A plugin may     *)
(* keep a CustomDispatch and write to it after the verdict.                *)
(***************************************************************************)
EXTENDS NativeEvents

CONSTANTS MaxDispatches, \* bound: subscribers the event is dispatched to
          MaxWrites,     \* bound: writes of all of them together
          Uint32,        \* the number of values of an index on the wire
          None

ASSUME PayloadAssumption ==
  /\ {MaxDispatches, MaxWrites} \subseteq Nat
  /\ Uint32 \in Nat /\ Uint32 > 6  \* every field that can be written has an index

\* A plugin's event: a name, a list of prices, a price. The host knows which of
\* them a subscriber may replace; the elements of a list it may always write.
Purchase == "fr.oreo.shop/purchase"
PurchaseLayout == <<"string", "prices", "price">>

Types == DOMAIN NativeEvents \cup {Purchase, ""}

\* Every content of a shape that the model tells apart.
Contents(shape) ==
  CASE shape = "player"      -> {List(<<Bytes("uuid"), String(n), String("1")>>) : n \in {"1", "2"}}
    [] shape = "position"    -> {List(<<Int64("1"), Int64("1"), Int64(z)>>) : z \in {"1", "2"}}
    [] shape = "block"       -> {List(<<String(n), List(<<>>)>>) : n \in {"1", "2"}}
    [] shape = "permissions" -> {List(<<List(<<String("1"), Bool("1")>>)>>)}
    [] shape = "string"      -> {String("1"), String("2")}
    [] shape = "int64"       -> {Int64("1"), Int64("2")}
    [] shape = "double"      -> {Double("1"), Double("2"), Double("NaN")}
    [] shape = "price"       -> {Double("1"), Double("2")}
    [] shape = "prices"      -> {List(<<Double("1"), Double("1")>>), List(<<Double("1"), Double("2")>>),
                                 List(<<Double("2")>>)}

\* A content the decoder of the shape reads; a list of prices has two.
First(shape) ==
  CHOOSE v \in Contents(shape) :
    IF shape \in {"price", "prices"} THEN v # List(<<Double("2")>>) ELSE Reads(shape, v)

Layout(type) == IF IsNative(type) THEN NativeEvents[type].layout ELSE PurchaseLayout

\* What the host first has: fields as their layout says, or, of a native event,
\* one field that its decoder does not read, or one field too many.
Originals(type) ==
  LET sample == [i \in DOMAIN Layout(type) |-> First(Layout(type)[i])]
      spoilt == {[sample EXCEPT ![i] = v] :
                   i \in DOMAIN sample, v \in {List(<<>>), List(<<Invalid>>), Double("Inf")}}
  IN {sample} \cup (IF IsNative(type) THEN {Append(sample, String("1"))} \cup spoilt ELSE {})

VARIABLES
  event,      \* its Type, and the fields of it that may be replaced
  phase,      \* who has the event
  host,       \* its fields at the host
  given,      \* incoming.Fields of the dispatch in hand
  view,       \* CustomDispatch.fields, or the native struct
  mutations,  \* CustomDispatch.mutations
  cancelled,  \* control.cancelled
  verdict,    \* the answer of this dispatch
  accepted,   \* the mutations the host has applied
  stopped,    \* the host counts the event as cancelled
  author,     \* the emitter's own object
  outcome,    \* what Emit returned to it
  dispatches, \* dispatches so far
  writes      \* writes so far

vars == <<event, phase, host, given, view, mutations, cancelled, verdict, accepted,
          stopped, author, outcome, dispatches, writes>>

atHost == <<event, host, accepted, stopped, author, outcome, dispatches>>

IsCustom == ~IsNative(event.type)

\* No dispatch in hand.
Nothing ==
  /\ given' = <<>> /\ view' = <<>> /\ mutations' = <<>>
  /\ cancelled' = FALSE /\ verdict' = None

-----------------------------------------------------------------------------
(* A dispatch *)

\* Lines 9-21 of dispatch.go, for an event that decodes: a control and a view of
\* its own.
Dispatch ==
  /\ phase = "host"
  /\ dispatches < MaxDispatches
  /\ EventFrom(event.type, host)
  /\ phase' = "handling"
  /\ dispatches' = dispatches + 1
  /\ given' = host
  /\ view' = host
  /\ mutations' = <<>>
  /\ cancelled' = FALSE
  /\ verdict' = None
  /\ UNCHANGED <<event, host, accepted, stopped, author, outcome, writes>>

\* It does not decode, or the plugin is not enabled: no handler runs, and the
\* event is denied if its OnFailure says so (session_handle.go:86-90).
DispatchFails ==
  /\ phase = "host"
  /\ dispatches < MaxDispatches
  /\ phase' = "answered"
  /\ dispatches' = dispatches + 1
  /\ given' = host
  /\ view' = host
  /\ mutations' = <<>>
  /\ cancelled' = FALSE
  /\ \E deny \in BOOLEAN :
        verdict' = [mutations |-> <<>>, cancelled |-> deny, left |-> host, said |-> deny, ran |-> FALSE]
  /\ UNCHANGED <<event, host, accepted, stopped, author, outcome, writes>>

\* Handlers have the event, or have had it: a write goes on working on a
\* CustomDispatch that was kept.
InHand == phase = "handling" \/ (phase = "answered" /\ verdict.ran)

Writable ==
  /\ writes < MaxWrites
  /\ InHand
  /\ writes' = writes + 1

\* SetAt: applied to the view before it is recorded, and refused, which changes
\* nothing, where the path does not exist.
SetAt(path, value) ==
  /\ HasPath(view, path)
  /\ view' = ApplyPath(view, Mutation(path, value))
  /\ mutations' = Append(mutations, Mutation(path, value))

\* Set: the index becomes an unsigned 32-bit number before SetAt looks at the path.
\* A negative one is refused.
Set(index, value) == SetAt(<<index % Uint32>>, value)

\* Mutant of Update: the fields are taken over before they are compared.
UpdateTakesFirst(fields) ==
  /\ Len(fields) = Len(view)
  /\ view' = fields
  /\ mutations' = mutations \o Diff(fields, fields)

\* Mutant of Update: the fields are not counted.
UpdateUncounted(fields) ==
  /\ mutations' = mutations \o Diff(view, fields)
  /\ view' = fields

\* Update: the difference is recorded and the fields taken over, if they are as many.
Update(fields) ==
  /\ Len(fields) = Len(view)
  /\ mutations' = mutations \o Diff(view, fields)
  /\ view' = fields

\* The ways a handler of a plugin's event writes. Whether a value is of the kind
\* the field had is nobody's question here. Update may be handed a field too many.
WriteCustom ==
  /\ IsCustom
  /\ Writable
  /\ \/ \E index \in 0..(Uint32 + 2), v \in {Double("2"), List(<<Double("2")>>), Invalid} :
          Set(index, v)
     \/ \E i, j \in 0..2 : SetAt(<<i, j>>, Double("2"))
     \/ \E text \in Contents("string"), prices \in Contents("prices"), price \in Contents("price"),
           beyond \in {<<>>, <<Double("1")>>} :
          Update(<<text, prices, price>> \o beyond)
  /\ UNCHANGED <<atHost, phase, given, cancelled, verdict>>

\* An assignment to an exported field of the struct, snapshot or mutable.
WriteNative ==
  /\ ~IsCustom
  /\ Writable
  /\ \E i \in DOMAIN view :
        /\ Layout(event.type)[i] # "permissions"
        /\ \E v \in Contents(Layout(event.type)[i]) : view' = [view EXCEPT ![i] = v]
  /\ UNCHANGED <<atHost, phase, given, mutations, cancelled, verdict>>

\* Through the control of a typed handler, or of one registered by name.
Cancel ==
  /\ phase = "handling"
  /\ cancelled' = TRUE
  /\ UNCHANGED <<atHost, phase, given, view, mutations, verdict, writes>>

\* Lines 23-31 of dispatch.go. left, said and ran are history: the view and the
\* control as the handlers left them, and whether there were any.
Verdict ==
  /\ phase = "handling"
  /\ verdict' = [mutations |-> IF IsCustom THEN mutations
                               ELSE NativeMutations(event.type, given, view),
                 cancelled |-> cancelled /\ (IsCustom \/ NativeCancellable(event.type)),
                 left |-> view, said |-> cancelled, ran |-> TRUE]
  /\ phase' = "answered"
  /\ UNCHANGED <<atHost, given, view, mutations, cancelled, writes>>

\* EncodeVerdict may refuse a value of no kind. The answer then carries the
\* cancellation alone (session_handle.go:92-96).
Send ==
  /\ phase = "answered"
  /\ \/ UNCHANGED verdict
     \/ /\ \E k \in DOMAIN verdict.mutations : verdict.mutations[k].value = Invalid
        /\ verdict' = [verdict EXCEPT !.mutations = <<>>]
  /\ phase' = "sent"
  /\ UNCHANGED <<atHost, given, view, mutations, cancelled, writes>>

-----------------------------------------------------------------------------
(* The host, and the emitter *)

\* A whole field only where the event lets it be replaced; an element wherever
\* there is one; and never a number that is not finite (README.md:134-136).
Permitted(m) ==
  /\ Len(m.path) = 1 => m.path[1] \in event.open
  /\ m.value \notin {Double("NaN"), Invalid}

\* The host applies what it permits, in order, and drops the rest: what it has,
\* and has applied, after each mutation.
HostApplying(ms) ==
  LET done[k \in 0..Len(ms)] ==
        IF k = 0 THEN [fields |-> host, applied |-> accepted]
        ELSE LET before == done[k - 1] IN
             IF Permitted(ms[k]) /\ HasPath(before.fields, ms[k].path)
             THEN [fields |-> ApplyPath(before.fields, ms[k]), applied |-> Append(before.applied, ms[k])]
             ELSE before
  IN done

\* What the plugin still holds of the dispatch is of no further account.
HostApplies ==
  LET ms == verdict.mutations
      end == HostApplying(ms)[Len(ms)]
  IN /\ phase = "sent"
     /\ host' = end.fields
     /\ accepted' = end.applied
     /\ stopped' = (stopped \/ verdict.cancelled)
     /\ phase' = "host"
     /\ Nothing
     /\ UNCHANGED <<event, author, outcome, dispatches, writes>>

\* A native event ends at the host.
HostEnds ==
  /\ phase = "host"
  /\ ~IsCustom
  /\ phase' = "done"
  /\ UNCHANGED <<atHost, given, view, mutations, cancelled, verdict, writes>>

\* What EMITTED carries: the mutations that were applied, or, from a host that
\* and the emitter disagree about the layout, one that cannot be.
Emitted ==
  {accepted} \cup {InsertAt(accepted, k, Mutation(<<Len(PurchaseLayout)>>, Double("1"))) :
                     k \in {1, Len(accepted) + 1}}

\* SetFields is the author's: it refuses a value of another kind than its field's,
\* and may by then have set the fields before it.
Takes(fields) ==
  /\ IsString(fields[1])
  /\ fields[2].kind = "list"
  /\ fields[3].kind = "double"

\* Mutant of Replay: each mutation is set on the author's object as it is applied.
ReplayInPlace(ms) ==
  LET end == ApplyAll(author, ms) IN
  IF ~end.ok
  THEN outcome' = [allowed |-> ~stopped, err |-> "replay"] /\ author' = end.fields
  ELSE outcome' = [allowed |-> ~stopped, err |-> "none"] /\ author' = end.fields

\* replay, lines 93-106, and what Emit returns of it, lines 78-84.
Replay(ms) ==
  LET end == ApplyAll(author, ms) IN
  IF ~end.ok
  THEN outcome' = [allowed |-> ~stopped, err |-> "replay"] /\ UNCHANGED author
  ELSE IF ms = <<>> \/ Takes(end.fields)
       THEN outcome' = [allowed |-> ~stopped, err |-> "none"] /\ author' = end.fields
       ELSE /\ outcome' = [allowed |-> ~stopped, err |-> "fields"]
            /\ \E k \in 0..2 : author' = SubSeq(end.fields, 1, k) \o SubSeq(author, k + 1, 3)

EmitReturns ==
  /\ phase = "host"
  /\ event.type = Purchase
  /\ \E ms \in Emitted : Replay(ms)
  /\ phase' = "done"
  /\ UNCHANGED <<event, host, given, view, mutations, cancelled, verdict, accepted, stopped,
                 dispatches, writes>>

-----------------------------------------------------------------------------

Open(type) == IF IsNative(type) THEN {NativeEvents[type].mutable} ELSE {{}, {2}, {0, 1, 2}}

Init ==
  /\ event \in UNION {[type : {t}, open : Open(t)] : t \in Types}
  /\ host \in Originals(event.type)
  /\ phase = "host"
  /\ given = <<>>
  /\ view = <<>>
  /\ mutations = <<>>
  /\ cancelled = FALSE
  /\ verdict = None
  /\ accepted = <<>>
  /\ stopped = FALSE
  /\ author = host
  /\ outcome = None
  /\ dispatches = 0
  /\ writes = 0

Next ==
  \/ Dispatch
  \/ DispatchFails
  \/ WriteCustom
  \/ WriteNative
  \/ Cancel
  \/ Verdict
  \/ Send
  \/ HostApplies
  \/ HostEnds
  \/ EmitReturns

Spec == Init /\ [][Next]_vars
-----------------------------------------------------------------------------
(* Properties *)

AreFields(fields) == \A i \in DOMAIN fields : fields[i].kind \in Kinds

AreMutations(ms) ==
  \A k \in DOMAIN ms : /\ \A d \in DOMAIN ms[k].path : ms[k].path[d] \in 0..(Uint32 - 1)
                       /\ ms[k].value.kind \in Kinds

\* Types. What is given out keeps its number of fields, however it is written to:
\* the difference of two lists of fields is taken position by position
\* (receive.go:186).
TypeOK ==
  /\ event.type \in Types /\ event.open \in Open(event.type)
  /\ phase \in {"host", "handling", "answered", "sent", "done"}
  /\ AreFields(host) /\ AreFields(given) /\ AreFields(view) /\ AreFields(author)
  /\ InHand => Len(view) = Len(given)
  /\ AreMutations(mutations) /\ AreMutations(accepted)
  /\ cancelled \in BOOLEAN /\ stopped \in BOOLEAN
  /\ verdict # None => AreMutations(verdict.mutations) /\ verdict.cancelled \in BOOLEAN
  /\ outcome # None => outcome.allowed \in BOOLEAN
  /\ dispatches \in 0..MaxDispatches /\ writes \in 0..MaxWrites

\* The mutations of an answer, applied in order to the fields that were sent,
\* give what the handlers left, however they mixed Set, SetAt and Update
\* (receive.go:18-23), and whatever is written to a kept dispatch later. Of a
\* native event they give the fields documented as Mutable and no other
\* (events.gen.go:1061). Every path in them exists where it is applied.
VerdictCarriesTheWrites ==
  phase = "answered" =>
    ApplyAll(given, verdict.mutations) =
      [ok |-> TRUE,
       fields |-> IF IsCustom THEN verdict.left
                  ELSE [i \in DOMAIN given |->
                          IF i - 1 \in NativeEvents[event.type].mutable THEN verdict.left[i]
                          ELSE given[i]]]

\* A cancellation is reported for the events whose typed handlers are given a
\* control to cancel with, and for no other, however the handler got one
\* (events.gen.go:1035, the comments on the types, native_mutations_test.go:43); no
\* failure to carry the mutations loses it. The comment on EventControl.Cancel has
\* it otherwise: see CancelsAreLeftToTheHost.
CancelledByThoseWhoMay ==
  phase \in {"answered", "sent"} =>
    (verdict.cancelled <=>
       verdict.said /\ (verdict.ran => IsCustom \/ NativeEvents[event.type].control))

\* "cancelling something declared uncancellable is logged there rather than refused
\* here" (control.go:28-29), there being the host: so every Cancel is reported to it.
CancelsAreLeftToTheHost ==
  phase = "answered" /\ verdict.ran /\ verdict.said => verdict.cancelled

\* When Emit returns with no error the object the author emitted is what the
\* host has after the last subscriber, refused mutations left out on both sides
\* (emit.go:30-36); when the mutations do not replay it is what was emitted, and
\* the decision is reported either way (emit.go:78-84).
AuthorSeesWhatTheHostHas ==
  outcome # None =>
    /\ outcome.allowed = ~stopped
    /\ outcome.err = "none" => author = host
    /\ outcome.err = "replay" => author \in Originals(event.type)
=============================================================================
