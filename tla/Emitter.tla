------------------------------ MODULE Emitter ------------------------------
(***************************************************************************)
(* The plugin's half of the emission exchange (emit.go): any goroutine may *)
(* call Events.Emit, which takes an even number, registers a one-slot      *)
(* reply channel under it, sends the request and parks on the channel.     *)
(* The read loop hands the host's answer to that channel (deliver), and    *)
(* the end of the session closes every channel still registered            *)
(* (shutdown).                                                             *)
(*                                                                         *)
(* One step is one critical section of emitter.mu, one channel operation   *)
(* or one send on the connection: what happens between two of them         *)
(* (encoding, decoding, replay) touches only the caller's own values.      *)
(* Deliver and shutdown are not assumed to run on one goroutine, though in *)
(* session.go they do.                                                     *)
(***************************************************************************)
EXTENDS Naturals, FiniteSets

CONSTANTS Callers,  \* goroutines that emit: the worker, scheduler tasks, ...
          MaxSeq,   \* bound: the largest number atomic.Uint64 hands out here
          None

\* The numbers an emission can carry: even, from 2.
Numbers == {n \in 1..MaxSeq : n % 2 = 0}

\* What a host can answer, by the path Emit takes after the reply arrives:
\* a plain permission or cancellation, a refusal (result.Error), mutations
\* that do not replay onto the author's fields, a frame that does not decode.
Bodies == {"allowed", "cancelled", "refused",
           "allowedUnreplayable", "cancelledUnreplayable", "undecodable"}

Answers == [about : Numbers, body : Bodies]

ASSUME EmitterAssumption == MaxSeq \in Nat /\ None \notin Answers \cup Numbers

\* What Emit returns. seq and reply are history: the number the call used,
\* 0 when it used none, and the answer it was woken with, if any.
Results == [seq : Numbers \cup {0}, reply : Answers \cup {None},
            allowed : BOOLEAN, err : BOOLEAN]

VARIABLES
  seq,      \* emitter.seq
  pending,  \* the keys of emitter.pending
  closed,   \* emitter.closed
  chan,     \* the reply channel made for each number: absent, open or closed
  buffer,   \* its single slot
  handing,  \* deliver has taken this answer's channel and released the mutex
  asked,    \* emissions that reached the connection
  active,   \* Events.active
  pc,       \* where each caller is inside Emit
  mine,     \* the number its current call took
  result    \* what its last call returned

vars == <<seq, pending, closed, chan, buffer, handing, asked, active, pc, mine, result>>

Phases == {"idle", "admitted", "numbered", "registered", "waiting", "leaving"}

-----------------------------------------------------------------------------
(* Emit, lines 49-85, and emitter.emit, lines 127-153 *)

Refusal(n) == [seq |-> n, reply |-> None, allowed |-> FALSE, err |-> TRUE]

\* The (bool, error) pair Emit makes of a reply. A reply that cannot be
\* replayed still reports whether the event may proceed, beside its error.
Outcome(answer) ==
  [seq |-> answer.about, reply |-> answer,
   allowed |-> answer.body \in {"allowed", "allowedUnreplayable"},
   err |-> answer.body \notin {"allowed", "cancelled"}]

\* Everything Emit checks before it takes a number: the registry is active,
\* the event is declared, there is a connection, the fields encode.
EmitRefused(c) ==
  /\ pc[c] = "idle"
  /\ \E declared, connected, encodable \in BOOLEAN :
        ~(active /\ declared /\ connected /\ encodable)
  /\ result' = [result EXCEPT ![c] = Refusal(0)]
  /\ UNCHANGED <<seq, pending, closed, chan, buffer, handing, asked, active, pc, mine>>

\* Bound: nobody is admitted that MaxSeq leaves without a number.
NumbersLeft == seq + 2 * Cardinality({d \in Callers : pc[d] = "admitted"}) < MaxSeq - 1

\* The registry is read under its own lock; from here on nothing looks at it
\* again, so a call admitted before clear goes out after it.
Emit(c) ==
  /\ pc[c] = "idle"
  /\ active
  /\ NumbersLeft
  /\ pc' = [pc EXCEPT ![c] = "admitted"]
  /\ UNCHANGED <<seq, pending, closed, chan, buffer, handing, asked, active, mine, result>>

\* Mutant of Number: the counter is read and stored instead of added to atomically.
NumberRacing(c) ==
  /\ pc[c] = "admitted"
  /\ seq + 2 \in Numbers
  /\ seq' \in {seq, seq + 2}
  /\ mine' = [mine EXCEPT ![c] = seq + 2]
  /\ pc' = [pc EXCEPT ![c] = "numbered"]
  /\ UNCHANGED <<pending, closed, chan, buffer, handing, asked, active, result>>

\* Mutant of Number: Add(1), the numbers the host uses for its own exchanges.
NumberOdd(c) ==
  /\ pc[c] = "admitted"
  /\ seq < MaxSeq
  /\ seq' = seq + 1
  /\ mine' = [mine EXCEPT ![c] = seq + 1]
  /\ pc' = [pc EXCEPT ![c] = "numbered"]
  /\ UNCHANGED <<pending, closed, chan, buffer, handing, asked, active, result>>

\* Line 135.
Number(c) ==
  /\ pc[c] = "admitted"
  /\ seq + 2 \in Numbers
  /\ seq' = seq + 2
  /\ mine' = [mine EXCEPT ![c] = seq + 2]
  /\ pc' = [pc EXCEPT ![c] = "numbered"]
  /\ UNCHANGED <<pending, closed, chan, buffer, handing, asked, active, result>>

\* expect, lines 186-195: refused once the emitter is closed.
Expect(c) ==
  /\ pc[c] = "numbered"
  /\ IF closed
     THEN /\ pc' = [pc EXCEPT ![c] = "idle"]
          /\ result' = [result EXCEPT ![c] = Refusal(mine[c])]
          /\ UNCHANGED <<pending, chan>>
     ELSE /\ pending' = pending \cup {mine[c]}
          /\ chan' = [chan EXCEPT ![mine[c]] = "open"]
          /\ pc' = [pc EXCEPT ![c] = "registered"]
          /\ UNCHANGED result
  /\ UNCHANGED <<seq, closed, buffer, handing, asked, active, mine>>

Send(c) ==
  /\ pc[c] = "registered"
  /\ asked' = asked \cup {mine[c]}
  /\ pc' = [pc EXCEPT ![c] = "waiting"]
  /\ UNCHANGED <<seq, pending, closed, chan, buffer, handing, active, mine, result>>

SendFails(c) ==
  /\ pc[c] = "registered"
  /\ result' = [result EXCEPT ![c] = Refusal(mine[c])]
  /\ pc' = [pc EXCEPT ![c] = "leaving"]
  /\ UNCHANGED <<seq, pending, closed, chan, buffer, handing, asked, active, mine>>

\* The receive on line 148. A slot that was filled is read before the close
\* is seen, as Go defines it.
Receive(c) ==
  /\ pc[c] = "waiting"
  /\ buffer[mine[c]] # None
  /\ result' = [result EXCEPT ![c] = Outcome(buffer[mine[c]])]
  /\ buffer' = [buffer EXCEPT ![mine[c]] = None]
  /\ pc' = [pc EXCEPT ![c] = "leaving"]
  /\ UNCHANGED <<seq, pending, closed, chan, handing, asked, active, mine>>

ReceiveClosed(c) ==
  /\ pc[c] = "waiting"
  /\ chan[mine[c]] = "closed"
  /\ buffer[mine[c]] = None
  /\ result' = [result EXCEPT ![c] = Refusal(mine[c])]
  /\ pc' = [pc EXCEPT ![c] = "leaving"]
  /\ UNCHANGED <<seq, pending, closed, chan, buffer, handing, asked, active, mine>>

\* Mutant of Forget: the deferred call is missing.
ForgetNothing(c) ==
  /\ pc[c] = "leaving"
  /\ pc' = [pc EXCEPT ![c] = "idle"]
  /\ UNCHANGED <<seq, pending, closed, chan, buffer, handing, asked, active, mine, result>>

\* The deferred forget, lines 197-201.
Forget(c) ==
  /\ pc[c] = "leaving"
  /\ pending' = pending \ {mine[c]}
  /\ pc' = [pc EXCEPT ![c] = "idle"]
  /\ UNCHANGED <<seq, closed, chan, buffer, handing, asked, active, mine, result>>

-----------------------------------------------------------------------------
(* The read loop and the worker *)

\* Mutant of Deliver: the entry stays registered after its answer.
DeliverWithoutDelete(answer) ==
  /\ handing = None
  /\ answer.about \in asked
  /\ handing' = IF answer.about \in pending THEN answer ELSE None
  /\ UNCHANGED <<seq, pending, closed, chan, buffer, asked, active, pc, mine, result>>

\* deliver, lines 159-165. The host may answer what it was asked at any time
\* and more than once; an answer nobody waits for is dropped.
Deliver(answer) ==
  /\ handing = None
  /\ answer.about \in asked
  /\ handing' = IF answer.about \in pending THEN answer ELSE None
  /\ pending' = pending \ {answer.about}
  /\ UNCHANGED <<seq, closed, chan, buffer, asked, active, pc, mine, result>>

\* Mutant of HandOver: a send that drops the answer when nobody receives yet.
HandOverOrDrop ==
  /\ handing # None
  /\ handing' = None
  /\ UNCHANGED <<seq, pending, closed, chan, buffer, asked, active, pc, mine, result>>

\* Line 167, outside the mutex: blocks on a full slot, panics on a closed one.
HandOver ==
  /\ handing # None
  /\ buffer[handing.about] = None
  /\ chan[handing.about] = "open"
  /\ buffer' = [buffer EXCEPT ![handing.about] = handing]
  /\ handing' = None
  /\ UNCHANGED <<seq, pending, closed, chan, asked, active, pc, mine, result>>

\* Mutant of Shutdown: empties the table and closes no channel.
ShutdownWithoutClose ==
  /\ ~closed
  /\ closed' = TRUE
  /\ pending' = {}
  /\ UNCHANGED <<seq, chan, buffer, handing, asked, active, pc, mine, result>>

\* shutdown, lines 173-184.
Shutdown ==
  /\ ~closed
  /\ closed' = TRUE
  /\ chan' = [n \in Numbers |-> IF n \in pending THEN "closed" ELSE chan[n]]
  /\ pending' = {}
  /\ UNCHANGED <<seq, buffer, handing, asked, active, pc, mine, result>>

\* Events.clear, as far as Emit sees it.
Clear ==
  /\ active
  /\ active' = FALSE
  /\ UNCHANGED <<seq, pending, closed, chan, buffer, handing, asked, pc, mine, result>>

-----------------------------------------------------------------------------

Init ==
  /\ seq = 0
  /\ pending = {}
  /\ closed = FALSE
  /\ chan = [n \in Numbers |-> "absent"]
  /\ buffer = [n \in Numbers |-> None]
  /\ handing = None
  /\ asked = {}
  /\ active = TRUE
  /\ pc = [c \in Callers |-> "idle"]
  /\ mine = [c \in Callers |-> 0]
  /\ result = [c \in Callers |-> Refusal(0)]

CallerStep(c) == Number(c) \/ Expect(c) \/ Send(c) \/ SendFails(c) \/ Receive(c)
                   \/ ReceiveClosed(c) \/ Forget(c)

Next ==
  \/ \E c \in Callers : EmitRefused(c) \/ Emit(c) \/ CallerStep(c)
  \/ \E answer \in Answers : Deliver(answer)
  \/ HandOver
  \/ Shutdown
  \/ Clear

\* A goroutine that can run, runs; the host owes nothing and the session need
\* never end.
Fairness == (\A c \in Callers : WF_vars(CallerStep(c))) /\ WF_vars(HandOver)

Spec == Init /\ [][Next]_vars /\ Fairness
-----------------------------------------------------------------------------
(* Properties *)

TypeOK ==
  /\ seq \in Numbers \cup {0}
  /\ pending \subseteq Numbers
  /\ closed \in BOOLEAN
  /\ chan \in [Numbers -> {"absent", "open", "closed"}]
  /\ buffer \in [Numbers -> Answers \cup {None}]
  /\ handing \in Answers \cup {None}
  /\ asked \subseteq Numbers
  /\ active \in BOOLEAN
  /\ pc \in [Callers -> Phases]
  /\ mine \in [Callers -> Numbers \cup {0}]
  /\ result \in [Callers -> Results]

\* Two emissions never carry the same number, so no answer can be taken for
\* another emission's (emit.go:108-113, 157-158): not while both are in
\* flight, and not when one returned long ago and its answer comes again.
NumbersAreNeverShared ==
  \A c, d \in Callers : c # d /\ mine[c] # 0 => mine[c] # mine[d]

\* deliver runs on the read loop, "so it never blocks" (emit.go:155-156): the
\* slot it is about to fill is empty and its channel is not closed, whatever
\* shutdown or a second answer did between the unlock and the send.
HandoffNeverBlocks ==
  handing # None => /\ chan[handing.about] = "open"
                    /\ buffer[handing.about] = None

\* A caller is never parked where nobody can find it: its entry is still
\* registered, or its answer is in hand or in the slot, or its channel is
\* closed (emit.go:145-147). After shutdown nothing is registered.
Reachable(n) ==
  \/ n \in pending
  \/ handing # None /\ handing.about = n
  \/ buffer[n] # None
  \/ chan[n] = "closed"

ParkedCallerIsReachable ==
  /\ \A c \in Callers : pc[c] = "waiting" => Reachable(mine[c])
  /\ closed => pending = {}

\* The table holds only emissions somebody is still inside: an entry left
\* behind by an error path would never be freed (emit.go:140).
NoEntryOutlivesItsCall ==
  \A n \in pending : \E c \in Callers : mine[c] = n /\ pc[c] \notin {"idle", "admitted"}

-----------------------------------------------------------------------------
(* The exchange it implements *)

numbersUsed == {n \in Numbers : n <= seq}

\* A caller is asking while it has a number and no result yet.
asking ==
  [c \in Callers |-> IF pc[c] \in {"numbered", "registered", "waiting"} THEN mine[c] ELSE None]

\* An answer is taken from the moment deliver finds its caller registered until
\* the caller has read it from the slot.
answersTaken == ({handing} \cup {buffer[n] : n \in Numbers}) \ {None}

answered == [c \in Callers |-> result[c].reply]

Promise == INSTANCE Exchange WITH
  used <- numbersUsed, number <- asking, sent <- asked,
  taken <- answersTaken, over <- closed, got <- answered

\* The table, the one-slot channels and the mutex implement the exchange a
\* caller relies on: its own first answer, or an error that means there is none,
\* whatever shutdown, a second answer or another caller did in between
\* (emit.go:108-113, 145-147, 155-159, 171-172).
ImplementsExchange == Promise!Spec
=============================================================================
