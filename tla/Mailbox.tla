------------------------------- MODULE Mailbox ------------------------------
(***************************************************************************)
(* What serve promises about the requests it receives (session.go:16-28),  *)
(* without the read loop, the channel, the worker and what the plugin is   *)
(* doing: each is finished, once, in the order it came, and serve returns  *)
(* when the session is over and none is left.                              *)
(***************************************************************************)
EXTENDS Naturals, Sequences

CONSTANT MaxRequests  \* bound: the requests ever received

VARIABLES
  received,  \* how many requests have been received: they are numbered from 1
  finished,  \* the numbers of those finished, in order
  over,      \* no more will be
  returned   \* serve has returned

vars == <<received, finished, over, returned>>

Receive ==
  /\ ~over
  /\ received < MaxRequests
  /\ received' = received + 1
  /\ UNCHANGED <<finished, over, returned>>

Finish ==
  /\ Len(finished) < received
  /\ finished' = Append(finished, Len(finished) + 1)
  /\ UNCHANGED <<received, over, returned>>

End ==
  /\ over' = TRUE
  /\ UNCHANGED <<received, finished, returned>>

Return ==
  /\ over
  /\ Len(finished) = received
  /\ returned' = TRUE
  /\ UNCHANGED <<received, finished, over>>

Init ==
  /\ received = 0
  /\ finished = <<>>
  /\ over = FALSE
  /\ returned = FALSE

Next == Receive \/ Finish \/ End \/ Return

\* What was received is finished, the session lasting or not; one that is over
\* returns.
Liveness ==
  /\ \A n \in 1..MaxRequests : received >= n ~> Len(finished) >= n
  /\ over ~> returned

Safety == Init /\ [][Next]_vars

Spec == Safety /\ Liveness
=============================================================================
