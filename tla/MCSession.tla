----------------------------- MODULE MCSession -----------------------------
(***************************************************************************)
(* The sessions the runs of Session.tla look at.                           *)
(***************************************************************************)
EXTENDS Session

\* A plugin that emits nothing and returns from its callbacks, up to the end of
\* the session, with more requests outstanding than the channel holds.
Quiet == [window |-> Cap + 2, ends |-> TRUE, emits |-> FALSE, returns |-> TRUE]

\* A plugin that emits from its handlers and a task. The window is the most the
\* channel can absorb with a handler parked: one request with the worker and Cap queued.
Emitting(returns) == [window |-> Cap + 1, ends |-> FALSE, emits |-> TRUE, returns |-> returns]

KeptInBounds == {Quiet, Emitting(TRUE), Emitting(FALSE)}

\* One request more outstanding than the channel and a parked handler absorb.
Overfull == {[window |-> Cap + 2, ends |-> FALSE, emits |-> TRUE, returns |-> TRUE]}

\* A plugin that emits, and a session that ends.
Ending == {[window |-> Cap, ends |-> TRUE, emits |-> TRUE, returns |-> TRUE]}
=============================================================================
