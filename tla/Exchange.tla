------------------------------ MODULE Exchange ------------------------------
(***************************************************************************)
(* What the emission exchange promises its callers (emit.go:49-84,         *)
(* 108-125, 145-147, 155-159, 171-172), without the table, the channels    *)
(* and the mutex it is made of: a caller asks under a number nobody else   *)
(* ever has, and gets the first answer taken for it, or an error; an error *)
(* only if its question never left or the exchange is over; and an answer  *)
(* that was taken reaches its caller even then.  Emitter implements it.    *)
(***************************************************************************)
CONSTANTS Callers,
          Numbers,  \* what a question can be numbered
          Answers,  \* records whose field about is the number they answer
          None

VARIABLES
  used,    \* the numbers taken so far
  number,  \* the number each caller asks under, None when it asks nothing
  sent,    \* the numbers under which a question has left
  taken,   \* answers received and not yet returned
  over,    \* no answer will be taken any more
  got      \* what each caller was last answered, None for an error

vars == <<used, number, sent, taken, over, got>>

Answered(n) == \E a \in taken : a.about = n

Ask(c) ==
  /\ number[c] = None
  /\ \E n \in Numbers \ used :
        /\ used' = used \cup {n}
        /\ number' = [number EXCEPT ![c] = n]
  /\ UNCHANGED <<sent, taken, over, got>>

Send(c) ==
  /\ number[c] # None
  /\ sent' = sent \cup {number[c]}
  /\ UNCHANGED <<used, number, taken, over, got>>

\* The first answer to a question that is still being asked.
Take(a) ==
  /\ ~over
  /\ a.about \in sent
  /\ \E c \in Callers : number[c] = a.about
  /\ ~Answered(a.about)
  /\ taken' = taken \cup {a}
  /\ UNCHANGED <<used, number, sent, over, got>>

Return(c) ==
  /\ \E a \in taken : /\ a.about = number[c]
                      /\ taken' = taken \ {a}
                      /\ got' = [got EXCEPT ![c] = a]
  /\ number' = [number EXCEPT ![c] = None]
  /\ UNCHANGED <<used, sent, over>>

Fail(c) ==
  /\ number[c] # None
  /\ number[c] \notin sent \/ (over /\ ~Answered(number[c]))
  /\ number' = [number EXCEPT ![c] = None]
  /\ got' = [got EXCEPT ![c] = None]
  /\ UNCHANGED <<used, sent, taken, over>>

\* An emission that is refused before it is numbered.
Refuse(c) ==
  /\ number[c] = None
  /\ got' = [got EXCEPT ![c] = None]
  /\ UNCHANGED <<used, number, sent, taken, over>>

End ==
  /\ over' = TRUE
  /\ UNCHANGED <<used, number, sent, taken, got>>

Init ==
  /\ used = {}
  /\ number = [c \in Callers |-> None]
  /\ sent = {}
  /\ taken = {}
  /\ over = FALSE
  /\ got = [c \in Callers |-> None]

Next ==
  \/ \E c \in Callers : Ask(c) \/ Send(c) \/ Return(c) \/ Fail(c) \/ Refuse(c)
  \/ \E a \in Answers : Take(a)
  \/ End

\* A caller whose answer was taken, or who asks when the exchange is over,
\* returns.
Liveness ==
  \A c \in Callers :
    (number[c] # None /\ (over \/ Answered(number[c]))) ~> number[c] = None

Safety == Init /\ [][Next]_vars

Spec == Safety /\ Liveness
=============================================================================
