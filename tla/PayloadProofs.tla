---------------------------- MODULE PayloadProofs ---------------------------
(***************************************************************************)
(* Payload.tla keeps all its invariants, for every number of subscribers   *)
(* and of writes and every width of an index.                              *)
(*                                                                         *)
(* A list of mutations is followed one at a time, so everything is a       *)
(* matter of what holds at each position of it: that the list a view has   *)
(* recorded leads from what was sent to what the view has, and that the    *)
(* list the host has applied leads from what the author emitted to what    *)
(* the host has.  The first holds because Set applies what it records, and *)
(* because the paths of a difference do not touch, so that doing one finds *)
(* the next where it was; the second because the host records what it      *)
(* applies, and nothing that it refused.                                   *)
(***************************************************************************)
EXTENDS Payload, SequenceTheorems, FiniteSetTheorems, TLAPS

-----------------------------------------------------------------------------
(* Induction over the positions of a list *)

\* A set with 0 and, with a number, the next one, has every number: induction, said of
\* a set, from there being no endless descent among the intervals 0..n.
LEMMA CountingUp ==
  ASSUME NEW S, 0 \in S, \A n \in Nat : n \in S => n + 1 \in S
  PROVE  Nat \subseteq S
<1> DEFINE Below(n) == 0..n
           Missing == {Below(n) : n \in Nat \ S}
<1>1. SUFFICES ASSUME Nat \ S # {} PROVE FALSE
  OBVIOUS
<1>2. Missing \subseteq FiniteSubsetsOf(Nat)
  <2>1. \A n \in Nat : IsFiniteSet(Below(n)) /\ Below(n) \subseteq Nat
    BY FS_Interval
  <2> QED
    BY <2>1 DEF FiniteSubsetsOf
<1>3. Missing # {}
  BY <1>1
<1>4. IsWellFoundedOn(StrictSubsetOrdering(Nat), FiniteSubsetsOf(Nat))
  BY FS_StrictSubsetOrderingWellFounded
<1>5. PICK T \in Missing : \A U \in Missing : <<U, T>> \notin StrictSubsetOrdering(Nat)
  BY <1>2, <1>3, <1>4, WFMin, Zenon
<1>6. PICK n \in Nat \ S : T = Below(n)
  OBVIOUS
<1>7. n # 0 /\ n - 1 \in Nat
  OBVIOUS
<1>8. n - 1 \notin S
  <2>1. (n - 1) + 1 = n
    OBVIOUS
  <2> QED
    BY <1>7, <2>1
<1>9. Below(n - 1) \in Missing
  BY <1>7, <1>8
<1>10. Below(n - 1) \subseteq Below(n) /\ Below(n - 1) # Below(n) /\ Below(n) \subseteq Nat
  BY <1>7
<1>11. <<Below(n - 1), T>> \in StrictSubsetOrdering(Nat)
  BY <1>6, <1>10 DEF StrictSubsetOrdering
<1> QED
  BY <1>5, <1>9, <1>11

\* The same up to a bound, the form every loop below is reasoned about with.
LEMMA CountingTo ==
  ASSUME NEW N \in Nat, NEW S, 0 \in S, \A n \in 0..N : n < N /\ n \in S => n + 1 \in S
  PROVE  0..N \subseteq S
<1> DEFINE T == {n \in Nat : n <= N => n \in S}
<1>1. 0 \in T
  OBVIOUS
<1>2. \A n \in Nat : n \in T => n + 1 \in T
  OBVIOUS
<1> HIDE DEF T
<1>3. Nat \subseteq T
  BY <1>1, <1>2, CountingUp
<1> QED
  BY <1>3 DEF T

-----------------------------------------------------------------------------
(* Applying a list of mutations *)

\* One mutation.
After(before, m) ==
  IF before.ok /\ HasPath(before.fields, m.path)
  THEN [ok |-> TRUE, fields |-> ApplyPath(before.fields, m)]
  ELSE [ok |-> FALSE, fields |-> before.fields]

\* What there is after each mutation, and before the first.
Runs(done, fields, ms) ==
  done = [k \in 0..Len(ms) |-> IF k = 0 THEN [ok |-> TRUE, fields |-> fields]
                               ELSE After(done[k - 1], ms[k])]

\* There is a function that follows a list of mutations: what Applying chooses exists.
LEMMA RunExists ==
  ASSUME NEW fields, NEW ms, Len(ms) \in Nat
  PROVE  \E done : Runs(done, fields, ms)
<1> DEFINE To(n, done) ==
             done = [k \in 0..n |-> IF k = 0 THEN [ok |-> TRUE, fields |-> fields]
                                    ELSE After(done[k - 1], ms[k])]
           S == {n \in Nat : \E done : To(n, done)}
<1>1. 0 \in S
  <2> DEFINE done == [k \in 0..0 |-> [ok |-> TRUE, fields |-> fields]]
  <2>1. To(0, done)
    OBVIOUS
  <2> QED
    BY <2>1
<1>2. ASSUME NEW n \in Nat, n \in S PROVE n + 1 \in S
  <2>1. PICK done : To(n, done)
    BY <1>2
  <2> DEFINE more == [k \in 0..(n + 1) |-> IF k = n + 1 THEN After(done[n], ms[n + 1]) ELSE done[k]]
             base == [ok |-> TRUE, fields |-> fields]
             next == [k \in 0..(n + 1) |-> IF k = 0 THEN base ELSE After(more[k - 1], ms[k])]
  <2>2. \A k \in 0..n : done[k] = IF k = 0 THEN base ELSE After(done[k - 1], ms[k])
    BY <2>1
  <2>3. ASSUME NEW k \in 0..(n + 1) PROVE more[k] = next[k]
    <3>1. CASE k = 0
      <4>1. k # n + 1 /\ 0 \in 0..n
        BY <3>1
      <4>2. done[0] = base
        BY <4>1, <2>2
      <4>3. more[k] = done[k] /\ next[k] = base
        BY <3>1, <4>1
      <4> QED
        BY <3>1, <4>2, <4>3
    <3>2. CASE k = n + 1
      <4>1. more[n] = done[n]
        OBVIOUS
      <4> QED
        BY <3>2, <4>1
    <3>3. CASE k # 0 /\ k # n + 1
      <4>1. more[k - 1] = done[k - 1] /\ k \in 0..n
        BY <3>3
      <4>2. more[k] = done[k]
        BY <3>3
      <4> QED
        BY <3>3, <4>1, <4>2, <2>2
    <3> QED
      BY <3>1, <3>2, <3>3
  <2>4. more = next
    BY <2>3
  <2>5. To(n + 1, more)
    BY <2>4
  <2>6. \E d : To(n + 1, d)
    <3> HIDE DEF To, more
    <3> QED
      BY <2>5
  <2> HIDE DEF To
  <2> QED
    BY <2>6
<1>3. Nat \subseteq S
  <2> HIDE DEF S
  <2> QED
    BY <1>1, <1>2, CountingUp
<1> QED
  BY <1>3 DEF Runs

\* So Applying is such a function.
LEMMA RunIs ==
  ASSUME NEW fields, NEW ms, Len(ms) \in Nat
  PROVE  Runs(Applying(fields, ms), fields, ms)
<1>1. Applying(fields, ms) = CHOOSE done : Runs(done, fields, ms)
  BY DEF Applying, Runs, After
<1> QED
  BY <1>1, RunExists

\* Nothing applied yet.
Start(fields) == [ok |-> TRUE, fields |-> fields]

\* What there is before the first mutation, and after each of them.
LEMMA RunSteps ==
  ASSUME NEW fields, NEW ms, Len(ms) \in Nat
  PROVE  /\ Applying(fields, ms)[0] = Start(fields)
         /\ \A k \in 1..Len(ms) :
              Applying(fields, ms)[k] = After(Applying(fields, ms)[k - 1], ms[k])
<1> DEFINE done == Applying(fields, ms)
<1>1. done = [k \in 0..Len(ms) |-> IF k = 0 THEN Start(fields) ELSE After(done[k - 1], ms[k])]
  BY RunIs DEF Runs, Start
<1> HIDE DEF done
<1>2. done[0] = Start(fields)
  <2>1. 0 \in 0..Len(ms)
    OBVIOUS
  <2> QED
    BY <1>1, <2>1
<1>3. ASSUME NEW k \in 1..Len(ms) PROVE done[k] = After(done[k - 1], ms[k])
  <2>1. k \in 0..Len(ms) /\ k # 0
    OBVIOUS
  <2> QED
    BY <1>1, <2>1
<1> QED
  BY <1>2, <1>3 DEF done

\* No mutation leaves the fields as they are.
LEMMA ApplyNothing ==
  ASSUME NEW fields
  PROVE  ApplyAll(fields, <<>>) = Start(fields)
<1>1. Len(<<>>) = 0
  OBVIOUS
<1> QED
  BY <1>1, RunSteps DEF ApplyAll

\* Where the first part of a list goes through, the list does what the rest does to the
\* result: the mutations of one write can follow those of another.
LEMMA ApplyConcat ==
  ASSUME NEW M, NEW s \in Seq(M), NEW t \in Seq(M), NEW fields, NEW middle,
         ApplyAll(fields, s) = Start(middle)
  PROVE  ApplyAll(fields, s \o t) = ApplyAll(middle, t)
<1> DEFINE whole == Applying(fields, s \o t)
           first == Applying(fields, s)
           then  == Applying(middle, t)
<1>1. /\ Len(s) \in Nat /\ Len(t) \in Nat /\ Len(s \o t) = Len(s) + Len(t)
      /\ \A k \in 1..Len(s) : (s \o t)[k] = s[k]
      /\ \A k \in 1..Len(t) : (s \o t)[Len(s) + k] = t[k]
  BY LenProperties, ConcatProperties
<1>2. /\ whole[0] = first[0]
      /\ \A k \in 1..(Len(s) + Len(t)) : whole[k] = After(whole[k - 1], (s \o t)[k])
      /\ \A k \in 1..Len(s) : first[k] = After(first[k - 1], s[k])
      /\ then[0] = Start(middle)
      /\ \A k \in 1..Len(t) : then[k] = After(then[k - 1], t[k])
  <2>1. whole[0] = Start(fields) /\ first[0] = Start(fields) /\ then[0] = Start(middle)
    BY <1>1, RunSteps
  <2>2. \A k \in 1..Len(s \o t) : whole[k] = After(whole[k - 1], (s \o t)[k])
    <3> DEFINE st == s \o t
    <3>1. Len(st) \in Nat
      BY <1>1
    <3> HIDE DEF st
    <3>2. \A k \in 1..Len(st) : Applying(fields, st)[k] = After(Applying(fields, st)[k - 1], st[k])
      BY <3>1, RunSteps
    <3> QED
      BY <3>2 DEF st
  <2>3. \A k \in 1..Len(s) : first[k] = After(first[k - 1], s[k])
    BY <1>1, RunSteps
  <2>4. \A k \in 1..Len(t) : then[k] = After(then[k - 1], t[k])
    BY <1>1, RunSteps
  <2> HIDE DEF whole, first, then
  <2> QED
    BY <1>1, <2>1, <2>2, <2>3, <2>4
<1>3. first[Len(s)] = then[0]
  BY <1>2 DEF ApplyAll
<1> HIDE DEF whole, first, then
<1>4. whole[Len(s)] = first[Len(s)]
  <2> DEFINE Same == {k \in 0..Len(s) : whole[k] = first[k]}
  <2>1. 0 \in Same
    BY <1>1, <1>2
  <2>2. ASSUME NEW n \in 0..Len(s), n < Len(s), n \in Same PROVE n + 1 \in Same
    <3>1. /\ n + 1 \in 1..Len(s) /\ n + 1 \in 1..(Len(s) + Len(t)) /\ n + 1 \in 0..Len(s)
          /\ (n + 1) - 1 = n
      BY <1>1, <2>2
    <3>2. /\ whole[n + 1] = After(whole[n], (s \o t)[n + 1])
          /\ first[n + 1] = After(first[n], s[n + 1])
      BY <1>2, <3>1
    <3>3. (s \o t)[n + 1] = s[n + 1] /\ whole[n] = first[n]
      BY <1>1, <2>2, <3>1
    <3> QED
      BY <3>1, <3>2, <3>3
  <2> HIDE DEF Same
  <2>3. 0..Len(s) \subseteq Same
    BY <1>1, <2>1, <2>2, CountingTo
  <2> QED
    BY <1>1, <2>3 DEF Same
<1>5. whole[Len(s) + Len(t)] = then[Len(t)]
  <2> DEFINE Same == {k \in 0..Len(t) : whole[Len(s) + k] = then[k]}
  <2>1. 0 \in Same
    BY <1>1, <1>3, <1>4
  <2>2. ASSUME NEW n \in 0..Len(t), n < Len(t), n \in Same PROVE n + 1 \in Same
    <3>1. /\ n + 1 \in 1..Len(t) /\ n + 1 \in 0..Len(t) /\ (n + 1) - 1 = n
          /\ Len(s) + (n + 1) \in 1..(Len(s) + Len(t)) /\ (Len(s) + (n + 1)) - 1 = Len(s) + n
      BY <1>1, <2>2
    <3>2. /\ whole[Len(s) + (n + 1)] = After(whole[Len(s) + n], (s \o t)[Len(s) + (n + 1)])
          /\ then[n + 1] = After(then[n], t[n + 1])
      BY <1>2, <3>1
    <3>3. (s \o t)[Len(s) + (n + 1)] = t[n + 1] /\ whole[Len(s) + n] = then[n]
      BY <1>1, <2>2, <3>1
    <3> QED
      BY <3>1, <3>2, <3>3
  <2> HIDE DEF Same
  <2>3. 0..Len(t) \subseteq Same
    BY <1>1, <2>1, <2>2, CountingTo
  <2> QED
    BY <1>1, <2>3 DEF Same
<1> QED
  BY <1>1, <1>5 DEF ApplyAll, whole, then

\* One mutation whose path exists goes through.
LEMMA ApplyOne ==
  ASSUME NEW fields, NEW m, HasPath(fields, m.path)
  PROVE  ApplyAll(fields, <<m>>) = Start(ApplyPath(fields, m))
<1>1. Len(<<m>>) = 1 /\ <<m>>[1] = m
  OBVIOUS
<1> DEFINE done == Applying(fields, <<m>>)
<1>2. done[0] = Start(fields) /\ \A k \in 1..1 : done[k] = After(done[k - 1], <<m>>[k])
  BY <1>1, RunSteps
<1> HIDE DEF done
<1>3. done[1] = After(Start(fields), m)
  <2>1. 1 \in 1..1 /\ 1 - 1 = 0
    OBVIOUS
  <2> QED
    BY <1>1, <1>2, <2>1
<1>4. After(Start(fields), m) = Start(ApplyPath(fields, m))
  BY DEF After, Start
<1> QED
  BY <1>1, <1>3, <1>4 DEF ApplyAll, done

\* A mutation recorded after a list that goes through, on a path that exists then, goes
\* through with it.
LEMMA ApplyAppend ==
  ASSUME NEW M, NEW s \in Seq(M), NEW m \in M, NEW fields, NEW middle,
         ApplyAll(fields, s) = Start(middle), HasPath(middle, m.path)
  PROVE  ApplyAll(fields, Append(s, m)) = Start(ApplyPath(middle, m))
<1> DEFINE one == <<m>>
<1>1. Append(s, m) = s \o one /\ one \in Seq(M)
  BY AppendIsConcat
<1>2. ApplyAll(middle, one) = Start(ApplyPath(middle, m))
  BY ApplyOne
<1> HIDE DEF one
<1>3. ApplyAll(fields, s \o one) = ApplyAll(middle, one)
  BY <1>1, ApplyConcat
<1> QED
  BY <1>1, <1>2, <1>3

\* Once stopped, the rest of the list changes nothing.
LEMMA ApplyStops ==
  ASSUME NEW fields, NEW ms, Len(ms) \in Nat, NEW k \in 1..Len(ms),
         ~HasPath(Applying(fields, ms)[k - 1].fields, ms[k].path)
  PROVE  ApplyAll(fields, ms).ok = FALSE
<1> DEFINE done == Applying(fields, ms)
<1>1. \A j \in 1..Len(ms) : done[j] = After(done[j - 1], ms[j])
  <2> HIDE DEF done
  <2> QED
    BY RunSteps DEF done
<1>2. ~HasPath(done[k - 1].fields, ms[k].path)
  OBVIOUS
<1> HIDE DEF done
<1> DEFINE Stopped == {n \in 0..(Len(ms) - k) : done[k + n].ok = FALSE}
<1>3. 0 \in Stopped
  <2>1. done[k] = After(done[k - 1], ms[k]) /\ k + 0 = k /\ 0 \in 0..(Len(ms) - k)
    BY <1>1
  <2>2. After(done[k - 1], ms[k]).ok = FALSE
    BY <1>2 DEF After
  <2> QED
    BY <2>1, <2>2
<1>4. ASSUME NEW n \in 0..(Len(ms) - k), n < Len(ms) - k, n \in Stopped PROVE n + 1 \in Stopped
  <2>1. k + (n + 1) \in 1..Len(ms) /\ (k + (n + 1)) - 1 = k + n /\ n + 1 \in 0..(Len(ms) - k)
    BY <1>4
  <2>2. done[k + (n + 1)] = After(done[k + n], ms[k + (n + 1)])
    BY <1>1, <2>1
  <2> QED
    BY <1>4, <2>1, <2>2 DEF After
<1> HIDE DEF Stopped
<1>5. Len(ms) - k \in Nat
  OBVIOUS
<1>6. 0..(Len(ms) - k) \subseteq Stopped
  BY <1>3, <1>4, <1>5, CountingTo
<1>7. Len(ms) - k \in Stopped /\ k + (Len(ms) - k) = Len(ms)
  BY <1>5, <1>6
<1> QED
  BY <1>7 DEF Stopped, ApplyAll, done

(* The values a plugin's own event holds *)

\* What a purchase holds: texts, prices, lists of prices an index reaches, and what a
\* handler that sets no value leaves.
Texts == [kind : {"string"}, atom : {"1", "2"}]
Prices == [kind : {"double"}, atom : {"1", "2"}]
PriceLists == {List(s) : s \in {s \in Seq(Prices) : Len(s) <= Uint32}}
Own == Texts \cup Prices \cup PriceLists \cup {Invalid}

\* What there is to know of a field that is a list.
LEMMA OwnLists ==
  ASSUME NEW v \in Own, v.kind = "list"
  PROVE  /\ v = List(v.items)
         /\ v.items \in Seq(Prices)
         /\ Len(v.items) \in 0..Uint32
<1>1. v \in PriceLists
  BY DEF Own, Texts, Prices, Invalid
<1>2. PICK s \in Seq(Prices) : Len(s) <= Uint32 /\ v = List(s)
  BY <1>1 DEF PriceLists
<1>3. v.items = s
  BY <1>2 DEF List
<1>4. Len(s) \in Nat
  BY LenProperties
<1> QED
  BY <1>2, <1>3, <1>4, PayloadAssumption

\* The fields with the value at one place.
PutAt(fields, i, v) == [fields EXCEPT ![i] = v]
PutIn(fields, i, j, v) == [fields EXCEPT ![i].items[j] = v]

\* ApplyPath on a whole field.
LEMMA ApplyAt ==
  ASSUME NEW fields, Len(fields) \in Nat, DOMAIN fields = 1..Len(fields), NEW i \in DOMAIN fields,
         NEW m, m.path = <<i - 1>>
  PROVE  /\ ApplyPath(fields, m) = PutAt(fields, i, m.value)
         /\ HasPath(fields, m.path)
<1> DEFINE path == m.path
<1>1. Len(path) = 1 /\ path[1] = i - 1 /\ path[1] + 1 = i
  OBVIOUS
<1> HIDE DEF path
<1>2. ApplyPath(fields, m) = PutAt(fields, i, m.value)
  <2>1. ApplyPath(fields, m) = PutAt(fields, path[1] + 1, m.value)
    BY <1>1, Zenon DEF ApplyPath, PutAt, PutIn, path
  <2> QED
    BY <1>1, <2>1
<1>3. HasPath(fields, path)
  BY <1>1 DEF HasPath
<1> QED
  BY <1>2, <1>3 DEF path

\* ApplyPath on an element of a list.
LEMMA ApplyIn ==
  ASSUME NEW fields, Len(fields) \in Nat, DOMAIN fields = 1..Len(fields), NEW i \in DOMAIN fields,
         NEW s, fields[i] = List(s), Len(s) \in Nat, DOMAIN s = 1..Len(s), NEW j \in DOMAIN s,
         NEW m, m.path = <<i - 1, j - 1>>
  PROVE  /\ ApplyPath(fields, m) = PutIn(fields, i, j, m.value)
         /\ HasPath(fields, m.path)
<1>1. /\ (i - 1) + 1 = i /\ (j - 1) + 1 = j /\ j - 1 < Len(s)
      /\ i - 1 < Len(fields)
  OBVIOUS
<1> DEFINE path == m.path
<1>2. Len(path) = 2 /\ path[1] = i - 1 /\ path[2] = j - 1
  OBVIOUS
<1> HIDE DEF path
<1>3. path[1] + 1 = i /\ path[2] + 1 = j
  BY <1>1, <1>2
<1>4. ApplyPath(fields, m) = PutIn(fields, i, j, m.value)
  <2>1. Len(path) # 1
    BY <1>2
  <2>2. ApplyPath(fields, m) = PutIn(fields, path[1] + 1, path[2] + 1, m.value)
    BY <2>1, Zenon DEF ApplyPath, PutAt, PutIn, path
  <2> QED
    BY <1>3, <2>2
<1>5. HasPath(fields, path)
  <2>1. fields[path[1] + 1].kind = "list" /\ Len(fields[path[1] + 1].items) = Len(s)
    BY <1>3 DEF List
  <2> QED
    BY <1>1, <1>2, <2>1 DEF HasPath
<1> QED
  BY <1>4, <1>5 DEF path

-----------------------------------------------------------------------------
(* What Diff records *)

\* The paths that moved, of all the fields.
AllMoved(before, after) == UNION {Moved(i, before[i], after[i]) : i \in DOMAIN before}

\* before, with what moved on the paths of done as it is in after.
Mix(before, after, done) ==
  [i \in DOMAIN before |->
     IF SameShape(before[i], after[i])
     THEN List([j \in DOMAIN before[i].items |->
                  IF <<i - 1, j - 1>> \in done THEN after[i].items[j] ELSE before[i].items[j]])
     ELSE IF <<i - 1>> \in done THEN after[i] ELSE before[i]]

\* Before any path is done, what there was.
LEMMA MixOfNothing ==
  ASSUME NEW before \in Seq(Own), NEW after
  PROVE  Mix(before, after, {}) = before
<1>1. DOMAIN before = 1..Len(before) /\ before \in [1..Len(before) -> Own]
  BY LenProperties
<1>2. ASSUME NEW i \in DOMAIN before PROVE Mix(before, after, {})[i] = before[i]
  <2>1. CASE SameShape(before[i], after[i])
    <3>1. before[i] = List(before[i].items) /\ before[i].items \in Seq(Prices)
      BY <1>1, <2>1, OwnLists DEF SameShape
    <3>2. before[i].items = [j \in DOMAIN before[i].items |-> before[i].items[j]]
      BY <3>1, LenProperties
    <3>3. Mix(before, after, {})[i] = List([j \in DOMAIN before[i].items |-> before[i].items[j]])
      BY <2>1 DEF Mix
    <3> QED
      BY <3>1, <3>2, <3>3
  <2>2. CASE ~SameShape(before[i], after[i])
    BY <2>2 DEF Mix
  <2> QED
    BY <2>1, <2>2
<1>3. Mix(before, after, {}) = [i \in DOMAIN before |-> Mix(before, after, {})[i]]
  BY DEF Mix
<1> QED
  BY <1>1, <1>2, <1>3

\* When all are done, what there is to be: nothing moved but on those paths.
LEMMA MixOfAll ==
  ASSUME NEW before \in Seq(Own), NEW after \in Seq(Own), Len(before) = Len(after)
  PROVE  Mix(before, after, AllMoved(before, after)) = after
<1> DEFINE all == AllMoved(before, after)
<1>1. /\ DOMAIN before = 1..Len(before) /\ before \in [1..Len(before) -> Own]
      /\ DOMAIN after = 1..Len(before) /\ after \in [1..Len(before) -> Own]
  BY LenProperties
<1>2. ASSUME NEW i \in DOMAIN before PROVE Mix(before, after, all)[i] = after[i]
  <2>1. Moved(i, before[i], after[i]) \subseteq all
    BY DEF AllMoved
  <2> HIDE DEF all
  <2>2. CASE SameShape(before[i], after[i])
    <3>1. /\ after[i] = List(after[i].items) /\ after[i].items \in Seq(Prices)
          /\ before[i].items \in Seq(Prices) /\ Len(before[i].items) = Len(after[i].items)
      BY <1>1, <2>2, OwnLists DEF SameShape
    <3>2. /\ DOMAIN before[i].items = DOMAIN after[i].items
          /\ after[i].items = [j \in DOMAIN after[i].items |-> after[i].items[j]]
      BY <3>1, LenProperties
    <3>3. ASSUME NEW j \in DOMAIN before[i].items, <<i - 1, j - 1>> \notin all
          PROVE  before[i].items[j] = after[i].items[j]
      BY <2>1, <2>2, <3>3 DEF Moved
    <3>4. Mix(before, after, all)[i] =
            List([j \in DOMAIN before[i].items |->
                    IF <<i - 1, j - 1>> \in all THEN after[i].items[j] ELSE before[i].items[j]])
      BY <2>2 DEF Mix
    <3>5. [j \in DOMAIN before[i].items |->
             IF <<i - 1, j - 1>> \in all THEN after[i].items[j] ELSE before[i].items[j]]
            = after[i].items
      BY <3>2, <3>3
    <3> QED
      BY <3>1, <3>4, <3>5
  <2>3. CASE ~SameShape(before[i], after[i])
    <3>1. <<i - 1>> \in all \/ before[i] = after[i]
      BY <2>1, <2>3 DEF Moved
    <3>2. Mix(before, after, all)[i] = IF <<i - 1>> \in all THEN after[i] ELSE before[i]
      BY <2>3 DEF Mix
    <3> QED
      BY <3>1, <3>2
  <2> QED
    BY <2>2, <2>3
<1>3. Mix(before, after, all) = [i \in DOMAIN before |-> Mix(before, after, all)[i]]
  BY DEF Mix
<1> HIDE DEF all
<1>4. Mix(before, after, all) = after
  BY <1>1, <1>2, <1>3
<1> QED
  BY <1>4 DEF all

\* Doing one of the paths that moved finds it there, whichever of the others are done: no
\* two of them touch.
LEMMA MixStep ==
  ASSUME NEW before \in Seq(Own), NEW after \in Seq(Own), Len(before) = Len(after),
         NEW done, NEW m, m.path \in AllMoved(before, after), m.value = At(after, m.path)
  PROVE  /\ HasPath(Mix(before, after, done), m.path)
         /\ ApplyPath(Mix(before, after, done), m) = Mix(before, after, done \cup {m.path})
<1> DEFINE now == Mix(before, after, done)
           next == Mix(before, after, done \cup {m.path})
           n == Len(before)
<1>1. /\ n \in Nat /\ DOMAIN before = 1..n /\ before \in [1..n -> Own]
      /\ DOMAIN after = 1..n /\ after \in [1..n -> Own]
  BY LenProperties
<1>2. PICK i \in 1..n : m.path \in Moved(i, before[i], after[i])
  BY <1>1 DEF AllMoved
<1>3. DOMAIN now = 1..n /\ DOMAIN next = 1..n /\ Len(now) = n
  BY <1>1 DEF Mix
<1>4. /\ now = [x \in 1..n |-> now[x]] /\ next = [x \in 1..n |-> next[x]]
  BY <1>1 DEF Mix
<1>5. ASSUME NEW x \in 1..n, x # i PROVE next[x] = now[x]
  <2>1. m.path[1] = i - 1
    BY <1>2 DEF Moved
  <2>2. \A j \in DOMAIN before[x].items : <<x - 1, j - 1>> # m.path
    BY <1>5, <2>1
  <2>3. <<x - 1>> # m.path
    BY <1>5, <2>1
  <2>4. CASE SameShape(before[x], after[x])
    <3>1. [j \in DOMAIN before[x].items |->
             IF <<x - 1, j - 1>> \in done THEN after[x].items[j] ELSE before[x].items[j]] =
          [j \in DOMAIN before[x].items |->
             IF <<x - 1, j - 1>> \in done \cup {m.path}
             THEN after[x].items[j] ELSE before[x].items[j]]
      BY <2>2
    <3> QED
      BY <1>1, <2>4, <3>1 DEF Mix
  <2>5. CASE ~SameShape(before[x], after[x])
    BY <1>1, <2>3, <2>5 DEF Mix
  <2> QED
    BY <2>4, <2>5
<1>6. CASE SameShape(before[i], after[i])
  <2> DEFINE old == before[i].items
             new == after[i].items
             items == [j \in DOMAIN old |-> IF <<i - 1, j - 1>> \in done THEN new[j] ELSE old[j]]
  <2>1. old \in Seq(Prices) /\ new \in Seq(Prices) /\ Len(old) = Len(new)
    BY <1>1, <1>6, OwnLists DEF SameShape
  <2>2. PICK j \in DOMAIN old : m.path = <<i - 1, j - 1>>
    BY <1>2, <1>6 DEF Moved
  <2>3. DOMAIN old = 1..Len(old) /\ Len(old) \in Nat
    BY <2>1, LenProperties
  <2>4. \A k \in DOMAIN old : old[k] \in Prices /\ new[k] \in Prices
    BY <2>1, <2>3, ElementOfSeq
  <2>5. items \in Seq(Prices) /\ Len(items) = Len(old)
    BY <2>3, <2>4
  <2>6. now[i] = List(items)
    BY <1>1, <1>6 DEF Mix
  <2>7. next[i] = List([k \in DOMAIN old |->
                          IF <<i - 1, k - 1>> \in done \cup {m.path} THEN new[k] ELSE old[k]])
    BY <1>1, <1>6 DEF Mix
  <2>8. [k \in DOMAIN old |-> IF <<i - 1, k - 1>> \in done \cup {m.path} THEN new[k] ELSE old[k]]
          = [items EXCEPT ![j] = new[j]]
    <3>1. ASSUME NEW k \in DOMAIN old
          PROVE  (<<i - 1, k - 1>> \in done \cup {m.path}) <=> (<<i - 1, k - 1>> \in done \/ k = j)
      BY <2>2, <2>3
    <3> QED
      BY <3>1
  <2>9. At(after, m.path) = new[j]
    <3>1. Len(m.path) # 1 /\ m.path[1] + 1 = i /\ m.path[2] + 1 = j
      BY <2>2, <2>3
    <3> QED
      BY <3>1 DEF At
  <2>14. j \in 1..Len(items)
    BY <2>2, <2>3, <2>5
  <2> HIDE DEF items, old, new, now, n
  <2>10. m.path = <<i - 1, j - 1>> /\ m.value = new[j]
    BY <2>2, <2>9
  <2>11. ApplyPath(now, m) = PutIn(now, i, j, m.value) /\ HasPath(now, m.path)
    <3>1. Len(now) \in Nat /\ DOMAIN now = 1..Len(now) /\ i \in DOMAIN now
      BY <1>1, <1>3
    <3>2. Len(items) \in Nat /\ DOMAIN items = 1..Len(items) /\ j \in DOMAIN items
      BY <2>3, <2>5, <2>14
    <3>3. m.path = <<i - 1, j - 1>>
      BY <2>10
    <3> QED
      BY <3>1, <3>2, <3>3, <2>6, ApplyIn
  <2> DEFINE w == new[j]
  <2>12. ApplyPath(now, m) = PutIn(now, i, j, w)
    BY <2>10, <2>11
  <2>13. PutIn(now, i, j, w) = next
    <3> HIDE DEF next, w
    <3>1. next[i] = List([items EXCEPT ![j] = w])
      BY <2>7, <2>8 DEF w
    <3>2. [now[i] EXCEPT !.items[j] = w] = List([items EXCEPT ![j] = w])
      BY <2>6 DEF List
    <3> QED
      BY <1>3, <1>4, <1>5, <3>1, <3>2 DEF PutIn
  <2> QED
    BY <2>11, <2>12, <2>13 DEF now
<1>7. CASE ~SameShape(before[i], after[i])
  <2>1. m.path = <<i - 1>>
    BY <1>2, <1>7 DEF Moved
  <2>2. next[i] = after[i]
    BY <1>1, <1>7, <2>1 DEF Mix
  <2>3. At(after, m.path) = after[i]
    <3>1. Len(m.path) = 1 /\ m.path[1] + 1 = i
      BY <2>1
    <3> QED
      BY <3>1 DEF At
  <2> HIDE DEF now, n
  <2>4. m.path = <<i - 1>> /\ m.value = after[i]
    BY <2>1, <2>3
  <2>5. ApplyPath(now, m) = PutAt(now, i, after[i]) /\ HasPath(now, m.path)
    <3>1. Len(now) \in Nat /\ DOMAIN now = 1..Len(now) /\ i \in DOMAIN now
      BY <1>1, <1>3
    <3>2. ApplyPath(now, m) = PutAt(now, i, m.value) /\ HasPath(now, m.path)
      BY <3>1, <2>4, ApplyAt
    <3> QED
      BY <3>2, <2>4
  <2>6. PutAt(now, i, after[i]) = next
    <3> HIDE DEF next
    <3> QED
      BY <1>3, <1>4, <1>5, <2>2 DEF PutAt
  <2> QED
    BY <2>5, <2>6 DEF now
<1> QED
  BY <1>6, <1>7

\* Finitely many paths moved, so that they can be listed.
LEMMA AllMovedFinite ==
  ASSUME NEW before \in Seq(Own), NEW after
  PROVE  IsFiniteSet(AllMoved(before, after))
<1> DEFINE n == Len(before)
           at(i) == Moved(i, before[i], after[i])
<1>1. n \in Nat /\ DOMAIN before = 1..n /\ before \in [1..n -> Own]
  BY LenProperties
<1>2. ASSUME NEW i \in 1..n PROVE IsFiniteSet(at(i))
  <2>1. CASE SameShape(before[i], after[i])
    <3> DEFINE old == before[i].items
               J == {j \in DOMAIN old : old[j] # after[i].items[j]}
               P == {<<i - 1, j - 1>> : j \in J}
               f == [j \in J |-> <<i - 1, j - 1>>]
    <3>1. old \in Seq(Prices)
      BY <1>1, <2>1, OwnLists DEF SameShape
    <3>2. IsFiniteSet(DOMAIN old)
      <4>1. PICK l \in Nat : DOMAIN old = 1..l
        BY <3>1, LenProperties
      <4>2. IsFiniteSet(1..l)
        BY FS_Interval
      <4> QED
        BY <4>1, <4>2
    <3>3. IsFiniteSet(J)
      BY <3>2, FS_Subset
    <3>4. f \in Surjection(J, P)
      BY DEF Surjection
    <3> HIDE DEF f, J, P
    <3>5. IsFiniteSet(P)
      BY <3>3, <3>4, FS_Surjection
    <3> QED
      BY <2>1, <3>5 DEF P, J, Moved
  <2>2. CASE ~SameShape(before[i], after[i])
    BY <2>2, FS_EmptySet, FS_Singleton DEF Moved
  <2> QED
    BY <2>1, <2>2
<1>3. IsFiniteSet({at(i) : i \in 1..n})
  <2> DEFINE f == [i \in 1..n |-> at(i)]
  <2>1. f \in Surjection(1..n, {at(i) : i \in 1..n})
    BY DEF Surjection
  <2>2. IsFiniteSet(1..n)
    BY <1>1, FS_Interval
  <2> HIDE DEF f, at
  <2> QED
    BY <2>1, <2>2, FS_Surjection
<1>4. IsFiniteSet(UNION {at(i) : i \in 1..n})
  <2> HIDE DEF at
  <2> QED
    BY <1>2, <1>3, FS_UNION
<1> QED
  BY <1>1, <1>4 DEF AllMoved

\* SetToSeq lists each member of a finite set, and nothing else.
LEMMA SetToSeqLists ==
  ASSUME NEW S, IsFiniteSet(S)
  PROVE  /\ SetToSeq(S) \in Seq(S)
         /\ \A x \in S : \E k \in 1..Len(SetToSeq(S)) : SetToSeq(S)[k] = x
<1> DEFINE n == Cardinality(S)
           p == SetToSeq(S)
<1>1. n \in Nat /\ ExistsBijection(1..n, S)
  BY FS_CardinalityType
<1>2. \E f \in [1..n -> S] : IsInjective(f)
  BY <1>1 DEF ExistsBijection, Bijection, Injection, IsInjective
<1>3. p \in [1..n -> S] /\ IsInjective(p)
  BY <1>2 DEF SetToSeq
<1> HIDE DEF p
<1>4. p \in Injection(1..n, S)
  BY <1>3 DEF Injection, IsInjective
<1>5. Cardinality(1..n) = n
  BY <1>1, FS_Interval
<1>6. p \in Surjection(1..n, S)
  BY <1>4, <1>5, FS_Injection
<1>7. p \in Seq(S) /\ Len(p) = n
  BY <1>1, <1>3
<1>8. \A x \in S : \E k \in 1..n : p[k] = x
  BY <1>6 DEF Surjection
<1> QED
  BY <1>7, <1>8 DEF p

\* One mutation for each path that moved, with what is there afterwards.
ListMoved(ms, before, after) ==
  /\ Len(ms) \in Nat
  /\ \A k \in 1..Len(ms) : /\ ms[k].path \in AllMoved(before, after)
                           /\ ms[k].value = At(after, ms[k].path)
  /\ \A p \in AllMoved(before, after) : \E k \in 1..Len(ms) : ms[k].path = p
  /\ ms \in Seq({Mutation(p, At(after, p)) : p \in AllMoved(before, after)})

\* Diff lists the paths that moved, in whatever order.
LEMMA DiffLists ==
  ASSUME NEW before \in Seq(Own), NEW after
  PROVE  ListMoved(Diff(before, after), before, after)
<1> DEFINE all == AllMoved(before, after)
           paths == SetToSeq(all)
           ms == [k \in DOMAIN paths |-> Mutation(paths[k], At(after, paths[k]))]
<1>1. IsFiniteSet(all)
  BY AllMovedFinite
<1>2. Diff(before, after) = ms
  BY DEF Diff, AllMoved
<1> HIDE DEF all
<1>3. paths \in Seq(all) /\ \A x \in all : \E k \in 1..Len(paths) : paths[k] = x
  BY <1>1, SetToSeqLists
<1> HIDE DEF paths
<1>4. /\ Len(paths) \in Nat /\ DOMAIN paths = 1..Len(paths)
      /\ \A k \in 1..Len(paths) : paths[k] \in all
  BY <1>3, LenProperties, ElementOfSeq
<1>5. ms \in Seq({Mutation(p, At(after, p)) : p \in all}) /\ Len(ms) = Len(paths)
  BY <1>4
<1>6. \A k \in 1..Len(paths) : ms[k].path = paths[k] /\ ms[k].value = At(after, paths[k])
  BY <1>4 DEF Mutation
<1> HIDE DEF ms
<1>7. \A k \in 1..Len(ms) : ms[k].path \in all /\ ms[k].value = At(after, ms[k].path)
  BY <1>4, <1>5, <1>6
<1>8. \A p \in all : \E k \in 1..Len(ms) : ms[k].path = p
  BY <1>3, <1>5, <1>6
<1> QED
  BY <1>2, <1>4, <1>5, <1>7, <1>8 DEF all, ListMoved

\* What abi.Diff records, applied to the fields as they were, gives the fields as they
\* are, in whatever order it lists them and whether or not the lists kept their lengths
\* (receive.go:18-23, Update).
THEOREM DiffReplays ==
  ASSUME NEW before \in Seq(Own), NEW after \in Seq(Own), Len(before) = Len(after)
  PROVE  ApplyAll(before, Diff(before, after)) = Start(after)
<1> DEFINE all == AllMoved(before, after)
           ms == Diff(before, after)
           run == Applying(before, ms)
           done(k) == {ms[l].path : l \in 1..k}
           S == {k \in 0..Len(ms) : run[k] = Start(Mix(before, after, done(k)))}
<1>1. /\ Len(ms) \in Nat
      /\ \A k \in 1..Len(ms) : ms[k].path \in all /\ ms[k].value = At(after, ms[k].path)
      /\ \A p \in all : \E k \in 1..Len(ms) : ms[k].path = p
  <2>1. ListMoved(ms, before, after)
    BY DiffLists
  <2> HIDE DEF ms
  <2> QED
    BY <2>1 DEF ListMoved
<1> HIDE DEF ms
<1>2. run[0] = Start(before) /\ \A k \in 1..Len(ms) : run[k] = After(run[k - 1], ms[k])
  <2> HIDE DEF run
  <2> QED
    BY <1>1, RunSteps DEF run
<1> HIDE DEF run
<1>3. 0 \in S
  <2>1. done(0) = {}
    OBVIOUS
  <2>2. Mix(before, after, {}) = before
    BY MixOfNothing
  <2>3. run[0] = Start(Mix(before, after, done(0)))
    BY <1>2, <2>1, <2>2, Zenon
  <2> QED
    BY <1>1, <2>3
<1>4. ASSUME NEW k \in 0..Len(ms), k < Len(ms), k \in S PROVE k + 1 \in S
  <2>1. k + 1 \in 1..Len(ms) /\ k + 1 \in 0..Len(ms) /\ (k + 1) - 1 = k
    BY <1>1, <1>4
  <2> DEFINE now == Mix(before, after, done(k))
             m == ms[k + 1]
  <2>2. m.path \in all /\ m.value = At(after, m.path)
    BY <1>1, <2>1
  <2>3. done(k + 1) = done(k) \cup {m.path}
    <3>1. \A l : l \in 1..(k + 1) <=> l \in 1..k \/ l = k + 1
      BY <1>4
    <3> QED
      BY <3>1
  <2> HIDE DEF m, done
  <2>4. HasPath(now, m.path) /\ ApplyPath(now, m) = Mix(before, after, done(k) \cup {m.path})
    BY <2>2, MixStep
  <2>5. run[k + 1] = After(run[k], m) /\ run[k] = Start(now)
    BY <1>2, <1>4, <2>1 DEF m
  <2> HIDE DEF now
  <2>6. After(Start(now), m) = Start(ApplyPath(now, m))
    BY <2>4 DEF After, Start
  <2> QED
    BY <2>1, <2>3, <2>4, <2>5, <2>6
<1>5. Len(ms) \in S
  <2> HIDE DEF S
  <2>1. 0..Len(ms) \subseteq S
    BY <1>1, <1>3, <1>4, CountingTo
  <2> QED
    BY <1>1, <2>1
<1>6. done(Len(ms)) = all
  BY <1>1
<1>7. Mix(before, after, all) = after
  BY MixOfAll
<1> QED
  BY <1>5, <1>6, <1>7 DEF ApplyAll, ms, run

-----------------------------------------------------------------------------
(* The fields and the mutations of a purchase *)

\* A purchase has three fields.
OwnFields == {fields \in Seq(Own) : Len(fields) = 3}

\* A whole field, or an element of one.
Whole == [path : {<<i>> : i \in 0..2}, value : Own]
Element == [path : {<<i, j>> : i \in 0..2, j \in 0..(Uint32 - 1)}, value : Prices]
OwnMutations == Whole \cup Element

\* What is assumed of the constants, one at a time.
LEMMA Wide == Uint32 \in Nat /\ Uint32 > 6 /\ MaxDispatches \in Nat /\ MaxWrites \in Nat
BY PayloadAssumption

\* The three fields of the purchase, as a sequence and as a function.
LEMMA OwnFieldsAre ==
  ASSUME NEW fields
  PROVE  fields \in OwnFields <=> fields \in [1..3 -> Own]
<1>1. ASSUME fields \in [1..3 -> Own] PROVE fields \in Seq(Own) /\ Len(fields) = 3
  <2>1. fields \in Seq(Own)
    <3>1. 3 \in Nat
      OBVIOUS
    <3> QED
      BY <1>1, <3>1, SeqDef
  <2>2. DOMAIN fields = 1..3
    BY <1>1
  <2>3. Len(fields) \in Nat /\ DOMAIN fields = 1..Len(fields)
    BY <2>1, LenProperties
  <2>4. PICK n \in Nat : n = Len(fields)
    BY <2>3
  <2>5. \A k \in Nat : k \in 1..3 <=> k \in 1..n
    BY <2>2, <2>3, <2>4
  <2>6. n = 3
    <3>1. 3 \in 1..n
      BY <2>5
    <3>2. 4 \notin 1..n
      BY <2>5
    <3> QED
      BY <3>1, <3>2
  <2> QED
    BY <2>1, <2>4, <2>6
<1>2. ASSUME fields \in Seq(Own), Len(fields) = 3 PROVE fields \in [1..3 -> Own]
  <2>1. fields \in [1..Len(fields) -> Own]
    BY <1>2, LenProperties
  <2> QED
    BY <1>2, <2>1
<1> QED
  BY <1>1, <1>2 DEF OwnFields

\* A mutation of the purchase's keeps them fields of a purchase.
LEMMA OwnApplies ==
  ASSUME NEW fields \in OwnFields, NEW m \in OwnMutations, HasPath(fields, m.path)
  PROVE  ApplyPath(fields, m) \in OwnFields
<1>1. /\ Len(fields) = 3 /\ DOMAIN fields = 1..3 /\ fields \in [1..3 -> Own]
  BY LenProperties, OwnFieldsAre DEF OwnFields
<1>4. Len(fields) \in Nat /\ DOMAIN fields = 1..Len(fields)
  BY <1>1
<1>2. CASE m \in Whole
  <2>1. PICK i \in 0..2 : m.path = <<i>>
    BY <1>2 DEF Whole
  <2>2. i + 1 \in DOMAIN fields /\ m.path = <<(i + 1) - 1>> /\ m.value \in Own
    BY <1>1, <1>2, <2>1 DEF Whole
  <2>3. ApplyPath(fields, m) = PutAt(fields, i + 1, m.value)
    BY <1>4, <2>2, ApplyAt
  <2>4. PutAt(fields, i + 1, m.value) \in [1..3 -> Own]
    BY <1>1, <2>2 DEF PutAt
  <2> QED
    BY <2>3, <2>4, OwnFieldsAre
<1>3. CASE m \in Element
  <2>1. PICK i \in 0..2, j \in 0..(Uint32 - 1) : m.path = <<i, j>>
    BY <1>3 DEF Element
  <2>2. fields[i + 1].kind = "list" /\ j < Len(fields[i + 1].items) /\ m.value \in Prices
    <3>1. Len(m.path) = 2 /\ m.path[1] = i /\ m.path[2] = j
      BY <2>1
    <3>2. m.value \in Prices
      BY <1>3 DEF Element
    <3> QED
      BY <3>1, <3>2 DEF HasPath
  <2> DEFINE items == fields[i + 1].items
             v == m.value
             new == [items EXCEPT ![j + 1] = v]
  <2>3. fields[i + 1] \in Own
    BY <1>1
  <2>4. fields[i + 1] = List(items) /\ items \in Seq(Prices) /\ Len(items) \in 0..Uint32
    BY <2>2, <2>3, OwnLists
  <2>5. /\ Len(items) \in Nat /\ DOMAIN items = 1..Len(items) /\ j + 1 \in DOMAIN items
        /\ i + 1 \in DOMAIN fields /\ m.path = <<(i + 1) - 1, (j + 1) - 1>>
    BY <1>1, <2>1, <2>2, <2>4, LenProperties
  <2>6. ApplyPath(fields, m) = PutIn(fields, i + 1, j + 1, v)
    <3> HIDE DEF items
    <3> QED
      BY <1>4, <2>4, <2>5, ApplyIn
  <2>7. new \in Seq(Prices) /\ Len(new) <= Uint32
    BY <2>2, <2>4, <2>5, ExceptSeq
  <2>8. List(new) \in Own
    BY <2>7 DEF Own, PriceLists
  <2>9. [fields[i + 1] EXCEPT !.items[j + 1] = v] = List(new)
    <3> DEFINE old == fields[i + 1]
    <3> HIDE DEF items, v, old
    <3>1. old = List(items)
      BY <2>4 DEF old
    <3>2. [old EXCEPT !.items[j + 1] = v] = List([items EXCEPT ![j + 1] = v])
      BY <3>1 DEF List
    <3> QED
      BY <3>2 DEF old
  <2>10. PutIn(fields, i + 1, j + 1, v) \in [1..3 -> Own]
    <3> HIDE DEF new, v
    <3> QED
      BY <1>1, <2>5, <2>8, <2>9 DEF PutIn
  <2> QED
    BY <2>6, <2>10, OwnFieldsAre
<1> QED
  BY <1>2, <1>3 DEF OwnMutations

\* And the difference of two purchases is made of such mutations: every index in it fits
\* a path.
LEMMA DiffIsOwn ==
  ASSUME NEW before \in OwnFields, NEW after \in OwnFields
  PROVE  Diff(before, after) \in Seq(OwnMutations)
<1>1. /\ DOMAIN before = 1..3 /\ before \in [1..3 -> Own] /\ before \in Seq(Own)
      /\ after \in [1..3 -> Own]
  BY LenProperties DEF OwnFields
<1> DEFINE M == {Mutation(p, At(after, p)) : p \in AllMoved(before, after)}
<1>2. Diff(before, after) \in Seq(M)
  BY <1>1, DiffLists DEF ListMoved
<1>3. ASSUME NEW p \in AllMoved(before, after) PROVE Mutation(p, At(after, p)) \in OwnMutations
  <2>1. PICK i \in 1..3 : p \in Moved(i, before[i], after[i])
    BY <1>1 DEF AllMoved
  <2>2. i - 1 \in 0..2 /\ (i - 1) + 1 = i /\ before[i] \in Own /\ after[i] \in Own
    BY <1>1
  <2>3. CASE SameShape(before[i], after[i])
    <3>1. /\ before[i].items \in Seq(Prices) /\ after[i].items \in Seq(Prices)
          /\ Len(before[i].items) = Len(after[i].items) /\ Len(before[i].items) \in 0..Uint32
      BY <2>2, <2>3, OwnLists DEF SameShape
    <3>2. PICK j \in DOMAIN before[i].items : p = <<i - 1, j - 1>>
      BY <2>1, <2>3 DEF Moved
    <3>3. j \in 1..Len(after[i].items) /\ j - 1 \in 0..(Uint32 - 1) /\ (j - 1) + 1 = j
      <4>1. DOMAIN before[i].items = 1..Len(before[i].items)
        BY <3>1, LenProperties
      <4> QED
        BY <3>1, <3>2, <4>1, Wide
    <3>4. after[i].items[j] \in Prices
      BY <3>1, <3>3, ElementOfSeq
    <3>5. At(after, p) = after[i].items[j]
      <4>1. Len(p) # 1 /\ p[1] = i - 1 /\ p[2] = j - 1
        BY <3>2
      <4> QED
        BY <2>2, <3>3, <4>1 DEF At
    <3> DEFINE a == i - 1
               b == j - 1
               v == At(after, p)
    <3>6. a \in 0..2 /\ b \in 0..(Uint32 - 1) /\ p = <<a, b>> /\ v \in Prices
      BY <2>2, <3>2, <3>3, <3>4, <3>5
    <3> HIDE DEF a, b, v
    <3>7. Mutation(p, v) \in Element
      BY <3>6 DEF Mutation, Element
    <3> QED
      BY <3>7 DEF OwnMutations, v
  <2>4. CASE ~SameShape(before[i], after[i])
    <3>1. p = <<i - 1>>
      BY <2>1, <2>4 DEF Moved
    <3>2. At(after, p) = after[i]
      <4>1. Len(p) = 1 /\ p[1] = i - 1
        BY <3>1
      <4> QED
        BY <2>2, <4>1 DEF At
    <3> DEFINE a == i - 1
               v == At(after, p)
    <3>3. a \in 0..2 /\ p = <<a>> /\ v \in Own
      BY <2>2, <3>1, <3>2
    <3> HIDE DEF a, v
    <3>4. Mutation(p, v) \in Whole
      BY <3>3 DEF Mutation, Whole
    <3> QED
      BY <3>4 DEF OwnMutations, v
  <2> QED
    BY <2>3, <2>4
<1>4. M \subseteq OwnMutations
  BY <1>3
<1> HIDE DEF M
<1> QED
  BY <1>2, <1>4, SeqMonotonic

-----------------------------------------------------------------------------
(* What is compared of a native event *)

\* The record of each native event.
LEMMA NativeTable ==
  /\ NativeEvents["block.break"] = BlockBreak
  /\ NativeEvents["player.join"] = PlayerJoin
  /\ NativeEvents["block.place"] = BlockPlace
  /\ NativeEvents["player.quit"] = PlayerQuit
  /\ NativeEvents["player.chat"] = PlayerChat
  /\ NativeEvents["player.command"] = PlayerCommand
  /\ NativeEvents["player.damage"] = PlayerDamage
  /\ NativeEvents["player.death"] = PlayerDeath
  /\ NativeEvents["player.respawn"] = PlayerRespawn
  /\ NativeEvents["player.teleport"] = PlayerTeleport
  /\ NativeEvents["player.interact"] = PlayerInteract
  /\ NativeEvents["inventory.click"] = InventoryClick
  /\ NativeEvents["item.use"] = ItemUse
  /\ NativeEvents["entity.damage"] = EntityDamage
BY DEF NativeEvents

\* The fourteen of them.
LEMMA Natives ==
  DOMAIN NativeEvents =
    {"block.break", "player.join", "block.place", "player.quit", "player.chat",
     "player.command", "player.damage", "player.death", "player.respawn",
     "player.teleport", "player.interact", "inventory.click", "item.use", "entity.damage"}
BY DEF NativeEvents

\* nativeCancellable names the events whose typed handlers are given a control, and no
\* other: the two places of events.gen.go agree.
LEMMA ControlsAgree ==
  ASSUME NEW type \in DOMAIN NativeEvents
  PROVE  NativeCancellable(type) <=> NativeEvents[type].control
<1>1. /\ BlockBreak.control = TRUE /\ PlayerJoin.control = FALSE /\ BlockPlace.control = TRUE
      /\ PlayerQuit.control = FALSE /\ PlayerChat.control = TRUE /\ PlayerCommand.control = TRUE
      /\ PlayerDamage.control = TRUE /\ PlayerDeath.control = FALSE /\ PlayerRespawn.control = FALSE
      /\ PlayerTeleport.control = TRUE /\ PlayerInteract.control = TRUE
      /\ InventoryClick.control = TRUE /\ ItemUse.control = TRUE /\ EntityDamage.control = TRUE
  BY DEF Native, BlockBreak, PlayerJoin, BlockPlace, PlayerQuit, PlayerChat, PlayerCommand,
         PlayerDamage, PlayerDeath, PlayerRespawn, PlayerTeleport, PlayerInteract,
         InventoryClick, ItemUse, EntityDamage
<1> QED
  BY <1>1, NativeTable, Natives DEF NativeCancellable

\* The fields documented as Mutable are there in the layout.
LEMMA MutablesAre ==
  /\ \A type \in {"player.chat", "player.command", "player.damage"} :
       NativeEvents[type].mutable = {1} /\ Len(NativeEvents[type].layout) > 1
  /\ NativeEvents["player.teleport"].mutable = {4, 5, 6}
  /\ Len(NativeEvents["player.teleport"].layout) > 6
  /\ NativeEvents["entity.damage"].mutable = {2} /\ Len(NativeEvents["entity.damage"].layout) > 2
  /\ \A type \in DOMAIN NativeEvents \ {"player.chat", "player.command", "player.damage",
                                        "player.teleport", "entity.damage"} :
       NativeEvents[type].mutable = {}
<1>1. /\ BlockBreak.mutable = {} /\ PlayerJoin.mutable = {} /\ BlockPlace.mutable = {}
      /\ PlayerQuit.mutable = {} /\ PlayerDeath.mutable = {} /\ PlayerRespawn.mutable = {}
      /\ PlayerInteract.mutable = {} /\ InventoryClick.mutable = {} /\ ItemUse.mutable = {}
  BY DEF Native, BlockBreak, PlayerJoin, BlockPlace, PlayerQuit, PlayerDeath, PlayerRespawn,
         PlayerInteract, InventoryClick, ItemUse
<1>2. /\ PlayerChat.mutable = {1} /\ Len(PlayerChat.layout) > 1
      /\ PlayerCommand.mutable = {1} /\ Len(PlayerCommand.layout) > 1
      /\ PlayerDamage.mutable = {1} /\ Len(PlayerDamage.layout) > 1
  BY DEF Native, PlayerChat, PlayerCommand, PlayerDamage
<1>3. /\ PlayerTeleport.mutable = {4, 5, 6} /\ Len(PlayerTeleport.layout) > 6
      /\ EntityDamage.mutable = {2} /\ Len(EntityDamage.layout) > 2
  BY DEF Native, PlayerTeleport, EntityDamage
<1> QED
  BY <1>1, <1>2, <1>3, NativeTable, Natives

\* Whether or not a field moved, what is recorded of it takes it over.
LEMMA IfMovedReplays ==
  ASSUME NEW fields, Len(fields) \in Nat, DOMAIN fields = 1..Len(fields),
         fields = [x \in DOMAIN fields |-> fields[x]],
         NEW i \in Nat, i + 1 \in DOMAIN fields, NEW before, NEW after,
         fields[i + 1] = before[i + 1]
  PROVE  ApplyAll(fields, IfMoved(i, before, after)) = Start(PutAt(fields, i + 1, after[i + 1]))
<1>1. CASE after[i + 1] = before[i + 1]
  <2> DEFINE v == after[i + 1]
             k == i + 1
  <2>0. fields[k] = v /\ k \in DOMAIN fields
    BY <1>1
  <2> HIDE DEF v, k
  <2>1. PutAt(fields, k, v) = fields
    BY <2>0 DEF PutAt
  <2>2. IfMoved(i, before, after) = <<>>
    BY <1>1 DEF IfMoved
  <2> QED
    BY <2>1, <2>2, ApplyNothing DEF k, v, Start
<1>2. CASE after[i + 1] # before[i + 1]
  <2> DEFINE m == Mutation(<<i>>, after[i + 1])
  <2>1. IfMoved(i, before, after) = <<m>>
    BY <1>2 DEF IfMoved
  <2>2. m.path = <<(i + 1) - 1>> /\ m.value = after[i + 1]
    BY DEF Mutation
  <2> HIDE DEF m
  <2>3. ApplyPath(fields, m) = PutAt(fields, i + 1, m.value) /\ HasPath(fields, m.path)
    BY <2>2, ApplyAt
  <2> QED
    BY <2>1, <2>2, <2>3, ApplyOne
<1> QED
  BY <1>1, <1>2

\* A field that is compared, as a whole.
NativeWrites(V) == [path : {<<i>> : i \in {1, 2, 4, 5, 6}}, value : V]

\* The fields with the ones of a set, counted from 0, as they are in another.
Taken(fields, after, set) ==
  [x \in DOMAIN fields |-> IF x - 1 \in set THEN after[x] ELSE fields[x]]

\* What there is to know of a sequence.
LEMMA SeqShape ==
  ASSUME NEW V, NEW s \in Seq(V)
  PROVE  /\ Len(s) \in Nat /\ DOMAIN s = 1..Len(s)
         /\ s = [x \in DOMAIN s |-> s[x]]
         /\ \A x \in DOMAIN s : s[x] \in V
BY LenProperties, ElementOfSeq

\* What is recorded of a field is a list of writes of native fields.
LEMMA IfMovedWrites ==
  ASSUME NEW V, NEW i \in {1, 2, 4, 5, 6}, NEW before, NEW after, after[i + 1] \in V
  PROVE  IfMoved(i, before, after) \in Seq(NativeWrites(V))
<1> DEFINE m == Mutation(<<i>>, after[i + 1])
<1>1. m \in NativeWrites(V)
  BY DEF Mutation, NativeWrites
<1>2. IfMoved(i, before, after) = <<m>> \/ IfMoved(i, before, after) = <<>>
  BY DEF IfMoved
<1> HIDE DEF m
<1>3. <<m>> \in Seq(NativeWrites(V)) /\ <<>> \in Seq(NativeWrites(V))
  <2> DEFINE W == NativeWrites(V)
  <2>1. m \in W
    BY <1>1
  <2> HIDE DEF W
  <2>2. <<m>> \in Seq(W) /\ <<>> \in Seq(W)
    BY <2>1
  <2> QED
    BY <2>2 DEF W
<1> QED
  BY <1>2, <1>3

\* Recording the first of the fields compared takes over that one.
LEMMA OneTaken ==
  ASSUME NEW V, NEW given_ \in Seq(V), NEW view_ \in Seq(V), Len(view_) = Len(given_),
         NEW i \in {1, 2, 4, 5, 6}, i < Len(given_)
  PROVE  /\ ApplyAll(given_, IfMoved(i, given_, view_)) = Start(Taken(given_, view_, {i}))
         /\ IfMoved(i, given_, view_) \in Seq(NativeWrites(V))
<1>1. i \in Nat /\ i + 1 \in DOMAIN given_ /\ view_[i + 1] \in V
  BY SeqShape
<1>2. ApplyAll(given_, IfMoved(i, given_, view_)) = Start(PutAt(given_, i + 1, view_[i + 1]))
  BY <1>1, SeqShape, IfMovedReplays
<1>3. PutAt(given_, i + 1, view_[i + 1]) = Taken(given_, view_, {i})
  <2>1. \A x \in DOMAIN given_ : x - 1 \in {i} <=> x = i + 1
    BY <1>1, SeqShape
  <2> DEFINE k == i + 1
  <2>2. k \in DOMAIN given_ /\ \A x \in DOMAIN given_ : x - 1 \in {i} <=> x = k
    BY <1>1, <2>1
  <2>3. given_ = [x \in DOMAIN given_ |-> given_[x]]
    BY SeqShape
  <2> HIDE DEF k
  <2>4. PutAt(given_, k, view_[k]) = Taken(given_, view_, {i})
    BY <2>2, <2>3 DEF PutAt, Taken
  <2> QED
    BY <2>4 DEF k
<1> QED
  BY <1>1, <1>2, <1>3, IfMovedWrites

\* Recording another takes it over too, and none besides.
LEMMA MoreTaken ==
  ASSUME NEW V, NEW given_ \in Seq(V), NEW view_ \in Seq(V), Len(view_) = Len(given_),
         NEW i \in {1, 2, 4, 5, 6}, i < Len(given_), NEW set, i \notin set
  PROVE  ApplyAll(Taken(given_, view_, set), IfMoved(i, given_, view_))
           = Start(Taken(given_, view_, set \cup {i}))
<1> DEFINE fields == Taken(given_, view_, set)
<1>1. i \in Nat /\ i + 1 \in DOMAIN given_ /\ (i + 1) - 1 = i
  BY SeqShape
<1>2. /\ Len(fields) \in Nat /\ DOMAIN fields = 1..Len(fields) /\ i + 1 \in DOMAIN fields
      /\ fields = [x \in DOMAIN fields |-> fields[x]]
  <2>1. fields \in Seq(V)
    BY SeqShape DEF Taken
  <2>2. DOMAIN fields = DOMAIN given_
    BY DEF Taken
  <2> HIDE DEF fields
  <2> QED
    BY <1>1, <2>1, <2>2, SeqShape
<1>3. fields[i + 1] = given_[i + 1]
  BY <1>1 DEF Taken
<1>4. PutAt(fields, i + 1, view_[i + 1]) = Taken(given_, view_, set \cup {i})
  <2>1. \A x \in DOMAIN given_ : x - 1 = i <=> x = i + 1
    <3>1. DOMAIN given_ \subseteq Nat
      BY SeqShape
    <3> QED
      BY <1>1, <3>1
  <2> DEFINE k == i + 1
  <2>2. k \in DOMAIN given_ /\ \A x \in DOMAIN given_ : x - 1 = i <=> x = k
    BY <1>1, <2>1
  <2> HIDE DEF k
  <2>3. PutAt(fields, k, view_[k]) = Taken(given_, view_, set \cup {i})
    BY <2>2 DEF PutAt, Taken
  <2> QED
    BY <2>3 DEF k
<1> HIDE DEF fields
<1>5. ApplyAll(fields, IfMoved(i, given_, view_)) = Start(PutAt(fields, i + 1, view_[i + 1]))
  <2>1. /\ i \in Nat /\ i + 1 \in DOMAIN fields
        /\ Len(fields) \in Nat /\ DOMAIN fields = 1..Len(fields)
    BY <1>1, <1>2
  <2>2. fields = [x \in DOMAIN fields |-> fields[x]]
    BY <1>2
  <2> QED
    BY <2>1, <2>2, <1>3, IfMovedReplays
<1> QED
  BY <1>4, <1>5 DEF fields

\* What nativeMutations compares are the fields documented as Mutable: its mutations give
\* those as the struct has them, and every other as it arrived (events.gen.go:1061).
THEOREM NativeReplays ==
  ASSUME NEW V, NEW given_ \in Seq(V), NEW view_ \in Seq(V), Len(view_) = Len(given_),
         NEW type \in DOMAIN NativeEvents, Len(given_) = Len(NativeEvents[type].layout)
  PROVE  /\ ApplyAll(given_, NativeMutations(type, given_, view_))
              = Start(Taken(given_, view_, NativeEvents[type].mutable))
         /\ NativeMutations(type, given_, view_) \in Seq(NativeWrites(V))
<1>1. CASE type \in {"player.chat", "player.command", "player.damage"}
  <2>1. NativeMutations(type, given_, view_) = IfMoved(1, given_, view_)
    BY <1>1 DEF NativeMutations
  <2>2. NativeEvents[type].mutable = {1} /\ 1 < Len(given_)
    BY <1>1, MutablesAre, SeqShape
  <2> QED
    BY <2>1, <2>2, OneTaken
<1>2. CASE type = "player.teleport"
  <2> DEFINE four == IfMoved(4, given_, view_)
             five == IfMoved(5, given_, view_)
             six == IfMoved(6, given_, view_)
  <2>1. NativeMutations(type, given_, view_) = four \o five \o six
    BY <1>2 DEF NativeMutations
  <2>2. /\ NativeEvents[type].mutable = {4, 5, 6}
        /\ 4 < Len(given_) /\ 5 < Len(given_) /\ 6 < Len(given_)
    BY <1>2, MutablesAre, SeqShape
  <2>3. /\ four \in Seq(NativeWrites(V)) /\ five \in Seq(NativeWrites(V))
        /\ six \in Seq(NativeWrites(V)) /\ four \o five \in Seq(NativeWrites(V))
        /\ four \o five \o six \in Seq(NativeWrites(V))
    <3>1. /\ four \in Seq(NativeWrites(V)) /\ five \in Seq(NativeWrites(V))
          /\ six \in Seq(NativeWrites(V))
      BY <2>2, OneTaken
    <3> HIDE DEF four, five, six
    <3> QED
      BY <3>1, ConcatProperties
  <2>4. ApplyAll(given_, four) = Start(Taken(given_, view_, {4}))
    BY <2>2, OneTaken
  <2>5. ApplyAll(Taken(given_, view_, {4}), five) = Start(Taken(given_, view_, {4} \cup {5}))
    <3> DEFINE set == {4}
    <3>1. 5 \in {1, 2, 4, 5, 6} /\ 5 \notin set
      OBVIOUS
    <3> HIDE DEF set
    <3>2. ApplyAll(Taken(given_, view_, set), IfMoved(5, given_, view_))
            = Start(Taken(given_, view_, set \cup {5}))
      BY <3>1, <2>2, MoreTaken
    <3> QED
      BY <3>2 DEF set
  <2>6. ApplyAll(Taken(given_, view_, {4} \cup {5}), six)
          = Start(Taken(given_, view_, ({4} \cup {5}) \cup {6}))
    <3> DEFINE set == {4} \cup {5}
    <3>1. 6 \in {1, 2, 4, 5, 6} /\ 6 \notin set
      OBVIOUS
    <3> HIDE DEF set
    <3>2. ApplyAll(Taken(given_, view_, set), IfMoved(6, given_, view_))
            = Start(Taken(given_, view_, set \cup {6}))
      BY <3>1, <2>2, MoreTaken
    <3> QED
      BY <3>2 DEF set
  <2> HIDE DEF four, five, six
  <2>7. ApplyAll(given_, four \o five) = Start(Taken(given_, view_, {4} \cup {5}))
    <3> DEFINE middle == Taken(given_, view_, {4})
               end == Taken(given_, view_, {4} \cup {5})
    <3>1. /\ four \in Seq(NativeWrites(V)) /\ five \in Seq(NativeWrites(V))
          /\ ApplyAll(given_, four) = Start(middle) /\ ApplyAll(middle, five) = Start(end)
      BY <2>3, <2>4, <2>5
    <3> HIDE DEF middle, end
    <3>2. ApplyAll(given_, four \o five) = Start(end)
      BY <3>1, ApplyConcat
    <3> QED
      BY <3>2 DEF end
  <2>8. ApplyAll(given_, (four \o five) \o six)
          = Start(Taken(given_, view_, ({4} \cup {5}) \cup {6}))
    <3> DEFINE first == four \o five
               middle == Taken(given_, view_, {4} \cup {5})
               end == Taken(given_, view_, ({4} \cup {5}) \cup {6})
    <3>1. /\ first \in Seq(NativeWrites(V)) /\ six \in Seq(NativeWrites(V))
          /\ ApplyAll(given_, first) = Start(middle) /\ ApplyAll(middle, six) = Start(end)
      BY <2>3, <2>6, <2>7
    <3> HIDE DEF first, middle, end
    <3>2. ApplyAll(given_, first \o six) = Start(end)
      BY <3>1, ApplyConcat
    <3> QED
      BY <3>2 DEF first, end
  <2>9. ({4} \cup {5}) \cup {6} = {4, 5, 6}
    OBVIOUS
  <2> QED
    BY <2>1, <2>2, <2>3, <2>8, <2>9
<1>3. CASE type = "entity.damage"
  <2>1. NativeMutations(type, given_, view_) = IfMoved(2, given_, view_)
    BY <1>3 DEF NativeMutations
  <2>2. NativeEvents[type].mutable = {2} /\ 2 < Len(given_)
    BY <1>3, MutablesAre, SeqShape
  <2> QED
    BY <2>1, <2>2, OneTaken
<1>4. CASE type \notin {"player.chat", "player.command", "player.damage", "player.teleport",
                        "entity.damage"}
  <2>1. NativeMutations(type, given_, view_) = <<>>
    BY <1>4 DEF NativeMutations
  <2>2. NativeEvents[type].mutable = {}
    BY <1>4, MutablesAre
  <2>3. Taken(given_, view_, {}) = given_
    BY SeqShape DEF Taken
  <2> QED
    BY <2>1, <2>2, <2>3, ApplyNothing
<1> QED
  BY <1>1, <1>2, <1>3, <1>4

-----------------------------------------------------------------------------
(* What the fields and the mutations of an event are *)

\* The shapes native layouts name.
NativeShapes == {"player", "position", "block", "permissions", "string", "int64", "double"}

\* What a field of a native event may hold.
Holdable ==
  (UNION {Contents(shape) : shape \in NativeShapes})
    \cup {List(<<>>), List(<<Invalid>>), Double("Inf")}

\* What the fields of an event may be, and what may be written to them.
FieldsOf(type) == IF IsNative(type) THEN Seq(Holdable) ELSE OwnFields

MutationsOf(type) == IF IsNative(type) THEN NativeWrites(Holdable) ELSE OwnMutations

\* The contents, shape by shape.
LEMMA ContentsAre ==
  /\ Contents("player") = {List(<<Bytes("uuid"), String(n), String("1")>>) : n \in {"1", "2"}}
  /\ Contents("position") = {List(<<Int64("1"), Int64("1"), Int64(z)>>) : z \in {"1", "2"}}
  /\ Contents("block") = {List(<<String(n), List(<<>>)>>) : n \in {"1", "2"}}
  /\ Contents("permissions") = {List(<<List(<<String("1"), Bool("1")>>)>>)}
  /\ Contents("string") = {String("1"), String("2")}
  /\ Contents("int64") = {Int64("1"), Int64("2")}
  /\ Contents("double") = {Double("1"), Double("2"), Double("NaN")}
  /\ Contents("price") = {Double("1"), Double("2")}
  /\ Contents("prices") = {List(<<Double("1"), Double("1")>>), List(<<Double("1"), Double("2")>>),
                           List(<<Double("2")>>)}
BY DEF Contents

\* A native field is a value of some kind.
LEMMA HoldableHasAKind == \A v \in Holdable : v.kind \in Kinds
<1>1. ASSUME NEW shape \in NativeShapes, NEW v \in Contents(shape) PROVE v.kind \in Kinds
  <2>1. CASE shape \in {"player", "position", "block", "permissions"}
    <3>1. \E items : v = List(items)
      BY <2>1, ContentsAre
    <3> QED
      BY <3>1 DEF List, Kinds
  <2>2. CASE shape \in {"string", "int64", "double"}
    BY <2>2, ContentsAre DEF String, Int64, Double, Scalar, Kinds
  <2> QED
    BY <2>1, <2>2 DEF NativeShapes
<1>2. \A v \in {List(<<>>), List(<<Invalid>>), Double("Inf")} : v.kind \in Kinds
  BY DEF List, Double, Scalar, Kinds
<1>3. ASSUME NEW v \in Holdable
      PROVE  v \in {List(<<>>), List(<<Invalid>>), Double("Inf")}
               \/ \E shape \in NativeShapes : v \in Contents(shape)
  <2> DEFINE natives == UNION {Contents(shape) : shape \in NativeShapes}
             others == {List(<<>>), List(<<Invalid>>), Double("Inf")}
  <2>1. v \in natives \/ v \in others
    BY DEF Holdable
  <2>2. v \in natives => \E shape \in NativeShapes : v \in Contents(shape)
    OBVIOUS
  <2> HIDE DEF natives
  <2> QED
    BY <2>1, <2>2
<1> QED
  BY <1>1, <1>2, <1>3

\* So is a field of a purchase.
LEMMA OwnHasAKind == \A v \in Own : v.kind \in Kinds
BY DEF Own, Texts, Prices, PriceLists, Invalid, List, Kinds

\* What handlers write to a purchase is a value of its own.
LEMMA SomeOwn ==
  /\ Contents("string") \subseteq Own
  /\ Contents("prices") \subseteq Own
  /\ Contents("price") \subseteq Own
  /\ Contents("price") \subseteq Prices
  /\ {Double("2"), List(<<Double("2")>>), Invalid} \subseteq Own
<1>1. \A a \in {"1", "2"} : Double(a) \in Prices /\ String(a) \in Texts
  BY DEF Prices, Texts, Double, String, Scalar
<1>2. /\ Contents("string") \subseteq Own /\ Contents("price") \subseteq Prices
      /\ Contents("price") \subseteq Own /\ Double("2") \in Own /\ Invalid \in Own
  <2>1. /\ Double("1") \in Prices /\ Double("2") \in Prices
        /\ String("1") \in Texts /\ String("2") \in Texts
    BY <1>1
  <2> QED
    BY <2>1, ContentsAre DEF Own
<1>3. ASSUME NEW a \in Prices, NEW b \in Prices
      PROVE  List(<<a, b>>) \in Own /\ List(<<a>>) \in Own
  <2>1. <<a, b>> \in Seq(Prices) /\ Len(<<a, b>>) = 2 /\ <<a>> \in Seq(Prices) /\ Len(<<a>>) = 1
    OBVIOUS
  <2>2. 2 <= Uint32 /\ 1 <= Uint32
    BY Wide
  <2>3. List(<<a, b>>) \in PriceLists /\ List(<<a>>) \in PriceLists
    BY <2>1, <2>2 DEF PriceLists
  <2> QED
    BY <2>3 DEF Own
<1>4. Contents("prices") \subseteq Own /\ List(<<Double("2")>>) \in Own
  <2>1. Double("1") \in Prices /\ Double("2") \in Prices
    BY <1>1
  <2>2. /\ List(<<Double("1"), Double("1")>>) \in Own /\ List(<<Double("1"), Double("2")>>) \in Own
        /\ List(<<Double("2")>>) \in Own
    BY <2>1, <1>3
  <2> DEFINE a == List(<<Double("1"), Double("1")>>)
             b == List(<<Double("1"), Double("2")>>)
             c == List(<<Double("2")>>)
  <2>3. Contents("prices") = {a, b, c}
    BY ContentsAre
  <2> HIDE DEF a, b, c
  <2> QED
    BY <2>2, <2>3 DEF a, b, c
<1> QED
  BY <1>2, <1>4

\* Every shape has a content that its decoder reads: what First chooses exists.
LEMMA FirstIs ==
  \A shape \in NativeShapes \cup {"price", "prices"} : First(shape) \in Contents(shape)
<1> DEFINE Good(shape, v) ==
             IF shape \in {"price", "prices"} THEN v # List(<<Double("2")>>) ELSE Reads(shape, v)
<1>1. ASSUME NEW shape, \E v \in Contents(shape) : Good(shape, v)
      PROVE  First(shape) \in Contents(shape)
  BY <1>1 DEF First
<1>2. \E v \in Contents("player") : Good("player", v)
  <2> DEFINE items == <<Bytes("uuid"), String("1"), String("1")>>
  <2>1. /\ items[1].kind = "bytes" /\ items[1].atom = "uuid" /\ items[2].kind = "string"
        /\ items[3].kind = "string" /\ Len(items) = 3
    BY DEF Bytes, String, Scalar
  <2>2. List(items) \in Contents("player")
    BY ContentsAre
  <2> HIDE DEF items
  <2>3. IsPlayer(List(items))
    BY <2>1 DEF IsPlayer, IsList, IsString, List
  <2> QED
    BY <2>2, <2>3 DEF Reads
<1>3. \E v \in Contents("position") : Good("position", v)
  <2> DEFINE items == <<Int64("1"), Int64("1"), Int64("1")>>
  <2>1. Len(items) = 3 /\ \A i \in 1..3 : items[i].kind = "int64"
    BY DEF Int64, Scalar
  <2>2. List(items) \in Contents("position")
    BY ContentsAre
  <2> HIDE DEF items
  <2>3. IsPosition(List(items))
    BY <2>1 DEF IsPosition, IsList, List
  <2> QED
    BY <2>2, <2>3 DEF Reads
<1>4. \E v \in Contents("block") : Good("block", v)
  <2> DEFINE items == <<String("1"), List(<<>>)>>
  <2>1. Len(items) = 2 /\ items[1].kind = "string" /\ items[2] = List(<<>>)
    BY DEF String, Scalar
  <2>2. List(items) \in Contents("block")
    BY ContentsAre
  <2> HIDE DEF items
  <2>3. IsProperties(List(<<>>))
    BY DEF IsProperties, List, ToSet
  <2>4. IsBlock(List(items))
    BY <2>1, <2>3 DEF IsBlock, IsList, IsString, List
  <2> QED
    BY <2>2, <2>4 DEF Reads
<1>5. \E v \in Contents("permissions") : Good("permissions", v)
  <2> DEFINE pair == <<String("1"), Bool("1")>>
             items == <<List(pair)>>
  <2>1. Len(pair) = 2 /\ pair[1].kind = "string" /\ pair[2].kind = "bool"
    BY DEF String, Bool, Scalar
  <2>2. List(items) \in Contents("permissions")
    BY ContentsAre
  <2>3. \A p \in ToSet(items) : p = List(pair)
    BY DEF ToSet
  <2> HIDE DEF items, pair
  <2>4. ArePermissions(List(items))
    BY <2>1, <2>3 DEF ArePermissions, IsList, IsString, List
  <2> QED
    BY <2>2, <2>4 DEF Reads
<1>6. \E v \in Contents("string") : Good("string", v)
  BY ContentsAre DEF Reads, IsString, String, Scalar
<1>7. \E v \in Contents("int64") : Good("int64", v)
  BY ContentsAre DEF Reads, Int64, Scalar
<1>8. \E v \in Contents("double") : Good("double", v)
  BY ContentsAre DEF Reads, IsFinite, Double, Scalar
<1>9. \E v \in Contents("price") : Good("price", v)
  <2>1. Double("1").kind # List(<<Double("2")>>).kind
    BY DEF Double, Scalar, List
  <2>2. Double("1") # List(<<Double("2")>>)
    BY <2>1
  <2> QED
    BY <2>2, ContentsAre
<1>10. \E v \in Contents("prices") : Good("prices", v)
  <2>1. List(<<Double("1"), Double("1")>>) # List(<<Double("2")>>)
    <3>1. Len(<<Double("1"), Double("1")>>) # Len(<<Double("2")>>)
      OBVIOUS
    <3> QED
      BY <3>1 DEF List
  <2> QED
    BY <2>1, ContentsAre
<1> HIDE DEF Good
<1> QED
  BY <1>1, <1>2, <1>3, <1>4, <1>5, <1>6, <1>7, <1>8, <1>9, <1>10 DEF NativeShapes

\* A native layout is made of the native shapes.
LEMMA LayoutsAre ==
  \A type \in DOMAIN NativeEvents : NativeEvents[type].layout \in Seq(NativeShapes)
<1>1. /\ BlockBreak.layout \in Seq(NativeShapes) /\ PlayerJoin.layout \in Seq(NativeShapes)
      /\ BlockPlace.layout \in Seq(NativeShapes) /\ PlayerQuit.layout \in Seq(NativeShapes)
      /\ PlayerChat.layout \in Seq(NativeShapes) /\ PlayerCommand.layout \in Seq(NativeShapes)
      /\ PlayerDamage.layout \in Seq(NativeShapes)
  BY DEF Native, BlockBreak, PlayerJoin, BlockPlace, PlayerQuit, PlayerChat, PlayerCommand,
         PlayerDamage, NativeShapes
<1>2. /\ PlayerDeath.layout \in Seq(NativeShapes) /\ PlayerRespawn.layout \in Seq(NativeShapes)
      /\ PlayerTeleport.layout \in Seq(NativeShapes) /\ PlayerInteract.layout \in Seq(NativeShapes)
      /\ InventoryClick.layout \in Seq(NativeShapes) /\ ItemUse.layout \in Seq(NativeShapes)
      /\ EntityDamage.layout \in Seq(NativeShapes)
  BY DEF Native, PlayerDeath, PlayerRespawn, PlayerTeleport, PlayerInteract, InventoryClick,
         ItemUse, EntityDamage, NativeShapes
<1> QED
  BY <1>1, <1>2, NativeTable, Natives

\* What the host first has of an event are fields of that event.
LEMMA OriginalsAreFields ==
  ASSUME NEW type \in Types
  PROVE  Originals(type) \subseteq FieldsOf(type)
<1> DEFINE layout == Layout(type)
           sample == [i \in DOMAIN layout |-> First(layout[i])]
<1>1. CASE IsNative(type)
  <2>1. layout \in Seq(NativeShapes)
    BY <1>1, LayoutsAre DEF Layout, IsNative
  <2>2. /\ Len(layout) \in Nat /\ DOMAIN layout = 1..Len(layout)
        /\ \A i \in DOMAIN layout : layout[i] \in NativeShapes
    BY <2>1, SeqShape
  <2> HIDE DEF layout
  <2>3. \A i \in DOMAIN layout : First(layout[i]) \in Holdable
    <3>1. \A shape \in NativeShapes : Contents(shape) \subseteq Holdable
      BY DEF Holdable
    <3> QED
      BY <2>2, <3>1, FirstIs
  <2>4. sample \in Seq(Holdable) /\ DOMAIN sample = DOMAIN layout
    <3>1. \E n \in Nat : sample \in [1..n -> Holdable]
      BY <2>2, <2>3
    <3> QED
      BY <3>1, SeqDef
  <2> HIDE DEF sample
  <2>5. ASSUME NEW i \in DOMAIN sample, NEW v \in Holdable PROVE [sample EXCEPT ![i] = v] \in Seq(Holdable)
    <3>1. i \in 1..Len(sample)
      BY <2>4, SeqShape
    <3> QED
      BY <2>4, <2>5, <3>1, ExceptSeq
  <2>6. Append(sample, String("1")) \in Seq(Holdable)
    <3>1. String("1") \in Holdable
      <4>1. String("1") \in Contents("string") /\ "string" \in NativeShapes
        BY ContentsAre DEF NativeShapes
      <4> QED
        BY <4>1 DEF Holdable
    <3> QED
      BY <2>4, <3>1, AppendProperties
  <2>7. {List(<<>>), List(<<Invalid>>), Double("Inf")} \subseteq Holdable
    BY DEF Holdable
  <2>8. ASSUME NEW fields \in Originals(type) PROVE fields \in Seq(Holdable)
    <3> DEFINE spoilt == {[sample EXCEPT ![i] = v] :
                   i \in DOMAIN sample, v \in {List(<<>>), List(<<Invalid>>), Double("Inf")}}
    <3>1. Originals(type) = {sample} \cup ({Append(sample, String("1"))} \cup spoilt)
      BY <1>1 DEF Originals, sample, layout
    <3>2. spoilt \subseteq Seq(Holdable)
      BY <2>5, <2>7
    <3> HIDE DEF spoilt
    <3> QED
      BY <2>4, <2>6, <2>8, <3>1, <3>2
  <2> QED
    BY <1>1, <2>8 DEF FieldsOf
<1>2. CASE ~IsNative(type)
  <2>1. layout = PurchaseLayout
    BY <1>2 DEF Layout
  <2>2. DOMAIN PurchaseLayout = 1..3 /\ PurchaseLayout[1] = "string"
        /\ PurchaseLayout[2] = "prices" /\ PurchaseLayout[3] = "price"
    BY DEF PurchaseLayout
  <2>3. /\ First("string") \in Own /\ First("prices") \in Own /\ First("price") \in Own
    BY FirstIs, SomeOwn DEF NativeShapes
  <2> HIDE DEF layout
  <2>4. sample \in [1..3 -> Own]
    BY <2>1, <2>2, <2>3
  <2>5. Originals(type) = {sample}
    BY <1>2 DEF Originals, layout
  <2> QED
    BY <1>2, <2>4, <2>5, OwnFieldsAre DEF FieldsOf
<1> QED
  BY <1>1, <1>2

\* Fields are of known kinds.
LEMMA FieldsHaveKinds ==
  ASSUME NEW type, NEW fields \in FieldsOf(type)
  PROVE  AreFields(fields)
<1>1. CASE IsNative(type)
  <2>1. \A i \in DOMAIN fields : fields[i] \in Holdable
    BY <1>1, SeqShape DEF FieldsOf
  <2> QED
    BY <2>1, HoldableHasAKind DEF AreFields
<1>2. CASE ~IsNative(type)
  <2>1. \A i \in DOMAIN fields : fields[i] \in Own
    BY <1>2, OwnFieldsAre DEF FieldsOf
  <2> QED
    BY <2>1, OwnHasAKind DEF AreFields
<1> QED
  BY <1>1, <1>2

\* Mutations carry values of known kinds on paths of unsigned 32-bit numbers.
LEMMA MutationsHaveKinds ==
  ASSUME NEW type, NEW ms \in Seq(MutationsOf(type))
  PROVE  AreMutations(ms)
<1>1. ASSUME NEW m \in MutationsOf(type)
      PROVE  m.value.kind \in Kinds /\ \A d \in DOMAIN m.path : m.path[d] \in 0..(Uint32 - 1)
  <2>1. CASE m \in NativeWrites(Holdable)
    <3>1. PICK i \in {1, 2, 4, 5, 6} : m.path = <<i>>
      BY <2>1 DEF NativeWrites
    <3>2. i \in 0..(Uint32 - 1)
      BY Wide
    <3>3. m.value \in Holdable
      BY <2>1 DEF NativeWrites
    <3> QED
      BY <3>1, <3>2, <3>3, HoldableHasAKind
  <2>2. CASE m \in Whole
    <3>1. PICK i \in 0..2 : m.path = <<i>>
      BY <2>2 DEF Whole
    <3>2. i \in 0..(Uint32 - 1)
      BY Wide
    <3>3. m.value \in Own
      BY <2>2 DEF Whole
    <3> QED
      BY <3>1, <3>2, <3>3, OwnHasAKind
  <2>3. CASE m \in Element
    <3>1. PICK i \in 0..2, j \in 0..(Uint32 - 1) : m.path = <<i, j>>
      BY <2>3 DEF Element
    <3>2. i \in 0..(Uint32 - 1)
      BY Wide
    <3>3. m.value \in Own
      BY <2>3 DEF Element, Own
    <3> QED
      BY <3>1, <3>2, <3>3, OwnHasAKind
  <2> QED
    BY <2>1, <2>2, <2>3 DEF MutationsOf, OwnMutations
<1>2. \A k \in DOMAIN ms : ms[k] \in MutationsOf(type)
  BY SeqShape
<1> QED
  BY <1>1, <1>2 DEF AreMutations

\* A mutation that goes through leaves fields of the event.
LEMMA FieldsApply ==
  ASSUME NEW type, NEW fields \in FieldsOf(type), NEW m \in MutationsOf(type),
         HasPath(fields, m.path)
  PROVE  ApplyPath(fields, m) \in FieldsOf(type)
<1>1. CASE IsNative(type)
  <2>1. fields \in Seq(Holdable) /\ m \in NativeWrites(Holdable)
    BY <1>1 DEF FieldsOf, MutationsOf
  <2>2. PICK i \in {1, 2, 4, 5, 6} : m.path = <<i>>
    BY <2>1 DEF NativeWrites
  <2>3. m.value \in Holdable
    BY <2>1 DEF NativeWrites
  <2>4. Len(fields) \in Nat /\ DOMAIN fields = 1..Len(fields)
    BY <2>1, SeqShape
  <2>5. i + 1 \in 1..Len(fields) /\ m.path = <<(i + 1) - 1>>
    <3>1. m.path[1] = i
      BY <2>2
    <3> QED
      BY <2>2, <2>4, <3>1 DEF HasPath
  <2>6. ApplyPath(fields, m) = PutAt(fields, i + 1, m.value)
    BY <2>4, <2>5, ApplyAt
  <2>7. PutAt(fields, i + 1, m.value) \in Seq(Holdable)
    BY <2>1, <2>3, <2>5, ExceptSeq DEF PutAt
  <2> QED
    BY <1>1, <2>6, <2>7 DEF FieldsOf
<1>2. CASE ~IsNative(type)
  BY <1>2, OwnApplies DEF FieldsOf, MutationsOf
<1> QED
  BY <1>1, <1>2

-----------------------------------------------------------------------------
(* The host applies a verdict *)

\* One step of the host.
HostAfter(before, m) ==
  IF Permitted(m) /\ HasPath(before.fields, m.path)
  THEN [fields |-> ApplyPath(before.fields, m), applied |-> Append(before.applied, m)]
  ELSE before

\* What the host has before it applies a verdict.
HostHas == [fields |-> host, applied |-> accepted]

\* What it has after each mutation, and before the first.
HostRuns(done, ms) ==
  done = [k \in 0..Len(ms) |-> IF k = 0 THEN HostHas ELSE HostAfter(done[k - 1], ms[k])]

\* There is a function that follows the host through a list of mutations.
LEMMA HostRunExists ==
  ASSUME NEW ms, Len(ms) \in Nat
  PROVE  \E done : HostRuns(done, ms)
<1> DEFINE To(n, done) ==
             done = [k \in 0..n |-> IF k = 0 THEN HostHas ELSE HostAfter(done[k - 1], ms[k])]
                  S == {n \in Nat : \E done : To(n, done)}
<1>1. 0 \in S
  <2> DEFINE done == [k \in 0..0 |-> HostHas]
  <2>1. To(0, done)
    OBVIOUS
  <2> QED
    BY <2>1
<1>2. ASSUME NEW n \in Nat, n \in S PROVE n + 1 \in S
  <2>1. PICK done : To(n, done)
    BY <1>2
  <2> DEFINE base == HostHas
             more == [k \in 0..(n + 1) |->
                        IF k = n + 1 THEN HostAfter(done[n], ms[n + 1]) ELSE done[k]]
             next == [k \in 0..(n + 1) |-> IF k = 0 THEN base ELSE HostAfter(more[k - 1], ms[k])]
  <2>2. \A k \in 0..n : done[k] = IF k = 0 THEN base ELSE HostAfter(done[k - 1], ms[k])
    BY <2>1
  <2>3. ASSUME NEW k \in 0..(n + 1) PROVE more[k] = next[k]
    <3>1. CASE k = 0
      <4>1. k # n + 1 /\ 0 \in 0..n
        BY <3>1
      <4>2. done[0] = base
        BY <4>1, <2>2
      <4>3. more[k] = done[k] /\ next[k] = base
        BY <3>1, <4>1
      <4> QED
        BY <3>1, <4>2, <4>3
    <3>2. CASE k = n + 1
      <4>1. more[n] = done[n]
        OBVIOUS
      <4> QED
        BY <3>2, <4>1
    <3>3. CASE k # 0 /\ k # n + 1
      <4>1. more[k - 1] = done[k - 1] /\ k \in 0..n
        BY <3>3
      <4>2. more[k] = done[k]
        BY <3>3
      <4> QED
        BY <3>3, <4>1, <4>2, <2>2
    <3> QED
      BY <3>1, <3>2, <3>3
  <2>4. more = next
    BY <2>3
  <2>5. To(n + 1, more)
    BY <2>4
  <2>6. \E d : To(n + 1, d)
    <3> HIDE DEF To, more
    <3> QED
      BY <2>5
  <2> HIDE DEF To
  <2> QED
    BY <2>6
<1>3. Nat \subseteq S
  <2> HIDE DEF S
  <2> QED
    BY <1>1, <1>2, CountingUp
<1> QED
  BY <1>3 DEF HostRuns

\* So HostApplying is one: what it has before the first, and after each.
LEMMA HostSteps ==
  ASSUME NEW ms, Len(ms) \in Nat
  PROVE  /\ HostApplying(ms)[0] = HostHas
         /\ \A k \in 1..Len(ms) :
              HostApplying(ms)[k] = HostAfter(HostApplying(ms)[k - 1], ms[k])
<1> DEFINE done == HostApplying(ms)
<1>1. done = CHOOSE d : HostRuns(d, ms)
  BY DEF HostApplying, HostRuns, HostAfter, HostHas
<1>2. done = [k \in 0..Len(ms) |-> IF k = 0 THEN HostHas ELSE HostAfter(done[k - 1], ms[k])]
  BY <1>1, HostRunExists DEF HostRuns
<1> HIDE DEF done
<1>3. done[0] = HostHas
  <2>1. 0 \in 0..Len(ms)
    OBVIOUS
  <2> QED
    BY <1>2, <2>1
<1>4. ASSUME NEW k \in 1..Len(ms) PROVE done[k] = HostAfter(done[k - 1], ms[k])
  <2>1. k \in 0..Len(ms) /\ k # 0
    OBVIOUS
  <2> QED
    BY <1>2, <2>1
<1> QED
  BY <1>3, <1>4 DEF done

\* What was applied leads from the fields the event started with to those it has.
Leads(type, from, end) ==
  /\ end.fields \in FieldsOf(type)
  /\ end.applied \in Seq(MutationsOf(type))
  /\ ApplyAll(from, end.applied) = Start(end.fields)

\* Whether it permits the mutation or drops it, it has what it has applied.
LEMMA HostStepLeads ==
  ASSUME NEW type, NEW from, NEW before, NEW m \in MutationsOf(type), Leads(type, from, before)
  PROVE  Leads(type, from, HostAfter(before, m))
<1>1. CASE Permitted(m) /\ HasPath(before.fields, m.path)
  <2> DEFINE F == ApplyPath(before.fields, m)
             A == Append(before.applied, m)
             M == MutationsOf(type)
  <2>1. F \in FieldsOf(type)
    BY <1>1, FieldsApply DEF Leads
  <2>2. /\ m \in M /\ before.applied \in Seq(M)
        /\ ApplyAll(from, before.applied) = Start(before.fields)
    BY DEF Leads
  <2>3. HasPath(before.fields, m.path)
    BY <1>1
  <2> HIDE DEF M
  <2>4. A \in Seq(M)
    BY <2>2, AppendProperties
  <2>5. ApplyAll(from, A) = Start(F)
    BY <2>2, <2>3, ApplyAppend
  <2>6. HostAfter(before, m).fields = F /\ HostAfter(before, m).applied = A
    BY <1>1 DEF HostAfter
  <2> HIDE DEF F, A
  <2> QED
    BY <2>1, <2>4, <2>5, <2>6 DEF Leads, M
<1>2. CASE ~(Permitted(m) /\ HasPath(before.fields, m.path))
  BY <1>2 DEF HostAfter
<1> QED
  BY <1>1, <1>2

\* So it does after a whole verdict.
LEMMA HostLeads ==
  ASSUME NEW type, NEW from, NEW ms \in Seq(MutationsOf(type)), Leads(type, from, HostHas)
  PROVE  Leads(type, from, HostApplying(ms)[Len(ms)])
<1> DEFINE done == HostApplying(ms)
           S == {k \in 0..Len(ms) : Leads(type, from, done[k])}
<1>1. Len(ms) \in Nat /\ \A k \in 1..Len(ms) : ms[k] \in MutationsOf(type)
  BY SeqShape
<1>2. done[0] = HostHas /\ \A k \in 1..Len(ms) : done[k] = HostAfter(done[k - 1], ms[k])
  BY <1>1, HostSteps
<1> HIDE DEF done
<1>3. 0 \in S
  BY <1>1, <1>2
<1>4. ASSUME NEW n \in 0..Len(ms), n < Len(ms), n \in S PROVE n + 1 \in S
  <2>1. n + 1 \in 1..Len(ms) /\ n + 1 \in 0..Len(ms) /\ (n + 1) - 1 = n
    BY <1>1, <1>4
  <2>2. Leads(type, from, done[n])
    BY <1>4
  <2>3. Leads(type, from, HostAfter(done[n], ms[n + 1]))
    BY <1>1, <2>1, <2>2, HostStepLeads
  <2>4. done[n + 1] = HostAfter(done[n], ms[n + 1])
    BY <1>2, <2>1
  <2> QED
    BY <2>1, <2>3, <2>4
<1> HIDE DEF S
<1>5. 0..Len(ms) \subseteq S
  BY <1>1, <1>3, <1>4, CountingTo
<1> QED
  BY <1>1, <1>5 DEF S, done

\* A mutation no field of the author's object has a place for stops the replay.
LEMMA StrangerStops ==
  ASSUME NEW from \in OwnFields, NEW to \in OwnFields, NEW ms \in Seq(OwnMutations),
         ApplyAll(from, ms) = Start(to), NEW m, m.path = << 3 >>,
         NEW k \in {1, Len(ms) + 1}
  PROVE  ApplyAll(from, InsertAt(ms, k, m)).ok = FALSE
<1> DEFINE M == OwnMutations \cup {m}
           one == <<m>>
<1>1. ms \in Seq(M) /\ one \in Seq(M) /\ m \in M /\ Len(ms) \in Nat
  BY SeqMonotonic, LenProperties
<1>2. Len(from) = 3 /\ Len(to) = 3
  BY DEF OwnFields
<1>3. ~HasPath(from, m.path) /\ ~HasPath(to, m.path)
  <2>1. Len(m.path) = 1 /\ m.path[1] = 3
    OBVIOUS
  <2> QED
    BY <1>2, <2>1 DEF HasPath
<1>4. one[1] = m /\ Len(one) = 1
  OBVIOUS
<1> HIDE DEF one, M
<1>5. CASE k = 1
  <2>1. InsertAt(ms, k, m) = one \o ms
    <3>1. SubSeq(ms, 1, 0) = <<>>
      BY SubSeqEmpty
    <3>2. SubSeq(ms, 1, Len(ms)) = ms
      BY SubSeqFull
    <3>3. <<>> \o one = one
      BY <1>1, ConcatEmptySeq
    <3>4. InsertAt(ms, 1, m) = (SubSeq(ms, 1, 0) \o one) \o SubSeq(ms, 1, Len(ms))
      BY DEF InsertAt, one
    <3> QED
      BY <1>5, <3>1, <3>2, <3>3, <3>4
  <2>2. Len(one \o ms) \in Nat /\ 1 \in 1..Len(one \o ms) /\ (one \o ms)[1] = m
    BY <1>1, <1>4, ConcatProperties
  <2> DEFINE all == one \o ms
  <2>3. Len(all) \in Nat /\ 1 \in 1..Len(all) /\ all[1] = m
    BY <2>2
  <2> HIDE DEF all
  <2>4. ~HasPath(Applying(from, all)[1 - 1].fields, all[1].path)
    <3>1. Applying(from, all)[0] = Start(from)
      BY <2>3, RunSteps
    <3> QED
      BY <1>3, <2>3, <3>1 DEF Start
  <2>5. ApplyAll(from, all).ok = FALSE
    BY <2>3, <2>4, ApplyStops
  <2> QED
    BY <2>1, <2>5 DEF all
<1>6. CASE k = Len(ms) + 1
  <2>1. InsertAt(ms, k, m) = ms \o one
    <3>1. SubSeq(ms, 1, Len(ms)) = ms
      BY SubSeqFull
    <3>2. SubSeq(ms, Len(ms) + 1, Len(ms)) = <<>>
      <4>1. Len(ms) + 1 \in Int /\ Len(ms) \in Int /\ Len(ms) < Len(ms) + 1
        BY <1>1
      <4> QED
        BY <4>1, SubSeqEmpty
    <3>3. (ms \o one) \o <<>> = ms \o one
      BY <1>1, ConcatEmptySeq, ConcatProperties
    <3>4. InsertAt(ms, k, m) =
            (SubSeq(ms, 1, (Len(ms) + 1) - 1) \o one) \o SubSeq(ms, Len(ms) + 1, Len(ms))
      BY <1>6 DEF InsertAt, one
    <3>5. (Len(ms) + 1) - 1 = Len(ms)
      BY <1>1
    <3> QED
      BY <3>1, <3>2, <3>3, <3>4, <3>5
  <2>2. ApplyAll(from, ms \o one) = ApplyAll(to, one)
    BY <1>1, ApplyConcat
  <2>3. ApplyAll(to, one).ok = FALSE
    <3>1. Applying(to, one)[0] = Start(to)
      BY <1>4, RunSteps
    <3>2. ~HasPath(Applying(to, one)[1 - 1].fields, one[1].path)
      BY <1>3, <1>4, <3>1 DEF Start
    <3>3. 1 \in 1..Len(one) /\ Len(one) \in Nat
      BY <1>4
    <3> QED
      BY <3>2, <3>3, ApplyStops
  <2> QED
    BY <2>1, <2>2, <2>3
<1> QED
  BY <1>5, <1>6

-----------------------------------------------------------------------------
(* The inductive invariant *)

\* What an answer, and what Emit returns, is made of.
Verdicts(type) ==
  [mutations : Seq(MutationsOf(type)), cancelled : BOOLEAN, left : FieldsOf(type),
   said : BOOLEAN, ran : BOOLEAN]

Outcomes == [allowed : BOOLEAN, err : {"none", "replay", "fields"}]

\* The host's side, and the plugin's.
TypedAtHost ==
  /\ event.type \in Types /\ event.open \in Open(event.type)
  /\ host \in FieldsOf(event.type)
  /\ author \in FieldsOf(event.type)
  /\ accepted \in Seq(MutationsOf(event.type))
  /\ stopped \in BOOLEAN
  /\ outcome = None \/ outcome \in Outcomes
  /\ dispatches \in 0..MaxDispatches

TypedInHand ==
  /\ phase \in {"host", "handling", "answered", "sent", "done"}
  /\ IF phase \in {"host", "done"} THEN given = <<>> /\ view = <<>>
     ELSE given \in FieldsOf(event.type) /\ view \in FieldsOf(event.type)
  /\ mutations \in Seq(MutationsOf(event.type))
  /\ cancelled \in BOOLEAN
  /\ verdict = None \/ verdict \in Verdicts(event.type)
  /\ phase \in {"answered", "sent"} => verdict \in Verdicts(event.type)
  /\ writes \in 0..MaxWrites

\* What handlers work on has decoded, and has as many fields as arrived.
ViewIsRead == InHand => EventFrom(event.type, given) /\ Len(view) = Len(given)

\* What is recorded leads from what was sent to what the view has.
WritesAreRecorded ==
  phase = "handling" /\ IsCustom => ApplyAll(given, mutations) = Start(view)

\* Until Emit returns, what the host has applied leads from the author's object to what
\* the host has.
AuthorIsBehind ==
  phase # "done" => /\ outcome = None
                    /\ author \in Originals(event.type)
                    /\ ApplyAll(author, accepted) = Start(host)

IInv ==
  /\ TypedAtHost
  /\ TypedInHand
  /\ ViewIsRead
  /\ WritesAreRecorded
  /\ AuthorIsBehind
  /\ VerdictCarriesTheWrites
  /\ CancelledByThoseWhoMay
  /\ AuthorSeesWhatTheHostHas

\* SetAt, and Set: the list of mutations stays one that leads to the view.
LEMMA SetAtWrites ==
  ASSUME view \in OwnFields, mutations \in Seq(OwnMutations), NEW path, NEW value,
         Mutation(path, value) \in OwnMutations, SetAt(path, value)
  PROVE  /\ view' \in OwnFields /\ mutations' \in Seq(OwnMutations)
         /\ ApplyAll(given, mutations) = Start(view) => ApplyAll(given, mutations') = Start(view')
<1> DEFINE m == Mutation(path, value)
           M == OwnMutations
<1>1. m \in M /\ mutations \in Seq(M)
  OBVIOUS
<1>2. m.path = path
  BY DEF Mutation
<1>3. HasPath(view, m.path) /\ view' = ApplyPath(view, m) /\ mutations' = Append(mutations, m)
  <2>1. HasPath(view, path) /\ view' = ApplyPath(view, m) /\ mutations' = Append(mutations, m)
    BY DEF SetAt
  <2> QED
    BY <1>2, <2>1
<1> HIDE DEF m
<1>4. view' \in OwnFields
  BY <1>1, <1>3, OwnApplies
<1> HIDE DEF M
<1>5. mutations' \in Seq(M)
  BY <1>1, <1>3, AppendProperties
<1>6. ASSUME ApplyAll(given, mutations) = Start(view)
      PROVE  ApplyAll(given, mutations') = Start(view')
  BY <1>1, <1>3, <1>6, ApplyAppend
<1> QED
  BY <1>4, <1>5, <1>6 DEF M

\* Update: the same, by what Diff does.
LEMMA UpdateWrites ==
  ASSUME view \in OwnFields, mutations \in Seq(OwnMutations), NEW fields \in OwnFields,
         Update(fields)
  PROVE  /\ view' \in OwnFields /\ mutations' \in Seq(OwnMutations)
         /\ ApplyAll(given, mutations) = Start(view) => ApplyAll(given, mutations') = Start(view')
<1> DEFINE diff == Diff(view, fields)
           M == OwnMutations
<1>1. diff \in Seq(M) /\ mutations \in Seq(M)
  BY DiffIsOwn
<1>2. ApplyAll(view, diff) = Start(fields)
  BY DiffReplays DEF OwnFields
<1>3. view' = fields /\ mutations' = mutations \o diff
  BY DEF Update
<1> HIDE DEF diff, M
<1>4. mutations' \in Seq(M)
  BY <1>1, <1>3, ConcatProperties
<1>5. ASSUME ApplyAll(given, mutations) = Start(view)
      PROVE  ApplyAll(given, mutations') = Start(view')
  <2>1. ApplyAll(given, mutations \o diff) = ApplyAll(view, diff)
    BY <1>1, <1>5, ApplyConcat
  <2> QED
    BY <1>2, <1>3, <2>1
<1> QED
  BY <1>3, <1>4, <1>5 DEF M

\* Whatever a handler of a plugin's event writes.
LEMMA CustomWrites ==
  ASSUME view \in OwnFields, mutations \in Seq(OwnMutations), WriteCustom
  PROVE  /\ view' \in OwnFields /\ mutations' \in Seq(OwnMutations)
         /\ ApplyAll(given, mutations) = Start(view) => ApplyAll(given, mutations') = Start(view')
<1>1. CASE \E index \in 0..(Uint32 + 2), v \in {Double("2"), List(<<Double("2")>>), Invalid} :
             Set(index, v)
  <2>1. PICK index \in 0..(Uint32 + 2), v \in {Double("2"), List(<<Double("2")>>), Invalid} :
          Set(index, v)
    BY <1>1
  <2> DEFINE i == index % Uint32
  <2>2. i \in Nat
    BY Wide
  <2>3. SetAt(<<i>>, v)
    BY <2>1 DEF Set
  <2> HIDE DEF i
  <2>4. i \in 0..2
    <3>1. HasPath(view, <<i>>) /\ Len(view) = 3
      BY <2>3 DEF SetAt, OwnFields
    <3>2. <<i>>[1] = i
      OBVIOUS
    <3> QED
      BY <2>2, <3>1, <3>2 DEF HasPath
  <2>5. Mutation(<<i>>, v) \in OwnMutations
    <3>1. v \in Own
      BY SomeOwn
    <3> QED
      BY <2>4, <3>1 DEF Mutation, OwnMutations, Whole
  <2> QED
    BY <2>3, <2>5, SetAtWrites
<1>2. CASE \E i, j \in 0..2 : SetAt(<<i, j>>, Double("2"))
  <2>1. PICK i \in 0..2, j \in 0..2 : SetAt(<<i, j>>, Double("2"))
    BY <1>2
  <2> DEFINE v == Double("2")
  <2>2. v \in Prices /\ j \in 0..(Uint32 - 1)
    BY SomeOwn, ContentsAre, Wide
  <2> HIDE DEF v
  <2>3. Mutation(<<i, j>>, v) \in OwnMutations
    BY <2>2 DEF Mutation, OwnMutations, Element
  <2> QED
    BY <2>1, <2>3, SetAtWrites DEF v
<1>3. CASE \E text \in Contents("string"), prices \in Contents("prices"),
              price \in Contents("price"), beyond \in {<<>>, <<Double("1")>>} :
             Update(<<text, prices, price>> \o beyond)
  <2>1. PICK text \in Contents("string"), prices \in Contents("prices"),
             price \in Contents("price"), beyond \in {<<>>, <<Double("1")>>} :
          Update(<<text, prices, price>> \o beyond)
    BY <1>3
  <2>2. text \in Own /\ prices \in Own /\ price \in Own
    BY SomeOwn
  <2> DEFINE fields == <<text, prices, price>>
             more == Double("1")
  <2>3. fields \in Seq(Own) /\ Len(fields) = 3
    BY <2>2
  <2>4. beyond \in Seq({more}) /\ (beyond # <<>> => Len(beyond) = 1)
    <3>1. beyond = <<>> \/ beyond = <<more>>
      OBVIOUS
    <3> HIDE DEF more
    <3>2. <<more>> \in Seq({more}) /\ Len(<<more>>) = 1
      OBVIOUS
    <3>3. \A S : <<>> \in Seq(S)
      OBVIOUS
    <3> QED
      BY <3>1, <3>2, <3>3
  <2>5. Len(view) = 3
    BY DEF OwnFields
  <2> HIDE DEF fields, more
  <2>6. Len(fields \o beyond) = Len(fields) + Len(beyond)
    <3> DEFINE S == Own \cup {more}
    <3>1. fields \in Seq(S) /\ beyond \in Seq(S)
      BY <2>3, <2>4
    <3> HIDE DEF S
    <3> QED
      BY <3>1, ConcatProperties
  <2>7. beyond = <<>>
    <3>1. Len(fields \o beyond) = 3
      BY <2>1, <2>5 DEF Update, fields
    <3> QED
      BY <2>3, <2>4, <2>6, <3>1
  <2>8. Update(fields)
    <3>1. fields \o <<>> = fields
      BY <2>3, ConcatEmptySeq
    <3>2. Update(fields \o beyond)
      BY <2>1 DEF fields
    <3> QED
      BY <2>7, <3>1, <3>2
  <2>9. fields \in OwnFields
    BY <2>3 DEF OwnFields
  <2> QED
    BY <2>8, <2>9, UpdateWrites
<1> QED
  BY <1>1, <1>2, <1>3 DEF WriteCustom

\* The invariant holds of an event nobody has been sent.
LEMMA InitHolds == Init => IInv
<1> SUFFICES ASSUME Init PROVE IInv
  OBVIOUS
<1>1. event.type \in Types /\ event.open \in Open(event.type)
  BY DEF Init
<1>2. host \in FieldsOf(event.type) /\ author = host /\ host \in Originals(event.type)
  BY <1>1, OriginalsAreFields DEF Init
<1>3. /\ phase = "host" /\ given = <<>> /\ view = <<>> /\ mutations = <<>> /\ accepted = <<>>
      /\ cancelled = FALSE /\ stopped = FALSE /\ verdict = None /\ outcome = None
      /\ dispatches = 0 /\ writes = 0
  BY DEF Init
<1> DEFINE M == MutationsOf(event.type)
<1>4. <<>> \in Seq(M) /\ 0 \in 0..MaxDispatches /\ 0 \in 0..MaxWrites
  <2> HIDE DEF M
  <2> QED
    BY Wide
<1> HIDE DEF M
<1>5. TypedAtHost /\ TypedInHand
  BY <1>1, <1>2, <1>3, <1>4 DEF TypedAtHost, TypedInHand, M
<1>6. AuthorIsBehind
  BY <1>2, ApplyNothing DEF Init, AuthorIsBehind
<1> QED
  BY <1>3, <1>5, <1>6 DEF IInv, InHand, ViewIsRead, WritesAreRecorded,
     VerdictCarriesTheWrites, CancelledByThoseWhoMay, AuthorSeesWhatTheHostHas

-----------------------------------------------------------------------------
(* One lemma for each action *)

\* Where the host's side stands still, so does what is said of it.
LEMMA HostStands ==
  ASSUME IInv, UNCHANGED atHost, phase = "done" <=> phase' = "done"
  PROVE  TypedAtHost' /\ AuthorIsBehind' /\ AuthorSeesWhatTheHostHas'
<1>1. TypedAtHost'
  BY DEF IInv, TypedAtHost, atHost
<1>2. AuthorIsBehind'
  BY DEF IInv, AuthorIsBehind, atHost
<1>3. AuthorSeesWhatTheHostHas'
  BY DEF IInv, AuthorSeesWhatTheHostHas, atHost
<1> QED
  BY <1>1, <1>2, <1>3

\* A dispatch starts with a fresh view and nothing recorded.
LEMMA DispatchKeeps == IInv /\ Dispatch => IInv'
<1> SUFFICES ASSUME IInv, Dispatch PROVE IInv'
  OBVIOUS
<1>1. /\ phase = "host" /\ phase' = "handling" /\ dispatches < MaxDispatches
      /\ dispatches' = dispatches + 1 /\ given' = host /\ view' = host /\ mutations' = <<>>
      /\ cancelled' = FALSE /\ verdict' = None /\ event' = event /\ host' = host
      /\ accepted' = accepted /\ stopped' = stopped /\ author' = author /\ outcome' = outcome
      /\ writes' = writes /\ EventFrom(event.type, host)
  BY DEF Dispatch
<1>2. TypedAtHost'
  <2>1. dispatches' \in 0..MaxDispatches
    BY <1>1, Wide DEF IInv, TypedAtHost
  <2> QED
    BY <1>1, <2>1 DEF IInv, TypedAtHost
<1>3. TypedInHand'
  <2>1. <<>> \in Seq(MutationsOf(event.type))
    <3> DEFINE M == MutationsOf(event.type)
    <3> HIDE DEF M
    <3>1. <<>> \in Seq(M)
      OBVIOUS
    <3> QED
      BY <3>1 DEF M
  <2>2. host \in FieldsOf(event.type) /\ writes \in 0..MaxWrites
    BY DEF IInv, TypedAtHost, TypedInHand
  <2> QED
    BY <1>1, <2>1, <2>2 DEF TypedInHand
<1>4. ViewIsRead'
  BY <1>1 DEF ViewIsRead
<1>5. WritesAreRecorded'
  BY <1>1, ApplyNothing DEF WritesAreRecorded
<1>6. AuthorIsBehind'
  BY <1>1 DEF IInv, AuthorIsBehind
<1>7. VerdictCarriesTheWrites' /\ CancelledByThoseWhoMay'
  BY <1>1 DEF VerdictCarriesTheWrites, CancelledByThoseWhoMay
<1>8. AuthorSeesWhatTheHostHas'
  BY <1>1 DEF IInv, AuthorSeesWhatTheHostHas
<1> QED
  BY <1>2, <1>3, <1>4, <1>5, <1>6, <1>7, <1>8 DEF IInv

\* A dispatch without handlers answers with nothing to apply, and left what arrived.
LEMMA DispatchFailsKeeps == IInv /\ DispatchFails => IInv'
<1> SUFFICES ASSUME IInv, DispatchFails PROVE IInv'
  OBVIOUS
<1>1. /\ phase = "host" /\ phase' = "answered" /\ dispatches < MaxDispatches
      /\ dispatches' = dispatches + 1 /\ given' = host /\ view' = host /\ mutations' = <<>>
      /\ cancelled' = FALSE /\ event' = event /\ host' = host
      /\ accepted' = accepted /\ stopped' = stopped /\ author' = author /\ outcome' = outcome
      /\ writes' = writes
  BY DEF DispatchFails
<1>10. PICK deny \in BOOLEAN :
        verdict' = [mutations |-> <<>>, cancelled |-> deny, left |-> host, said |-> deny, ran |-> FALSE]
  BY DEF DispatchFails
<1>2. TypedAtHost'
  <2>1. dispatches' \in 0..MaxDispatches
    BY <1>1, Wide DEF IInv, TypedAtHost
  <2> QED
    BY <1>1, <2>1 DEF IInv, TypedAtHost
<1>3. TypedInHand'
  <2>1. <<>> \in Seq(MutationsOf(event.type))
    <3> DEFINE M == MutationsOf(event.type)
    <3> HIDE DEF M
    <3>1. <<>> \in Seq(M)
      OBVIOUS
    <3> QED
      BY <3>1 DEF M
  <2>2. host \in FieldsOf(event.type) /\ writes \in 0..MaxWrites
    BY DEF IInv, TypedAtHost, TypedInHand
  <2>3. verdict' \in Verdicts(event.type)
    BY <1>10, <2>1, <2>2 DEF Verdicts
  <2> QED
    BY <1>1, <2>1, <2>2, <2>3 DEF TypedInHand
<1>4. ViewIsRead'
  BY <1>10, <1>1 DEF ViewIsRead, InHand
<1>5. WritesAreRecorded'
  BY <1>1 DEF WritesAreRecorded
<1>6. AuthorIsBehind'
  BY <1>1 DEF IInv, AuthorIsBehind
<1>7. VerdictCarriesTheWrites'
  <2>1. ApplyAll(host, <<>>) = Start(host)
    BY ApplyNothing
  <2>2. host = [i \in DOMAIN host |-> host[i]]
    <3>1. CASE IsNative(event.type)
      BY <3>1, SeqShape DEF IInv, TypedAtHost, FieldsOf
    <3>2. CASE ~IsNative(event.type)
      BY <3>2, OwnFieldsAre DEF IInv, TypedAtHost, FieldsOf
    <3> QED
      BY <3>1, <3>2
  <2>3. [i \in DOMAIN host |-> IF i - 1 \in NativeEvents[event.type].mutable
                               THEN host[i] ELSE host[i]] = host
    BY <2>2
  <2>4. verdict'.mutations = <<>> /\ verdict'.left = host
    BY <1>10
  <2> QED
    BY <1>1, <2>1, <2>3, <2>4 DEF VerdictCarriesTheWrites, Start
<1>8. CancelledByThoseWhoMay'
  BY <1>10 DEF CancelledByThoseWhoMay
<1>9. AuthorSeesWhatTheHostHas'
  BY <1>1 DEF IInv, AuthorSeesWhatTheHostHas
<1> QED
  BY <1>2, <1>3, <1>4, <1>5, <1>6, <1>7, <1>8, <1>9 DEF IInv

\* A write to a purchase, during the dispatch or to a view that was kept: an answer that
\* is given no longer changes with it.
LEMMA WriteCustomKeeps == IInv /\ WriteCustom => IInv'
<1> SUFFICES ASSUME IInv, WriteCustom PROVE IInv'
  OBVIOUS
<1>1. /\ UNCHANGED atHost /\ phase' = phase /\ given' = given /\ cancelled' = cancelled
      /\ verdict' = verdict /\ writes' = writes + 1 /\ writes < MaxWrites /\ IsCustom
      /\ phase \in {"handling", "answered"}
  BY DEF WriteCustom, Writable, InHand
<1>2. event' = event
  BY <1>1 DEF atHost
<1>3. TypedAtHost' /\ AuthorIsBehind' /\ AuthorSeesWhatTheHostHas'
  BY <1>1, HostStands
<1>4. /\ view \in OwnFields /\ given \in OwnFields
      /\ FieldsOf(event.type) = OwnFields /\ MutationsOf(event.type) = OwnMutations
      /\ mutations \in Seq(OwnMutations)
  BY <1>1 DEF IInv, TypedInHand, IsCustom, FieldsOf, MutationsOf
<1>5. /\ view' \in OwnFields /\ mutations' \in Seq(OwnMutations)
      /\ ApplyAll(given, mutations) = Start(view) => ApplyAll(given, mutations') = Start(view')
  BY <1>4, CustomWrites
<1>6. TypedInHand'
  <2>1. writes' \in 0..MaxWrites
    BY <1>1, Wide DEF IInv, TypedInHand
  <2> QED
    BY <1>1, <1>2, <1>4, <1>5, <2>1 DEF IInv, TypedInHand
<1>7. ViewIsRead'
  <2>1. Len(view') = Len(view)
    BY <1>4, <1>5 DEF OwnFields
  <2> QED
    BY <1>1, <1>2, <2>1 DEF IInv, ViewIsRead, InHand
<1>8. WritesAreRecorded'
  BY <1>1, <1>2, <1>5 DEF IInv, WritesAreRecorded, IsCustom
<1>9. VerdictCarriesTheWrites' /\ CancelledByThoseWhoMay'
  BY <1>1, <1>2 DEF IInv, VerdictCarriesTheWrites, CancelledByThoseWhoMay, IsCustom
<1> QED
  BY <1>3, <1>6, <1>7, <1>8, <1>9 DEF IInv

\* An assignment to the struct leaves as many fields as arrived.
LEMMA WriteNativeKeeps == IInv /\ WriteNative => IInv'
<1> SUFFICES ASSUME IInv, WriteNative PROVE IInv'
  OBVIOUS
<1>1. /\ UNCHANGED atHost /\ phase' = phase /\ given' = given /\ cancelled' = cancelled
      /\ verdict' = verdict /\ mutations' = mutations /\ writes' = writes + 1 /\ writes < MaxWrites
      /\ ~IsCustom /\ phase \in {"handling", "answered"} /\ InHand
  BY DEF WriteNative, Writable, InHand
<1>2. event' = event
  BY <1>1 DEF atHost
<1>3. TypedAtHost' /\ AuthorIsBehind' /\ AuthorSeesWhatTheHostHas'
  BY <1>1, HostStands
<1>4. /\ view \in Seq(Holdable) /\ given \in Seq(Holdable)
      /\ FieldsOf(event.type) = Seq(Holdable) /\ IsNative(event.type)
  BY <1>1 DEF IInv, TypedInHand, IsCustom, FieldsOf
<1>5. PICK i \in DOMAIN view :
        \E v \in Contents(Layout(event.type)[i]) : view' = [view EXCEPT ![i] = v]
  BY DEF WriteNative
<1>11. PICK v \in Contents(Layout(event.type)[i]) : view' = [view EXCEPT ![i] = v]
  BY <1>5
<1>6. v \in Holdable /\ i \in 1..Len(view)
  <2> DEFINE layout == NativeEvents[event.type].layout
  <2>1. layout \in Seq(NativeShapes) /\ Layout(event.type) = layout
    BY <1>4, LayoutsAre DEF Layout, IsNative
  <2>2. Len(view) = Len(given) /\ Len(given) = Len(layout)
    BY <1>1, <1>4 DEF IInv, ViewIsRead, EventFrom
  <2> HIDE DEF layout
  <2>3. i \in 1..Len(view) /\ i \in DOMAIN layout
    BY <1>4, <2>1, <2>2, SeqShape
  <2>4. layout[i] \in NativeShapes
    BY <2>1, <2>3, SeqShape
  <2> QED
    BY <2>1, <2>3, <2>4 DEF Holdable
<1>7. view' \in Seq(Holdable) /\ Len(view') = Len(view)
  BY <1>4, <1>11, <1>6, ExceptSeq
<1>8. TypedInHand'
  <2>1. writes' \in 0..MaxWrites
    BY <1>1, Wide DEF IInv, TypedInHand
  <2> QED
    BY <1>1, <1>2, <1>4, <1>7, <2>1 DEF IInv, TypedInHand
<1>9. ViewIsRead' /\ WritesAreRecorded'
  BY <1>1, <1>2, <1>7 DEF IInv, ViewIsRead, InHand, WritesAreRecorded, IsCustom
<1>10. VerdictCarriesTheWrites' /\ CancelledByThoseWhoMay'
  BY <1>1, <1>2 DEF IInv, VerdictCarriesTheWrites, CancelledByThoseWhoMay, IsCustom
<1> QED
  BY <1>3, <1>8, <1>9, <1>10 DEF IInv

\* A cancellation touches the control alone.
LEMMA CancelKeeps == IInv /\ Cancel => IInv'
<1> SUFFICES ASSUME IInv, Cancel PROVE IInv'
  OBVIOUS
<1>1. /\ UNCHANGED atHost /\ phase = "handling" /\ phase' = phase /\ given' = given /\ view' = view
      /\ mutations' = mutations /\ cancelled' = TRUE /\ verdict' = verdict /\ writes' = writes
  BY DEF Cancel
<1>2. event' = event
  BY <1>1 DEF atHost
<1>3. TypedAtHost' /\ AuthorIsBehind' /\ AuthorSeesWhatTheHostHas'
  BY <1>1, HostStands
<1>4. TypedInHand'
  BY <1>1, <1>2 DEF IInv, TypedInHand
<1>5. ViewIsRead' /\ WritesAreRecorded'
  BY <1>1, <1>2 DEF IInv, ViewIsRead, InHand, WritesAreRecorded, IsCustom
<1>6. VerdictCarriesTheWrites' /\ CancelledByThoseWhoMay'
  BY <1>1 DEF VerdictCarriesTheWrites, CancelledByThoseWhoMay
<1> QED
  BY <1>3, <1>4, <1>5, <1>6 DEF IInv

\* The answer: of a purchase what was recorded, of a native event what is compared.
LEMMA VerdictKeeps == IInv /\ Verdict => IInv'
<1> SUFFICES ASSUME IInv, Verdict PROVE IInv'
  OBVIOUS
<1> DEFINE ms == IF IsCustom THEN mutations ELSE NativeMutations(event.type, given, view)
           c == cancelled /\ (IsCustom \/ NativeCancellable(event.type))
<1>1. /\ UNCHANGED atHost /\ phase = "handling" /\ phase' = "answered" /\ given' = given
      /\ view' = view /\ mutations' = mutations /\ cancelled' = cancelled /\ writes' = writes
      /\ verdict' = [mutations |-> ms, cancelled |-> c, left |-> view, said |-> cancelled,
                     ran |-> TRUE]
  BY DEF Verdict
<1>2. event' = event
  BY <1>1 DEF atHost
<1>3. TypedAtHost' /\ AuthorIsBehind' /\ AuthorSeesWhatTheHostHas'
  BY <1>1, HostStands
<1>4. EventFrom(event.type, given) /\ Len(view) = Len(given)
  BY <1>1 DEF IInv, ViewIsRead, InHand
<1> DEFINE kept == IF IsCustom THEN view ELSE Taken(given, view, NativeEvents[event.type].mutable)
<1>5. ApplyAll(given, ms) = Start(kept) /\ ms \in Seq(MutationsOf(event.type))
  <2>1. CASE IsCustom
    BY <1>1, <2>1 DEF IInv, TypedInHand, WritesAreRecorded
  <2>2. CASE ~IsCustom
    <3>1. /\ given \in Seq(Holdable) /\ view \in Seq(Holdable) /\ event.type \in DOMAIN NativeEvents
          /\ MutationsOf(event.type) = NativeWrites(Holdable)
      BY <1>1, <2>2 DEF IInv, TypedInHand, IsCustom, IsNative, FieldsOf, MutationsOf
    <3>2. Len(given) = Len(NativeEvents[event.type].layout)
      BY <1>4, <3>1 DEF EventFrom, IsNative
    <3>3. /\ ApplyAll(given, NativeMutations(event.type, given, view))
               = Start(Taken(given, view, NativeEvents[event.type].mutable))
          /\ NativeMutations(event.type, given, view) \in Seq(NativeWrites(Holdable))
      BY <1>4, <3>1, <3>2, NativeReplays
    <3> QED
      BY <2>2, <3>1, <3>3
  <2> QED
    BY <2>1, <2>2
<1> HIDE DEF ms, c
<1>6. TypedInHand'
  <2>1. c \in BOOLEAN /\ cancelled \in BOOLEAN
    BY DEF c, IInv, TypedInHand
  <2>2. view \in FieldsOf(event.type) /\ given \in FieldsOf(event.type)
    BY <1>1 DEF IInv, TypedInHand
  <2>3. verdict' \in Verdicts(event.type)
    BY <1>1, <1>5, <2>1, <2>2 DEF Verdicts
  <2> QED
    BY <1>1, <1>2, <2>1, <2>2, <2>3 DEF IInv, TypedInHand
<1>7. ViewIsRead' /\ WritesAreRecorded'
  BY <1>1, <1>2, <1>4 DEF ViewIsRead, WritesAreRecorded
<1>8. VerdictCarriesTheWrites'
  <2>1. verdict'.mutations = ms /\ verdict'.left = view
    BY <1>1
  <2>2. ApplyAll(given, ms) = [ok |-> TRUE, fields |-> kept]
    BY <1>5 DEF Start
  <2> QED
    BY <1>1, <1>2, <2>1, <2>2 DEF VerdictCarriesTheWrites, IsCustom, Taken
<1>9. CancelledByThoseWhoMay'
  <2>1. verdict'.cancelled = c /\ verdict'.said = cancelled /\ verdict'.ran = TRUE
    BY <1>1
  <2>2. ~IsCustom => (NativeCancellable(event.type) <=> NativeEvents[event.type].control)
    BY ControlsAgree DEF IsCustom, IsNative
  <2> QED
    BY <1>2, <2>1, <2>2 DEF CancelledByThoseWhoMay, IsCustom, c
<1> QED
  BY <1>3, <1>6, <1>7, <1>8, <1>9 DEF IInv

\* The answer as it is sent, with its mutations or without.
LEMMA SendKeeps == IInv /\ Send => IInv'
<1> SUFFICES ASSUME IInv, Send PROVE IInv'
  OBVIOUS
<1>1. /\ UNCHANGED atHost /\ phase = "answered" /\ phase' = "sent" /\ given' = given
      /\ view' = view /\ mutations' = mutations /\ cancelled' = cancelled /\ writes' = writes
      /\ verdict' = verdict \/ verdict' = [verdict EXCEPT !.mutations = <<>>]
  BY DEF Send
<1>2. event' = event
  BY <1>1 DEF atHost
<1>3. TypedAtHost' /\ AuthorIsBehind' /\ AuthorSeesWhatTheHostHas'
  BY <1>1, HostStands
<1>4. verdict \in Verdicts(event.type)
  BY <1>1 DEF IInv, TypedInHand
<1>5. /\ verdict' \in Verdicts(event.type) /\ verdict'.cancelled = verdict.cancelled
      /\ verdict'.said = verdict.said /\ verdict'.ran = verdict.ran
  <2> DEFINE M == MutationsOf(event.type)
  <2>1. <<>> \in Seq(M)
    <3> HIDE DEF M
    <3> QED
      OBVIOUS
  <2> QED
    BY <1>1, <1>4, <2>1 DEF Verdicts
<1>6. TypedInHand'
  BY <1>1, <1>2, <1>5 DEF IInv, TypedInHand
<1>7. ViewIsRead' /\ WritesAreRecorded' /\ VerdictCarriesTheWrites'
  BY <1>1 DEF ViewIsRead, InHand, WritesAreRecorded, VerdictCarriesTheWrites
<1>8. CancelledByThoseWhoMay'
  BY <1>1, <1>2, <1>5 DEF IInv, CancelledByThoseWhoMay, IsCustom
<1> QED
  BY <1>3, <1>6, <1>7, <1>8 DEF IInv

\* The host applies a verdict: what it has applied still leads from the author's object
\* to what it has.
LEMMA HostAppliesKeeps == IInv /\ HostApplies => IInv'
<1> SUFFICES ASSUME IInv, HostApplies PROVE IInv'
  OBVIOUS
<1> DEFINE ms == verdict.mutations
           end == HostApplying(ms)[Len(ms)]
<1>1. /\ phase = "sent" /\ phase' = "host" /\ host' = end.fields /\ accepted' = end.applied
      /\ stopped' = (stopped \/ verdict.cancelled)
      /\ given' = <<>> /\ view' = <<>> /\ mutations' = <<>> /\ cancelled' = FALSE /\ verdict' = None
      /\ event' = event /\ author' = author /\ outcome' = outcome /\ dispatches' = dispatches
      /\ writes' = writes
  BY DEF HostApplies, Nothing
<1>2. ms \in Seq(MutationsOf(event.type)) /\ verdict.cancelled \in BOOLEAN
  BY <1>1 DEF IInv, TypedInHand, Verdicts
<1>3. /\ outcome = None /\ author \in Originals(event.type)
      /\ ApplyAll(author, accepted) = Start(host)
  BY <1>1 DEF IInv, AuthorIsBehind
<1>4. Leads(event.type, author, HostHas)
  BY <1>3 DEF IInv, TypedAtHost, Leads, HostHas
<1> HIDE DEF ms
<1>5. Leads(event.type, author, end)
  BY <1>2, <1>4, HostLeads
<1> HIDE DEF end
<1>6. TypedAtHost'
  <2>1. end.fields \in FieldsOf(event.type) /\ end.applied \in Seq(MutationsOf(event.type))
    BY <1>5 DEF Leads
  <2>2. stopped' \in BOOLEAN
    BY <1>1, <1>2 DEF IInv, TypedAtHost
  <2> QED
    BY <1>1, <2>1, <2>2 DEF IInv, TypedAtHost
<1>7. TypedInHand'
  <2> DEFINE M == MutationsOf(event.type)
  <2>1. <<>> \in Seq(M)
    <3> HIDE DEF M
    <3> QED
      OBVIOUS
  <2>2. writes \in 0..MaxWrites
    BY DEF IInv, TypedInHand
  <2> QED
    BY <1>1, <2>1, <2>2 DEF TypedInHand
<1>8. AuthorIsBehind'
  BY <1>1, <1>3, <1>5 DEF AuthorIsBehind, Leads
<1>9. ViewIsRead' /\ WritesAreRecorded' /\ VerdictCarriesTheWrites' /\ CancelledByThoseWhoMay'
  BY <1>1 DEF ViewIsRead, InHand, WritesAreRecorded, VerdictCarriesTheWrites, CancelledByThoseWhoMay
<1>10. AuthorSeesWhatTheHostHas'
  BY <1>1, <1>3 DEF AuthorSeesWhatTheHostHas
<1> QED
  BY <1>6, <1>7, <1>8, <1>9, <1>10 DEF IInv

\* A native event ends, and nobody is waiting for it.
LEMMA HostEndsKeeps == IInv /\ HostEnds => IInv'
<1> SUFFICES ASSUME IInv, HostEnds PROVE IInv'
  OBVIOUS
<1>1. /\ UNCHANGED <<atHost, given, view, mutations, cancelled, verdict, writes>>
      /\ phase = "host" /\ phase' = "done"
  BY DEF HostEnds
<1>2. UNCHANGED <<event, host, accepted, stopped, author, outcome, dispatches>>
  BY <1>1 DEF atHost
<1>3. TypedAtHost'
  BY <1>2 DEF IInv, TypedAtHost
<1>4. TypedInHand'
  BY <1>1, <1>2 DEF IInv, TypedInHand
<1>5. ViewIsRead' /\ WritesAreRecorded' /\ VerdictCarriesTheWrites' /\ CancelledByThoseWhoMay'
      /\ AuthorIsBehind'
  BY <1>1 DEF ViewIsRead, InHand, WritesAreRecorded, VerdictCarriesTheWrites,
     CancelledByThoseWhoMay, AuthorIsBehind
<1>6. AuthorSeesWhatTheHostHas'
  BY <1>2 DEF IInv, AuthorSeesWhatTheHostHas
<1> QED
  BY <1>3, <1>4, <1>5, <1>6 DEF IInv

\* The cases of replay.
LEMMA ReplayKeeps ==
  ASSUME author \in OwnFields, host \in OwnFields, accepted \in Seq(OwnMutations),
         ApplyAll(author, accepted) = Start(host), stopped \in BOOLEAN,
         NEW ms \in Emitted, Replay(ms)
  PROVE  /\ author' \in OwnFields
         /\ outcome' \in Outcomes
         /\ outcome'.allowed = ~stopped
         /\ outcome'.err = "none" => author' = host
         /\ outcome'.err = "replay" => author' = author
<1> DEFINE end == ApplyAll(author, ms)
<1>1. CASE ms = accepted
  <2>1. end = Start(host) /\ end.ok = TRUE /\ end.fields = host
    BY <1>1 DEF Start
  <2> HIDE DEF end
  <2>2. \/ outcome' = [allowed |-> ~stopped, err |-> "none"] /\ author' = host
        \/ /\ outcome' = [allowed |-> ~stopped, err |-> "fields"]
           /\ \E k \in 0..2 : author' = SubSeq(host, 1, k) \o SubSeq(author, k + 1, 3)
    BY <2>1 DEF Replay, end
  <2>3. CASE outcome' = [allowed |-> ~stopped, err |-> "none"] /\ author' = host
    BY <2>3 DEF Outcomes
  <2>4. CASE /\ outcome' = [allowed |-> ~stopped, err |-> "fields"]
             /\ \E k \in 0..2 : author' = SubSeq(host, 1, k) \o SubSeq(author, k + 1, 3)
    <3>1. PICK k \in 0..2 : author' = SubSeq(host, 1, k) \o SubSeq(author, k + 1, 3)
      BY <2>4
    <3> DEFINE a == SubSeq(host, 1, k)
               b == SubSeq(author, k + 1, 3)
    <3>2. /\ \A i \in 1..k : host[i] \in Own
          /\ \A i \in (k + 1)..3 : author[i] \in Own
      <4>1. author \in [1..3 -> Own] /\ host \in [1..3 -> Own]
        BY OwnFieldsAre
      <4> QED
        BY <4>1
    <3>3. a \in Seq(Own) /\ Len(a) = k
      <4>1. Len(a) = IF 1 <= k THEN k - 1 + 1 ELSE 0
        BY <3>2, SubSeqProperties
      <4> QED
        BY <3>2, <4>1, SubSeqProperties
    <3>4. b \in Seq(Own) /\ Len(b) = 3 - k
      <4>1. Len(b) = IF k + 1 <= 3 THEN 3 - (k + 1) + 1 ELSE 0
        BY <3>2, SubSeqProperties
      <4> QED
        BY <3>2, <4>1, SubSeqProperties
    <3> HIDE DEF a, b
    <3>5. a \o b \in Seq(Own) /\ Len(a \o b) = 3
      BY <3>3, <3>4, ConcatProperties
    <3>6. author' \in OwnFields
      BY <3>1, <3>5 DEF OwnFields, a, b
    <3> QED
      BY <2>4, <3>6 DEF Outcomes
  <2> QED
    BY <2>2, <2>3, <2>4
<1>2. CASE ms # accepted
  <2> DEFINE m == Mutation(<<Len(PurchaseLayout)>>, Double("1"))
  <2>1. PICK k \in {1, Len(accepted) + 1} : ms = InsertAt(accepted, k, m)
    BY <1>2 DEF Emitted
  <2>2. m.path = <<3>>
    <3>1. Len(PurchaseLayout) = 3
      BY DEF PurchaseLayout
    <3> QED
      BY <3>1 DEF Mutation
  <2> HIDE DEF m
  <2>3. end.ok = FALSE
    BY <2>1, <2>2, StrangerStops
  <2> HIDE DEF end
  <2>4. outcome' = [allowed |-> ~stopped, err |-> "replay"] /\ author' = author
    BY <2>3 DEF Replay, end
  <2> QED
    BY <2>4 DEF Outcomes
<1> QED
  BY <1>1, <1>2

\* Emit returns, in every case of replay.
LEMMA EmitReturnsKeeps == IInv /\ EmitReturns => IInv'
<1> SUFFICES ASSUME IInv, EmitReturns PROVE IInv'
  OBVIOUS
<1>1. /\ phase = "host" /\ phase' = "done" /\ event.type = Purchase
      /\ event' = event /\ host' = host /\ given' = given /\ view' = view /\ mutations' = mutations
      /\ cancelled' = cancelled /\ verdict' = verdict /\ accepted' = accepted
      /\ stopped' = stopped /\ dispatches' = dispatches /\ writes' = writes
  BY DEF EmitReturns
<1>2. PICK ms \in Emitted : Replay(ms)
  BY DEF EmitReturns
<1>3. FieldsOf(event.type) = OwnFields /\ MutationsOf(event.type) = OwnMutations
  <2>1. Purchase \notin DOMAIN NativeEvents
    BY Natives DEF Purchase
  <2> QED
    BY <1>1, <2>1 DEF FieldsOf, MutationsOf, IsNative
<1>4. /\ author \in OwnFields /\ host \in OwnFields /\ accepted \in Seq(OwnMutations)
      /\ stopped \in BOOLEAN /\ ApplyAll(author, accepted) = Start(host)
      /\ author \in Originals(event.type)
  BY <1>1, <1>3 DEF IInv, TypedAtHost, AuthorIsBehind
<1>5. /\ author' \in OwnFields
      /\ outcome' \in Outcomes
      /\ outcome'.allowed = ~stopped
      /\ outcome'.err = "none" => author' = host
      /\ outcome'.err = "replay" => author' = author
  BY <1>2, <1>4, ReplayKeeps
<1>6. TypedAtHost'
  BY <1>1, <1>3, <1>5 DEF IInv, TypedAtHost
<1>7. TypedInHand'
  BY <1>1 DEF IInv, TypedInHand
<1>8. ViewIsRead' /\ WritesAreRecorded' /\ VerdictCarriesTheWrites' /\ CancelledByThoseWhoMay'
      /\ AuthorIsBehind'
  BY <1>1 DEF ViewIsRead, InHand, WritesAreRecorded, VerdictCarriesTheWrites,
     CancelledByThoseWhoMay, AuthorIsBehind
<1>9. AuthorSeesWhatTheHostHas'
  BY <1>1, <1>4, <1>5 DEF AuthorSeesWhatTheHostHas
<1> QED
  BY <1>6, <1>7, <1>8, <1>9 DEF IInv

\* Steps of others change nothing.
LEMMA StutterKeeps == IInv /\ UNCHANGED vars => IInv'
<1> SUFFICES ASSUME IInv, UNCHANGED vars PROVE IInv'
  OBVIOUS
<1>1. /\ event' = event /\ phase' = phase /\ host' = host /\ given' = given /\ view' = view
      /\ mutations' = mutations /\ cancelled' = cancelled /\ verdict' = verdict
      /\ accepted' = accepted /\ stopped' = stopped /\ author' = author /\ outcome' = outcome
      /\ dispatches' = dispatches /\ writes' = writes
  BY DEF vars
<1> QED
  BY <1>1 DEF IInv, TypedAtHost, TypedInHand, InHand, ViewIsRead, WritesAreRecorded, AuthorIsBehind,
     VerdictCarriesTheWrites, CancelledByThoseWhoMay, AuthorSeesWhatTheHostHas, IsCustom

-----------------------------------------------------------------------------
(* The theorems *)

\* The invariant is inductive.
THEOREM Invariance == Spec => []IInv
<1>1. IInv /\ [Next]_vars => IInv'
  BY DispatchKeeps, DispatchFailsKeeps, WriteCustomKeeps, WriteNativeKeeps, CancelKeeps,
     VerdictKeeps, SendKeeps, HostAppliesKeeps, HostEndsKeeps, EmitReturnsKeeps, StutterKeeps
     DEF Next
<1> QED
  BY InitHolds, <1>1, PTL DEF Spec

\* Payload.tla is type-correct; in particular a view keeps the number of fields it was
\* given with, however many writes of whatever kind it took (receive.go:149-196).
THEOREM TypeCorrect == Spec => []TypeOK
<1>1. IInv => TypeOK
  <2> SUFFICES ASSUME IInv PROVE TypeOK
    OBVIOUS
  <2>1. AreFields(<<>>)
    BY DEF AreFields
  <2>2. AreFields(host) /\ AreFields(author) /\ AreFields(given) /\ AreFields(view)
    BY <2>1, FieldsHaveKinds DEF IInv, TypedAtHost, TypedInHand
  <2>3. AreMutations(mutations) /\ AreMutations(accepted)
    BY MutationsHaveKinds DEF IInv, TypedAtHost, TypedInHand
  <2>4. verdict # None => AreMutations(verdict.mutations) /\ verdict.cancelled \in BOOLEAN
    BY MutationsHaveKinds DEF IInv, TypedInHand, Verdicts
  <2>5. outcome # None => outcome.allowed \in BOOLEAN
    BY DEF IInv, TypedAtHost, Outcomes
  <2>6. InHand => Len(view) = Len(given)
    BY DEF IInv, ViewIsRead
  <2> QED
    BY <2>2, <2>3, <2>4, <2>5, <2>6 DEF IInv, TypedAtHost, TypedInHand, TypeOK
<1> QED
  BY Invariance, <1>1, PTL

\* However many writes the handlers mix, and whatever is written to a kept dispatch
\* later, the mutations of an answer give the view they left; of a native event its
\* Mutable fields, and no other.
THEOREM VerdictsCarryTheWrites == Spec => []VerdictCarriesTheWrites
<1>1. IInv => VerdictCarriesTheWrites
  BY DEF IInv
<1> QED
  BY Invariance, <1>1, PTL

\* A cancellation is reported for the events that may be cancelled, and is not lost with
\* mutations that cannot be carried.
THEOREM OnlyThoseWhoMayCancel == Spec => []CancelledByThoseWhoMay
<1>1. IInv => CancelledByThoseWhoMay
  BY DEF IInv
<1> QED
  BY Invariance, <1>1, PTL

\* However many subscribers there were, and whatever the host refused, an Emit that
\* returns no error leaves the author's object as the host has it; one whose mutations do
\* not replay leaves it alone.
THEOREM AuthorsSeeWhatTheHostHas == Spec => []AuthorSeesWhatTheHostHas
<1>1. IInv => AuthorSeesWhatTheHostHas
  BY DEF IInv
<1> QED
  BY Invariance, <1>1, PTL
=============================================================================
