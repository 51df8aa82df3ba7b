--------------------------- MODULE CommandsProofs ---------------------------
(***************************************************************************)
(* Commands.tla keeps all its invariants, for every set of names and       *)
(* permissions, every depth of the tree and every number of calls, and     *)
(* whatever version of the set the bundle was built from.                  *)
(*                                                                         *)
(* The tree hangs together from its root: a node has all those above it,   *)
(* and none ever turns from a name into a value.  So what a builder spells *)
(* stays the path of its node, no two nodes are spelled alike, and binding *)
(* one path never touches the function of another.  What a line carries is *)
(* read off its path and its types alone, and those no longer change when  *)
(* lines are typed.                                                        *)
(***************************************************************************)
EXTENDS Commands, SequenceTheorems, TLAPS

\* The tree has no node without those above it.
NodesHangFromNodes ==
  \A a \in DOMAIN nodes : a # <<>> /\ \A i \in DOMAIN a : SubSeq(a, 1, i) \in DOMAIN nodes

ValuesHaveTypes == \A a \in DOMAIN nodes : nodes[a].argument => nodes[a].type \in Types

\* What can be said of a node.
Sayings ==
  \A s \in said : \/ s.what = "type" /\ s.is \in Types
                  \/ s.what = "permission" /\ s.is \in Permissions

NothingLoadedYet == phase = "declaring" => registry = <<>> /\ invocation = None

\* While RegisterSet is at it, what is bound so far is bound to its own function;
\* afterwards nothing is left unbound.
BoundToTheirOwn ==
  /\ \A e \in DOMAIN registry : registry[e] \in 0..MaxCalls
  /\ phase = "binding" => \A p \in DOMAIN handlers \cap DOMAIN bundle :
                            bundle[p] \in DOMAIN registry => registry[bundle[p]] = handlers[p]
  /\ phase = "enabled" => \A p \in DOMAIN handlers :
                            p \in DOMAIN bundle /\ bundle[p] \in DOMAIN registry

Tree ==
  /\ NodesHangFromNodes
  /\ ValuesHaveTypes
  /\ Sayings
  /\ BuildersSpellTheirNodes
  /\ DeclaredPathsAreIndexed
  /\ DeclarationsStand

Loading ==
  /\ NothingLoadedYet
  /\ BoundToTheirOwn
  /\ LoadBindsEverything
  /\ LinesReachTheirHandler
  /\ HandlersReadWhatWasTyped

IInv == TypeOK /\ Tree /\ Loading

-----------------------------------------------------------------------------
(* Addresses and the paths they spell *)

LEMMA Bounds ==
  /\ MaxDepth \in Nat /\ MaxCalls \in Nat
  /\ None \notin Names /\ None \notin Permissions /\ None \notin Options /\ None \notin Types
BY CommandsAssumption DEF Types

\* What is above a node that hangs from another is above that one, and the node.
LEMMA AboveAppended ==
  ASSUME NEW S, NEW s \in Seq(S), NEW x \in S
  PROVE  /\ Append(s, x) \in Seq(S) /\ Append(s, x) # <<>>
         /\ Len(s) \in Nat /\ DOMAIN s = 1..Len(s)
         /\ DOMAIN Append(s, x) = 1..(Len(s) + 1)
         /\ Append(s, x)[Len(s) + 1] = x
         /\ \A i \in DOMAIN s : Append(s, x)[i] = s[i]
         /\ \A i \in DOMAIN s : SubSeq(Append(s, x), 1, i) = SubSeq(s, 1, i)
         /\ SubSeq(Append(s, x), 1, Len(s) + 1) = Append(s, x)
<1> DEFINE t == Append(s, x)
<1>1. /\ t \in Seq(S) /\ t # <<>> /\ Len(s) \in Nat /\ DOMAIN s = 1..Len(s) /\ Len(t) = Len(s) + 1
      /\ \A i \in 1..Len(s) : t[i] = s[i]
      /\ t[Len(s) + 1] = x
  BY AppendProperties, LenProperties
<1>2. DOMAIN t = 1..(Len(s) + 1)
  BY <1>1, LenProperties
<1>3. ASSUME NEW i \in DOMAIN s PROVE SubSeq(t, 1, i) = SubSeq(s, 1, i)
  <2>1. i \in 1..Len(s) /\ \A j \in 1..i : t[j] = s[j] /\ s[j] \in S
    BY <1>1, ElementOfSeq
  <2>2. /\ SubSeq(s, 1, i) \in Seq(S) /\ Len(SubSeq(s, 1, i)) = i
        /\ \A j \in 1..i : SubSeq(s, 1, i)[j] = s[j]
    BY <2>1, SubSeqProperties
  <2>3. /\ SubSeq(t, 1, i) \in Seq(S) /\ Len(SubSeq(t, 1, i)) = i
        /\ \A j \in 1..i : SubSeq(t, 1, i)[j] = t[j]
    <3>1. \A j \in 1..i : t[j] \in S
      BY <2>1
    <3> HIDE DEF t
    <3> QED
      BY <2>1, <3>1, SubSeqProperties
  <2> QED
    BY <2>1, <2>2, <2>3, SeqEqual
<1>4. SubSeq(t, 1, Len(s) + 1) = t
  BY <1>1, SubSeqFull
<1> QED
  BY <1>1, <1>2, <1>3, <1>4

LEMMA OneName ==
  ASSUME NEW S, NEW x \in S
  PROVE  /\ <<x>> \in Seq(S) /\ <<x>> # <<>> /\ DOMAIN <<x>> = {1} /\ <<x>>[1] = x
         /\ SubSeq(<<x>>, 1, 1) = <<x>>
<1>1. <<x>> \in Seq(S) /\ Len(<<x>>) = 1 /\ <<x>>[1] = x
  OBVIOUS
<1>2. SubSeq(<<x>>, 1, 1) = <<x>>
  BY <1>1, SubSeqFull
<1>3. DOMAIN <<x>> = {1} /\ <<x>> # <<>>
  OBVIOUS
<1> QED
  BY <1>1, <1>2, <1>3

LEMMA PathSpelt ==
  ASSUME TypeOK, NodesHangFromNodes, NEW a \in DOMAIN nodes
  PROVE  /\ a \in Seq(Names) /\ PathOf(a) \in Seq(Labels)
         /\ DOMAIN PathOf(a) = DOMAIN a /\ Len(PathOf(a)) = Len(a)
         /\ \A i \in DOMAIN a : /\ PathOf(a)[i] = Label(a[i], nodes[SubSeq(a, 1, i)].argument)
                                /\ PathOf(a)[i].name = a[i] /\ a[i] \in Names
                                /\ PathOf(a)[i].argument = nodes[SubSeq(a, 1, i)].argument
                                /\ nodes[SubSeq(a, 1, i)].argument \in BOOLEAN
<1>1. a \in Seq(Names) /\ Len(a) \in Nat /\ DOMAIN a = 1..Len(a) /\ \A i \in 1..Len(a) : a[i] \in Names
  BY LenProperties, ElementOfSeq DEF TypeOK
<1>2. \A i \in DOMAIN a : nodes[SubSeq(a, 1, i)].argument \in BOOLEAN
  BY DEF TypeOK, NodesHangFromNodes, Nodes
<1>3. \A i \in DOMAIN a : Label(a[i], nodes[SubSeq(a, 1, i)].argument) \in Labels
  BY <1>1, <1>2 DEF Label, Labels
<1>4. PathOf(a) \in Seq(Labels) /\ Len(PathOf(a)) = Len(a)
  BY <1>1, <1>3 DEF PathOf
<1> QED
  BY <1>1, <1>2, <1>4 DEF PathOf, Label

\* No two nodes are spelled alike.
LEMMA PathsTellNodesApart ==
  ASSUME TypeOK, NodesHangFromNodes, NEW a \in DOMAIN nodes, NEW b \in DOMAIN nodes,
         PathOf(a) = PathOf(b)
  PROVE  a = b
<1>1. a \in Seq(Names) /\ b \in Seq(Names) /\ Len(a) = Len(b)
  BY PathSpelt
<1>2. \A i \in 1..Len(a) : a[i] = b[i]
  <2>1. DOMAIN a = 1..Len(a) /\ DOMAIN b = 1..Len(a)
    BY <1>1, LenProperties
  <2> QED
    BY <2>1, PathSpelt
<1> QED
  BY <1>1, <1>2, SeqEqual

\* Only declared nodes are spelled with names a plugin can use.
LEMMA ElsewhereIsNoPath ==
  ASSUME TypeOK, NodesHangFromNodes
  PROVE  /\ Elsewhere \notin Paths /\ Elsewhere \in Seq(Labels) /\ ValuesOn(Elsewhere) = {}
         /\ Paths \subseteq Seq(Labels)
<1>1. ASSUME NEW a \in DOMAIN nodes PROVE PathOf(a) # Elsewhere
  <2>1. a \in Seq(Names) /\ a # <<>>
    BY PathSpelt DEF NodesHangFromNodes
  <2>2. 1 \in DOMAIN a
    BY <2>1, LenProperties, EmptySeq
  <2>3. PathOf(a)[1].name \in Names
    BY <2>2, PathSpelt
  <2>4. Elsewhere[1].name = None
    BY DEF Elsewhere, Label
  <2> QED
    BY <2>3, <2>4, Bounds
<1>2. Elsewhere \in Seq(Labels)
  <2>1. Label(None, FALSE) \in Labels
    BY DEF Label, Labels
  <2> QED
    BY <2>1, OneName DEF Elsewhere
<1>3. ValuesOn(Elsewhere) = {}
  BY DEF ValuesOn, Elsewhere, Label
<1>4. \A a \in Executable : PathOf(a) \in Seq(Labels) /\ PathOf(a) # Elsewhere
  BY <1>1, PathSpelt DEF Executable
<1> QED
  BY <1>2, <1>3, <1>4 DEF Paths

-----------------------------------------------------------------------------
(* Declaring *)

\* A new node, or one that is there, and what is said of it: the others stand.
Grows(a) ==
  /\ DOMAIN nodes' = DOMAIN nodes \cup {a}
  /\ \A x \in DOMAIN nodes : /\ nodes'[x].argument = nodes[x].argument
                             /\ nodes'[x].runs = nodes[x].runs
  /\ a \notin DOMAIN nodes => nodes'[a].runs = FALSE

\* a hangs from the root or from a node.
HangsFrom(a, name) == a = <<name>> \/ \E b \in DOMAIN nodes : a = Append(b, name)

LEMMA Hung ==
  ASSUME TypeOK, NodesHangFromNodes, NEW name \in Names, NEW a, HangsFrom(a, name)
  PROVE  /\ a \in Seq(Names) /\ a # <<>>
         /\ \A i \in DOMAIN a : SubSeq(a, 1, i) \in DOMAIN nodes \cup {a}
<1>1. CASE a = <<name>>
  <2>1. /\ a \in Seq(Names) /\ a # <<>> /\ DOMAIN a = {1} /\ SubSeq(a, 1, 1) = a
    BY <1>1, OneName
  <2> QED
    BY <2>1
<1>2. CASE \E b \in DOMAIN nodes : a = Append(b, name)
  <2>1. PICK b \in DOMAIN nodes : a = Append(b, name)
    BY <1>2
  <2>2. b \in Seq(Names)
    BY DEF TypeOK
  <2>3. /\ a \in Seq(Names) /\ a # <<>> /\ Len(b) \in Nat /\ DOMAIN b = 1..Len(b)
        /\ DOMAIN a = 1..(Len(b) + 1)
        /\ \A i \in DOMAIN b : SubSeq(a, 1, i) = SubSeq(b, 1, i)
        /\ SubSeq(a, 1, Len(b) + 1) = a
    BY <2>1, <2>2, AboveAppended
  <2>4. \A i \in DOMAIN b : SubSeq(b, 1, i) \in DOMAIN nodes
    BY DEF NodesHangFromNodes
  <2>5. \A i \in DOMAIN a : i \in DOMAIN b \/ i = Len(b) + 1
    BY <2>3
  <2> QED
    BY <2>3, <2>4, <2>5
<1> QED
  BY <1>1, <1>2 DEF HangsFrom

\* No call makes a name of a value or a value of a name.
LEMMA SpellingStands ==
  ASSUME NodesHangFromNodes,
         \A x \in DOMAIN nodes : nodes'[x].argument = nodes[x].argument
  PROVE  \A x \in DOMAIN nodes : PathOf(x)' = PathOf(x)
<1> SUFFICES ASSUME NEW x \in DOMAIN nodes PROVE PathOf(x)' = PathOf(x)
  OBVIOUS
<1>1. \A i \in DOMAIN x : nodes'[SubSeq(x, 1, i)].argument = nodes[SubSeq(x, 1, i)].argument
  BY DEF NodesHangFromNodes
<1> QED
  BY <1>1 DEF PathOf

\* The tree grows, and what was spelled before is spelled the same.
LEMMA Grown ==
  ASSUME TypeOK, NodesHangFromNodes, NEW name \in Names, NEW a, HangsFrom(a, name), Grows(a)
  PROVE  /\ NodesHangFromNodes'
         /\ \A x \in DOMAIN nodes : PathOf(x)' = PathOf(x)
         /\ Paths' = Paths
<1>1. NodesHangFromNodes'
  BY Hung DEF Grows, NodesHangFromNodes
<1>2. \A x \in DOMAIN nodes : PathOf(x)' = PathOf(x)
  BY SpellingStands DEF Grows
<1>3. Executable' = Executable
  <2>1. \A x : x \in DOMAIN nodes' /\ nodes'[x].runs <=> x \in DOMAIN nodes /\ nodes[x].runs
    <3>1. CASE a \in DOMAIN nodes
      BY <3>1 DEF Grows
    <3>2. CASE a \notin DOMAIN nodes
      BY <3>2 DEF Grows
    <3> QED
      BY <3>1, <3>2
  <2> QED
    BY <2>1 DEF Executable
<1>4. Paths' = Paths
  <2>1. \A x \in Executable : PathOf(x)' = PathOf(x)
    BY <1>2 DEF Executable
  <2> QED
    BY <1>3, <2>1 DEF Paths
<1> QED
  BY <1>1, <1>2, <1>4

\* A builder that goes one name further spells the node it is handed out for.
LEMMA SpeltOn ==
  ASSUME TypeOK, NodesHangFromNodes, NEW name \in Names, NEW a, NEW argument \in BOOLEAN, Grows(a),
         nodes'[a].argument = argument,
         NEW path,
         \/ a = <<name>> /\ path = <<Label(name, argument)>>
         \/ \E b \in DOMAIN nodes : /\ a = Append(b, name)
                                    /\ path = Append(PathOf(b), Label(name, argument))
  PROVE  path = PathOf(a)'
<1>0. HangsFrom(a, name)
  BY DEF HangsFrom
<1>1. CASE a = <<name>> /\ path = <<Label(name, argument)>>
  <2>1. /\ DOMAIN a = {1} /\ a[1] = name /\ SubSeq(a, 1, 1) = a
    BY <1>1, OneName
  <2>2. DOMAIN PathOf(a)' = {1} /\ PathOf(a)'[1] = Label(name, argument)
    BY <2>1 DEF PathOf
  <2>3. PathOf(a)' = [i \in 1..1 |-> PathOf(a)'[i]]
    BY <2>1 DEF PathOf
  <2>4. DOMAIN path = {1} /\ path[1] = Label(name, argument) /\ path = [i \in 1..1 |-> path[i]]
    BY <1>1
  <2> QED
    BY <2>2, <2>3, <2>4
<1>2. CASE \E b \in DOMAIN nodes : /\ a = Append(b, name)
                                   /\ path = Append(PathOf(b), Label(name, argument))
  <2>1. PICK b \in DOMAIN nodes : a = Append(b, name) /\ path = Append(PathOf(b), Label(name, argument))
    BY <1>2
  <2>2. PathOf(b)' = PathOf(b) /\ PathOf(b) \in Seq(Labels) /\ Len(PathOf(b)) = Len(b)
        /\ DOMAIN PathOf(b) = DOMAIN b /\ b \in Seq(Names)
    BY <1>0, Grown, PathSpelt
  <2>3. /\ DOMAIN b = 1..Len(b) /\ Len(b) \in Nat
        /\ DOMAIN a = 1..(Len(b) + 1) /\ a[Len(b) + 1] = name
        /\ \A i \in DOMAIN b : a[i] = b[i] /\ SubSeq(a, 1, i) = SubSeq(b, 1, i)
        /\ SubSeq(a, 1, Len(b) + 1) = a
    BY <2>1, <2>2, AboveAppended
  <2>4. Label(name, argument) \in Labels
    BY DEF Label, Labels
  <2>5. /\ DOMAIN path = 1..(Len(b) + 1)
        /\ \A i \in DOMAIN b : path[i] = PathOf(b)[i]
        /\ path[Len(b) + 1] = Label(name, argument)
        /\ path \in Seq(Labels)
    BY <2>1, <2>2, <2>4, AboveAppended
  <2>6. /\ DOMAIN PathOf(a)' = DOMAIN a
        /\ \A i \in DOMAIN a : PathOf(a)'[i] = Label(a[i], nodes'[SubSeq(a, 1, i)].argument)
    BY DEF PathOf
  <2>7. \A i \in DOMAIN b : PathOf(b)'[i] = Label(b[i], nodes'[SubSeq(b, 1, i)].argument)
    BY DEF PathOf
  <2>8. \A i \in DOMAIN a : path[i] = PathOf(a)'[i]
    <3> SUFFICES ASSUME NEW i \in DOMAIN a PROVE path[i] = PathOf(a)'[i]
      OBVIOUS
    <3>1. CASE i \in DOMAIN b
      BY <2>2, <2>3, <2>5, <2>6, <2>7, <3>1
    <3>2. CASE i = Len(b) + 1
      BY <2>3, <2>5, <2>6, <3>2
    <3> QED
      BY <2>3, <3>1, <3>2
  <2>9. path = [i \in 1..(Len(b) + 1) |-> path[i]]
    BY <2>5, LenProperties
  <2>10. PathOf(a)' = [i \in 1..(Len(b) + 1) |-> PathOf(a)'[i]]
    BY <2>3 DEF PathOf
  <2> QED
    BY <2>3, <2>8, <2>9, <2>10
<1> QED
  BY <1>1, <1>2

\* While the set is declared nothing is loaded, and the load keeps what it has.
LEMMA NothingLoads ==
  ASSUME IInv, phase = "declaring", phase' = phase, UNCHANGED loaded
  PROVE  Loading'
<1>1. registry' = <<>> /\ invocation' = None
  BY DEF IInv, Loading, NothingLoadedYet, loaded
<1>2. LoadBindsEverything' /\ LinesReachTheirHandler' /\ HandlersReadWhatWasTyped'
  BY <1>1 DEF LoadBindsEverything, LinesReachTheirHandler, HandlersReadWhatWasTyped
<1>3. NothingLoadedYet' /\ BoundToTheirOwn'
  BY <1>1 DEF NothingLoadedYet, BoundToTheirOwn
<1> QED
  BY <1>2, <1>3 DEF Loading

\* The declaration is over, or a call was a mistake and did nothing.
LEMMA TreeStands ==
  ASSUME IInv, UNCHANGED <<nodes, builders, handlers, said>>, failed' = failed \/ failed' = TRUE
  PROVE  Tree'
<1>1. NodesHangFromNodes' /\ ValuesHaveTypes' /\ Sayings'
  BY DEF IInv, Tree, NodesHangFromNodes, ValuesHaveTypes, Sayings
<1>2. Paths' = Paths /\ \A a : PathOf(a)' = PathOf(a)
  BY DEF Paths, Executable, PathOf
<1>3. BuildersSpellTheirNodes' /\ DeclaredPathsAreIndexed' /\ DeclarationsStand'
  BY <1>2 DEF IInv, Tree, BuildersSpellTheirNodes, DeclaredPathsAreIndexed, DeclarationsStand
<1> QED
  BY <1>1, <1>3 DEF Tree

\* A call that hands out a builder: of the first name, or of one name further.
FirstName(a, path, name, argument) == a = <<name>> /\ path = <<Label(name, argument)>>
Further(a, path, name, argument) ==
  \E b \in builders : a = Append(b.at, name) /\ path = Append(b.path, Label(name, argument))

LEMMA HandedOut ==
  ASSUME IInv, NEW name \in Names, NEW argument \in BOOLEAN, NEW a, NEW path,
         FirstName(a, path, name, argument) \/ Further(a, path, name, argument),
         Grows(a), HandOut(a, path), UNCHANGED handlers,
         ~failed' => ~failed /\ nodes'[a].argument = argument
  PROVE  /\ HangsFrom(a, name) /\ a \in Seq(Names) /\ path \in Seq(Labels)
         /\ NodesHangFromNodes' /\ BuildersSpellTheirNodes' /\ DeclaredPathsAreIndexed'
<1>0. TypeOK /\ NodesHangFromNodes /\ BuildersSpellTheirNodes /\ DeclaredPathsAreIndexed
  BY DEF IInv, Tree
<1>1. HangsFrom(a, name)
  BY <1>0 DEF HangsFrom, FirstName, Further, TypeOK
<1>2. a \in Seq(Names)
  BY <1>0, <1>1, Hung
<1>3. Label(name, argument) \in Labels
  BY DEF Label, Labels
<1>4. path \in Seq(Labels)
  <2>1. CASE FirstName(a, path, name, argument)
    BY <1>3, <2>1, OneName DEF FirstName
  <2>2. CASE Further(a, path, name, argument)
    <3>1. PICK b \in builders : path = Append(b.path, Label(name, argument))
      BY <2>2 DEF Further
    <3>2. b.path \in Seq(Labels)
      BY <1>0 DEF TypeOK
    <3> QED
      BY <1>3, <3>1, <3>2, AppendProperties
  <2> QED
    BY <2>1, <2>2
<1>5. /\ NodesHangFromNodes' /\ Paths' = Paths
      /\ \A x \in DOMAIN nodes : PathOf(x)' = PathOf(x)
  BY <1>0, <1>1, Grown
<1>6. DeclaredPathsAreIndexed'
  BY <1>0, <1>5 DEF DeclaredPathsAreIndexed
<1>7. ASSUME ~failed' PROVE path = PathOf(a)' /\ \A b \in builders : b.path = PathOf(b.at)'
  <2>1. \A b \in builders : b.path = PathOf(b.at) /\ b.at \in DOMAIN nodes
    BY <1>0, <1>7 DEF BuildersSpellTheirNodes, TypeOK
  <2>2. \/ a = <<name>> /\ path = <<Label(name, argument)>>
        \/ \E b \in DOMAIN nodes : a = Append(b, name) /\ path = Append(PathOf(b), Label(name, argument))
    BY <2>1 DEF FirstName, Further
  <2>3. path = PathOf(a)'
    BY <1>0, <1>7, <2>2, SpeltOn
  <2>4. \A b \in builders : PathOf(b.at)' = PathOf(b.at)
    BY <1>5, <2>1
  <2> QED
    BY <2>1, <2>3, <2>4
<1>8. BuildersSpellTheirNodes'
  <2>1. ASSUME ~failed', NEW b \in builders' PROVE b.path = PathOf(b.at)'
    <3>1. CASE b \in builders
      BY <1>7, <2>1, <3>1
    <3>2. CASE b = [at |-> a, path |-> path]
      BY <1>7, <2>1, <3>2
    <3> QED
      BY <2>1, <3>1, <3>2 DEF HandOut
  <2> QED
    BY <2>1 DEF BuildersSpellTheirNodes
<1> QED
  BY <1>1, <1>2, <1>4, <1>5, <1>6, <1>8

\* The child a name or a value has, made or found.
LEMMA Child ==
  ASSUME TypeOK, NEW a, NEW argument \in BOOLEAN
  PROVE  LET child == WithChild(a, argument)
         IN  /\ DOMAIN child = DOMAIN nodes \cup {a}
             /\ \A x \in DOMAIN nodes : child[x] = nodes[x]
             /\ \A x \in DOMAIN child : child[x] \in Nodes
             /\ a \notin DOMAIN nodes => child[a].argument = argument /\ child[a].runs = FALSE
<1>1. /\ NewNode(argument) \in Nodes
      /\ NewNode(argument).argument = argument /\ NewNode(argument).runs = FALSE
  BY DEF NewNode, Nodes
<1> QED
  BY <1>1 DEF WithChild, TypeOK

\* What Command and Sub do to the tree, whoever calls.
LEMMA Named ==
  ASSUME IInv, NEW name \in Names, NEW a, NEW path,
         FirstName(a, path, name, FALSE) \/ Further(a, path, name, FALSE),
         Declaring, nodes' = WithChild(a, FALSE), failed' = (failed \/ Clashes(a, FALSE)),
         HandOut(a, path), UNCHANGED <<phase, handlers, said, loaded>>
  PROVE  IInv'
<1>0. TypeOK /\ Tree
  BY DEF IInv
<1>1. /\ DOMAIN nodes' = DOMAIN nodes \cup {a}
      /\ \A x \in DOMAIN nodes : nodes'[x] = nodes[x]
      /\ \A x \in DOMAIN nodes' : nodes'[x] \in Nodes
      /\ a \notin DOMAIN nodes => nodes'[a].argument = FALSE /\ nodes'[a].runs = FALSE
  BY <1>0, Child
<1>2. Grows(a)
  BY <1>1 DEF Grows
<1>3. ~failed' => ~failed /\ nodes'[a].argument = FALSE
  BY <1>0, <1>1 DEF Clashes, TypeOK, Nodes
<1>4. /\ a \in Seq(Names) /\ path \in Seq(Labels)
      /\ NodesHangFromNodes' /\ BuildersSpellTheirNodes' /\ DeclaredPathsAreIndexed'
  BY <1>2, <1>3, HandedOut
<1>5. TypeOK'
  <2>1. phase' \in {"declaring"} /\ calls' \in 0..MaxCalls
    BY <1>0, Bounds DEF Declaring, TypeOK
  <2>2. DOMAIN nodes' \subseteq Seq(Names) /\ \A x \in DOMAIN nodes' : nodes'[x] \in Nodes
    BY <1>0, <1>1, <1>4 DEF TypeOK
  <2>3. \A b \in builders' : b.at \in DOMAIN nodes' /\ b.path \in Seq(Labels)
    <3>1. \A b \in builders : b.at \in DOMAIN nodes /\ b.path \in Seq(Labels)
      BY <1>0 DEF TypeOK
    <3>2. \A b \in builders' : b \in builders \/ b = [at |-> a, path |-> path]
      BY DEF HandOut
    <3>3. \A b \in builders' : b \in builders \/ (b.at = a /\ b.path = path)
      BY <3>2
    <3> QED
      BY <1>1, <1>4, <3>1, <3>3
  <2>4. failed' \in BOOLEAN
    BY <1>0 DEF TypeOK
  <2>5. \A s \in said' : s.of \in DOMAIN nodes'
    BY <1>0, <1>1 DEF TypeOK
  <2> QED
    BY <1>0, <2>1, <2>2, <2>3, <2>4, <2>5 DEF TypeOK, loaded, tree
<1>6. ValuesHaveTypes' /\ Sayings'
  BY <1>0, <1>1 DEF Tree, ValuesHaveTypes, Sayings
<1>7. DeclarationsStand'
  <2>1. \A s \in said : s.of \in DOMAIN nodes
    BY <1>0 DEF TypeOK
  <2> QED
    BY <1>0, <1>1, <1>3, <2>1 DEF Tree, DeclarationsStand
<1>8. Loading'
  BY NothingLoads DEF Declaring
<1> QED
  BY <1>4, <1>5, <1>6, <1>7, <1>8 DEF IInv, Tree

LEMMA CommandStep == ASSUME IInv, NEW name \in Names, Command(name) PROVE IInv'
<1>1. FirstName(<<name>>, <<Label(name, FALSE)>>, name, FALSE)
  BY DEF FirstName
<1> QED
  BY <1>1, Named DEF Command

LEMMA SubStep == ASSUME IInv, NEW b \in builders, NEW name \in Names, Sub(b, name) PROVE IInv'
<1>1. Further(Append(b.at, name), Append(b.path, Label(name, FALSE)), name, FALSE)
  BY DEF Further
<1> QED
  BY <1>1, Named DEF Sub

LEMMA ArgumentStep ==
  ASSUME IInv, NEW b \in builders, NEW name \in Names, NEW type \in Types,
         NEW choice \in Options \cup {None}, Argument(b, name, type, choice)
  PROVE  IInv'
<1> DEFINE a == Append(b.at, name)
           path == Append(b.path, Label(name, TRUE))
           child == WithChild(a, TRUE)
<1>0. TypeOK /\ Tree /\ Declaring
  BY DEF IInv, Argument
<1>a. /\ nodes' = [child EXCEPT ![a].type = type, ![a].choice = IF choice = None THEN @ ELSE choice]
      /\ failed' = (failed \/ Clashes(a, TRUE) \/ child[a].type \notin {None, type}
                      \/ (type = "choice" /\ choice = None))
      /\ HandOut(a, path)
      /\ said' = said \cup {[of |-> a, what |-> "type", is |-> type]}
      /\ UNCHANGED <<phase, handlers, loaded>>
  BY DEF Argument
<1>1. /\ DOMAIN child = DOMAIN nodes \cup {a}
      /\ \A x \in DOMAIN nodes : child[x] = nodes[x]
      /\ \A x \in DOMAIN child : child[x] \in Nodes
      /\ a \notin DOMAIN nodes => child[a].argument = TRUE /\ child[a].runs = FALSE
  BY <1>0, Child
<1>2. /\ DOMAIN nodes' = DOMAIN child
      /\ \A x \in DOMAIN child : x # a => nodes'[x] = child[x]
      /\ nodes'[a].type = type /\ nodes'[a].argument = child[a].argument
      /\ nodes'[a].permission = child[a].permission /\ nodes'[a].runs = child[a].runs
      /\ nodes'[a] \in Nodes
  <2>1. child[a] \in Nodes /\ a \in DOMAIN child
    BY <1>1
  <2> HIDE DEF child, a
  <2>2. /\ DOMAIN nodes' = DOMAIN child
        /\ \A x \in DOMAIN child : x # a => nodes'[x] = child[x]
    BY <1>a
  <2>3. nodes'[a] = [child[a] EXCEPT !.type = type,
                                     !.choice = IF choice = None THEN child[a].choice ELSE choice]
    BY <1>a, <2>1 DEF Nodes
  <2> QED
    BY <2>1, <2>2, <2>3 DEF Nodes
<1> HIDE DEF child
<1>b. /\ DOMAIN nodes' = DOMAIN nodes \cup {a}
      /\ \A x \in DOMAIN nodes : x # a => nodes'[x] = nodes[x]
      /\ \A x \in DOMAIN nodes' : nodes'[x] \in Nodes
      /\ nodes'[a].type = type
      /\ a \in DOMAIN nodes => /\ nodes'[a].argument = nodes[a].argument
                               /\ nodes'[a].permission = nodes[a].permission
                               /\ nodes'[a].runs = nodes[a].runs
      /\ a \notin DOMAIN nodes => nodes'[a].argument = TRUE /\ nodes'[a].runs = FALSE
  BY <1>1, <1>2
<1>c. ~failed' => /\ ~failed /\ nodes'[a].argument = TRUE
                  /\ a \in DOMAIN nodes => nodes[a].type \in {None, type}
  BY <1>0, <1>1, <1>a, <1>b DEF Clashes, TypeOK, Nodes
<1>d. Further(a, path, name, TRUE)
  BY DEF Further
<1> HIDE DEF a, path
<1>3. Grows(a)
  BY <1>b DEF Grows
<1>4. /\ a \in Seq(Names) /\ path \in Seq(Labels)
      /\ NodesHangFromNodes' /\ BuildersSpellTheirNodes' /\ DeclaredPathsAreIndexed'
  BY <1>3, <1>a, <1>c, <1>d, HandedOut
<1>5. TypeOK'
  <2>1. phase' \in {"declaring"} /\ calls' \in 0..MaxCalls
    BY <1>0, <1>a, Bounds DEF Declaring, TypeOK
  <2>2. DOMAIN nodes' \subseteq Seq(Names) /\ \A x \in DOMAIN nodes' : nodes'[x] \in Nodes
    BY <1>0, <1>4, <1>b DEF TypeOK
  <2>3. \A h \in builders' : h.at \in DOMAIN nodes' /\ h.path \in Seq(Labels)
    BY <1>0, <1>4, <1>a, <1>b DEF HandOut, TypeOK
  <2>4. failed' \in BOOLEAN
    BY <1>0, <1>a DEF TypeOK
  <2>5. \A s \in said' : s.of \in DOMAIN nodes'
    BY <1>0, <1>a, <1>b DEF TypeOK
  <2>6. UNCHANGED <<handlers, bundle, types, drifted, registry, invocation>>
    BY <1>a DEF loaded, tree
  <2> QED
    BY <1>0, <2>1, <2>2, <2>3, <2>4, <2>5, <2>6 DEF TypeOK
<1>6. ValuesHaveTypes'
  <2>1. \A x \in DOMAIN nodes : nodes[x].argument => nodes[x].type \in Types
    BY <1>0 DEF Tree, ValuesHaveTypes
  <2> QED
    BY <1>b, <2>1 DEF ValuesHaveTypes
<1>7. Sayings'
  BY <1>0, <1>a DEF Tree, Sayings
<1>8. DeclarationsStand'
  <2> SUFFICES ASSUME ~failed', NEW s \in said' PROVE nodes'[s.of][s.what] = s.is
    BY DEF DeclarationsStand
  <2>1. CASE s = [of |-> a, what |-> "type", is |-> type]
    BY <1>b, <2>1
  <2>2. CASE s \in said
    <3>1. nodes[s.of][s.what] = s.is /\ s.of \in DOMAIN nodes
      BY <1>0, <1>c, <2>2 DEF Tree, DeclarationsStand, TypeOK
    <3>2. CASE s.of # a
      BY <1>b, <3>1, <3>2
    <3>3. CASE s.of = a /\ s.what = "type"
      <4>1. nodes[a].type = s.is /\ s.is \in Types
        BY <1>0, <2>2, <3>1, <3>3 DEF Tree, Sayings
      <4>2. s.is = type
        BY <1>c, <3>1, <3>3, <4>1, Bounds
      <4> QED
        BY <1>b, <3>3, <4>2
    <3>4. CASE s.of = a /\ s.what = "permission"
      BY <1>b, <3>1, <3>4
    <3> QED
      BY <1>0, <2>2, <3>2, <3>3, <3>4 DEF Tree, Sayings
  <2> QED
    BY <1>a, <2>1, <2>2
<1>9. Loading'
  BY <1>0, <1>a, NothingLoads DEF Declaring
<1> QED
  BY <1>4, <1>5, <1>6, <1>7, <1>8, <1>9 DEF IInv, Tree

LEMMA PermissionStep ==
  ASSUME IInv, NEW b \in builders, NEW permission \in Permissions, Permission(b, permission)
  PROVE  IInv'
<1>0. TypeOK /\ Tree /\ Declaring /\ b.at \in DOMAIN nodes
  BY DEF IInv, Permission, TypeOK
<1>1. UNCHANGED <<phase, builders, handlers>> /\ UNCHANGED loaded
  BY DEF Permission
<1>2. phase' = phase /\ phase = "declaring" /\ calls' \in 0..MaxCalls
  BY <1>0, <1>1, Bounds DEF Declaring, TypeOK
<1>3. Loading'
  BY <1>1, <1>2, NothingLoads
<1>4. CASE nodes[b.at].argument
  <2>1. UNCHANGED <<nodes, said>> /\ failed' = TRUE
    BY <1>4 DEF Permission
  <2>2. Tree'
    BY <1>1, <2>1, TreeStands
  <2>3. TypeOK'
    BY <1>0, <1>1, <1>2, <2>1 DEF TypeOK, loaded, tree
  <2> QED
    BY <1>3, <2>2, <2>3 DEF IInv
<1>5. CASE ~nodes[b.at].argument
  <2> DEFINE a == b.at
  <2>1. /\ failed' = (failed \/ nodes[a].permission \notin {None, permission})
        /\ nodes' = [nodes EXCEPT ![a].permission = permission]
        /\ said' = said \cup {[of |-> a, what |-> "permission", is |-> permission]}
    BY <1>5 DEF Permission
  <2>2. a \in DOMAIN nodes /\ nodes[a] \in Nodes /\ failed \in BOOLEAN
    BY <1>0 DEF TypeOK
  <2> HIDE DEF a
  <2>3. /\ DOMAIN nodes' = DOMAIN nodes
        /\ \A x \in DOMAIN nodes : x # a => nodes'[x] = nodes[x]
        /\ nodes'[a].permission = permission /\ nodes'[a].argument = nodes[a].argument
        /\ nodes'[a].type = nodes[a].type /\ nodes'[a].runs = nodes[a].runs
        /\ nodes'[a] \in Nodes
    BY <2>1, <2>2 DEF Nodes
  <2>4. ~failed' => ~failed /\ nodes[a].permission \in {None, permission}
    BY <2>1, <2>2
  <2>5. TypeOK'
    <3>1. DOMAIN nodes' \subseteq Seq(Names) /\ \A x \in DOMAIN nodes' : nodes'[x] \in Nodes
      BY <1>0, <2>3 DEF TypeOK
    <3>2. \A s \in said' : s.of \in DOMAIN nodes'
      BY <1>0, <2>1, <2>2, <2>3 DEF TypeOK
    <3>3. \A h \in builders' : h.at \in DOMAIN nodes' /\ h.path \in Seq(Labels)
      BY <1>0, <1>1, <2>3 DEF TypeOK
    <3>4. failed' \in BOOLEAN
      BY <2>1, <2>2
    <3>5. UNCHANGED <<bundle, types, drifted, registry, invocation>>
      BY <1>1 DEF loaded, tree
    <3> QED
      BY <1>0, <1>1, <1>2, <3>1, <3>2, <3>3, <3>4, <3>5 DEF TypeOK
  <2>6. NodesHangFromNodes' /\ ValuesHaveTypes'
    BY <1>0, <2>3 DEF Tree, NodesHangFromNodes, ValuesHaveTypes
  <2>7. Sayings'
    BY <1>0, <2>1 DEF Tree, Sayings
  <2>8. /\ \A x \in DOMAIN nodes : PathOf(x)' = PathOf(x)
        /\ Paths' = Paths
    <3>1. \A x \in DOMAIN nodes : nodes'[x].argument = nodes[x].argument /\ nodes'[x].runs = nodes[x].runs
      BY <2>3
    <3>2. \A x \in DOMAIN nodes : PathOf(x)' = PathOf(x)
      BY <1>0, <3>1, SpellingStands DEF Tree
    <3>3. Executable' = Executable
      BY <2>3, <3>1 DEF Executable
    <3>4. \A x \in Executable : PathOf(x)' = PathOf(x)
      BY <3>2 DEF Executable
    <3> QED
      BY <3>2, <3>3, <3>4 DEF Paths
  <2>9. BuildersSpellTheirNodes' /\ DeclaredPathsAreIndexed'
    BY <1>0, <1>1, <2>4, <2>8
       DEF Tree, TypeOK, BuildersSpellTheirNodes, DeclaredPathsAreIndexed
  <2>10. DeclarationsStand'
    <3> SUFFICES ASSUME ~failed', NEW s \in said' PROVE nodes'[s.of][s.what] = s.is
      BY DEF DeclarationsStand
    <3>1. CASE s = [of |-> a, what |-> "permission", is |-> permission]
      BY <2>3, <3>1
    <3>2. CASE s \in said
      <4>1. nodes[s.of][s.what] = s.is /\ s.of \in DOMAIN nodes
        BY <1>0, <2>4, <3>2 DEF Tree, DeclarationsStand, TypeOK
      <4>2. CASE s.of # a
        BY <2>3, <4>1, <4>2
      <4>3. CASE s.of = a /\ s.what = "permission"
        <5>1. nodes[a].permission = s.is /\ s.is \in Permissions
          BY <1>0, <3>2, <4>1, <4>3 DEF Tree, Sayings
        <5>2. s.is = permission
          BY <2>4, <5>1, Bounds
        <5> QED
          BY <2>3, <4>3, <5>2
      <4>4. CASE s.of = a /\ s.what = "type"
        BY <2>3, <4>1, <4>4
      <4> QED
        BY <1>0, <3>2, <4>2, <4>3, <4>4 DEF Tree, Sayings
    <3> QED
      BY <2>1, <3>1, <3>2
  <2> QED
    BY <1>3, <2>5, <2>6, <2>7, <2>9, <2>10 DEF IInv, Tree
<1> QED
  BY <1>4, <1>5

LEMMA RunsStep == ASSUME IInv, NEW b \in builders, Runs(b) PROVE IInv'
<1>0. TypeOK /\ Tree /\ Declaring /\ b.at \in DOMAIN nodes /\ b.path \in Seq(Labels)
  BY DEF IInv, Runs, TypeOK
<1>1. UNCHANGED <<phase, builders, said>> /\ UNCHANGED loaded
  BY DEF Runs
<1>2. phase' = phase /\ phase = "declaring" /\ calls' \in 0..MaxCalls /\ calls + 1 \in 1..MaxCalls
  BY <1>0, <1>1, Bounds DEF Declaring, TypeOK
<1>3. Loading'
  BY <1>1, <1>2, NothingLoads
<1>4. CASE b.path \in DOMAIN handlers
  <2>1. UNCHANGED <<nodes, handlers>> /\ failed' = TRUE
    BY <1>4 DEF Runs
  <2>2. Tree'
    BY <1>1, <2>1, TreeStands
  <2>3. TypeOK'
    BY <1>0, <1>1, <1>2, <2>1 DEF TypeOK, loaded, tree
  <2> QED
    BY <1>3, <2>2, <2>3 DEF IInv
<1>5. CASE b.path \notin DOMAIN handlers
  <2> DEFINE a == b.at
  <2>1. /\ nodes' = [nodes EXCEPT ![a].runs = TRUE]
        /\ handlers' = [p \in DOMAIN handlers \cup {b.path} |->
                          IF p = b.path THEN calls + 1 ELSE handlers[p]]
        /\ failed' = failed
    BY <1>5 DEF Runs
  <2>2. a \in DOMAIN nodes /\ nodes[a] \in Nodes
    BY <1>0 DEF TypeOK
  <2> HIDE DEF a
  <2>3. /\ DOMAIN nodes' = DOMAIN nodes
        /\ \A x \in DOMAIN nodes : x # a => nodes'[x] = nodes[x]
        /\ nodes'[a].permission = nodes[a].permission /\ nodes'[a].argument = nodes[a].argument
        /\ nodes'[a].type = nodes[a].type /\ nodes'[a].runs = TRUE
        /\ nodes'[a] \in Nodes
    BY <2>1, <2>2 DEF Nodes
  <2>4. /\ DOMAIN handlers' = DOMAIN handlers \cup {b.path}
        /\ \A p \in DOMAIN handlers' : p \in Seq(Labels) /\ handlers'[p] \in 1..MaxCalls
    BY <1>0, <1>2, <2>1 DEF TypeOK
  <2>5. TypeOK'
    <3>1. DOMAIN nodes' \subseteq Seq(Names) /\ \A x \in DOMAIN nodes' : nodes'[x] \in Nodes
      BY <1>0, <2>3 DEF TypeOK
    <3>2. \A s \in said' : s.of \in DOMAIN nodes'
      BY <1>0, <1>1, <2>3 DEF TypeOK
    <3>3. \A h \in builders' : h.at \in DOMAIN nodes' /\ h.path \in Seq(Labels)
      BY <1>0, <1>1, <2>3 DEF TypeOK
    <3>4. UNCHANGED <<bundle, types, drifted, registry, invocation>>
      BY <1>1 DEF loaded, tree
    <3> QED
      BY <1>0, <1>1, <1>2, <2>1, <2>4, <3>1, <3>2, <3>3, <3>4 DEF TypeOK
  <2>6. NodesHangFromNodes' /\ ValuesHaveTypes' /\ Sayings'
    BY <1>0, <1>1, <2>3 DEF Tree, NodesHangFromNodes, ValuesHaveTypes, Sayings
  <2>7. \A x \in DOMAIN nodes : PathOf(x)' = PathOf(x)
    <3>1. \A x \in DOMAIN nodes : nodes'[x].argument = nodes[x].argument
      BY <2>3
    <3> QED
      BY <1>0, <3>1, SpellingStands DEF Tree
  <2>8. BuildersSpellTheirNodes'
    BY <1>0, <1>1, <2>1, <2>7 DEF Tree, TypeOK, BuildersSpellTheirNodes
  <2>9. DeclaredPathsAreIndexed'
    <3> SUFFICES ASSUME ~failed' PROVE DOMAIN handlers' = Paths'
      BY DEF DeclaredPathsAreIndexed
    <3>1. b.path = PathOf(a) /\ DOMAIN handlers = Paths
      BY <1>0, <2>1 DEF Tree, BuildersSpellTheirNodes, DeclaredPathsAreIndexed, a
    <3>2. Executable' = Executable \cup {a}
      BY <2>2, <2>3 DEF Executable
    <3>3. \A x \in Executable' : PathOf(x)' = PathOf(x)
      BY <2>3, <2>7 DEF Executable
    <3>4. Paths' = {PathOf(x) : x \in Executable \cup {a}}
      BY <3>2, <3>3 DEF Paths
    <3> QED
      BY <2>4, <3>1, <3>4 DEF Paths
  <2>10. DeclarationsStand'
    <3> SUFFICES ASSUME ~failed', NEW s \in said PROVE nodes'[s.of][s.what] = s.is
      BY <1>1 DEF DeclarationsStand
    <3>1. nodes[s.of][s.what] = s.is /\ s.of \in DOMAIN nodes
      BY <1>0, <2>1 DEF Tree, DeclarationsStand, TypeOK
    <3>2. s.what \in {"type", "permission"}
      BY <1>0 DEF Tree, Sayings
    <3> QED
      BY <2>3, <3>1, <3>2
  <2> QED
    BY <1>3, <2>5, <2>6, <2>8, <2>9, <2>10 DEF IInv, Tree
<1> QED
  BY <1>4, <1>5

LEMMA MistakeStep == ASSUME IInv, Mistake PROVE IInv'
<1>1. TypeOK'
  BY Bounds DEF IInv, Mistake, Declaring, TypeOK, loaded, tree
<1>2. Tree'
  BY TreeStands DEF Mistake
<1>3. Loading'
  BY NothingLoads DEF Mistake, Declaring
<1> QED
  BY <1>1, <1>2, <1>3 DEF IInv

-----------------------------------------------------------------------------
(* Building and loading *)

LEMMA RefusedStep == ASSUME IInv, Refused PROVE IInv'
<1>0. TypeOK /\ Loading /\ UNCHANGED <<calls, nodes, builders, handlers, failed, said, bundle, types, drifted,
                                       registry, invocation>>
  BY DEF IInv, Refused, declaration, loaded, tree
<1>1. phase' = "refused" /\ (failed \/ ~Valid)
  BY DEF Refused
<1>2. TypeOK'
  BY <1>0, <1>1 DEF TypeOK
<1>3. Tree'
  BY <1>0, TreeStands
<1>4. NothingLoadedYet' /\ BoundToTheirOwn'
  BY <1>0, <1>1 DEF Loading, NothingLoadedYet, BoundToTheirOwn
<1>5. LoadBindsEverything'
  <2>1. Valid' <=> Valid
    BY <1>0 DEF Valid, Executable
  <2> QED
    BY <1>0, <1>1, <2>1 DEF LoadBindsEverything
<1>6. LinesReachTheirHandler' /\ HandlersReadWhatWasTyped'
  <2>1. invocation' = None
    BY <1>0 DEF Loading, NothingLoadedYet, Refused
  <2> QED
    BY <2>1 DEF LinesReachTheirHandler, HandlersReadWhatWasTyped
<1> QED
  BY <1>2, <1>3, <1>4, <1>5, <1>6 DEF IInv, Loading

\* Every value on a path the set declares has a type.
LEMMA DeclaredTypesType ==
  ASSUME TypeOK, Tree
  PROVE  /\ DOMAIN DeclaredTypes = Paths \cup {Elsewhere}
         /\ \A p \in DOMAIN DeclaredTypes : DeclaredTypes[p] \in [ValuesOn(p) -> Types]
         /\ DOMAIN AllChoices = Paths \cup {Elsewhere}
         /\ \A p \in DOMAIN AllChoices : AllChoices[p] \in [ValuesOn(p) -> Types]
<1>1. DOMAIN DeclaredTypes = Paths \cup {Elsewhere}
  BY DEF DeclaredTypes
<1>2. ASSUME NEW p \in Paths \cup {Elsewhere} PROVE DeclaredTypes[p] \in [ValuesOn(p) -> Types]
  <2>1. CASE p = Elsewhere
    <3>1. ValuesOn(p) = {}
      BY <2>1, ElsewhereIsNoPath DEF Tree
    <3>2. DeclaredTypes[p] = <<>>
      BY <2>1 DEF DeclaredTypes
    <3> QED
      BY <3>1, <3>2
  <2>2. CASE p # Elsewhere
    <3> DEFINE a == CHOOSE a \in Executable : PathOf(a) = p
    <3>1. \E x \in Executable : PathOf(x) = p
      BY <2>2 DEF Paths
    <3>2. a \in Executable /\ PathOf(a) = p
      BY <3>1
    <3>3. DeclaredTypes[p] = TypesTo(a)
      BY <2>2 DEF DeclaredTypes
    <3> HIDE DEF a
    <3>4. a \in DOMAIN nodes
      BY <3>2 DEF Executable
    <3>5. ASSUME NEW i \in ValuesOn(p) PROVE nodes[SubSeq(a, 1, i)].type \in Types
      <4>1. i \in DOMAIN PathOf(a) /\ PathOf(a)[i].argument
        BY <3>2, <3>5 DEF ValuesOn
      <4>2. i \in DOMAIN a /\ nodes[SubSeq(a, 1, i)].argument
        BY <3>4, <4>1, PathSpelt DEF Tree
      <4> QED
        BY <3>4, <4>2 DEF Tree, NodesHangFromNodes, ValuesHaveTypes
    <3> QED
      BY <3>2, <3>3, <3>5 DEF TypesTo
  <2> QED
    BY <2>1, <2>2
<1>3. DOMAIN AllChoices = Paths \cup {Elsewhere}
  BY <1>1 DEF AllChoices
<1>4. ASSUME NEW p \in Paths \cup {Elsewhere} PROVE AllChoices[p] \in [ValuesOn(p) -> Types]
  <2>1. DOMAIN DeclaredTypes[p] = ValuesOn(p)
    BY <1>2
  <2>2. AllChoices[p] = [i \in ValuesOn(p) |-> "choice"]
    BY <1>1, <2>1 DEF AllChoices
  <2> QED
    BY <2>2 DEF Types
<1> QED
  BY <1>1, <1>2, <1>3, <1>4

LEMMA BuildStep == ASSUME IInv, Build PROVE IInv'
<1>0. /\ TypeOK /\ Tree /\ Loading
      /\ phase = "declaring" /\ phase' = "binding"
      /\ UNCHANGED <<calls, nodes, builders, handlers, failed, said, registry, invocation>>
  BY DEF IInv, Build, declaration
<1>1. registry' = <<>> /\ invocation' = None
  BY <1>0 DEF Loading, NothingLoadedYet
<1>2. DOMAIN bundle' \subseteq Seq(Labels) /\ IsInjective(bundle')
  <2>1. PICK indexed \in {Paths, Paths \cup {Elsewhere}} \cup {Paths \ {p} : p \in Paths} :
               bundle' \in Injection(indexed, 1..Cardinality(indexed))
    BY DEF Build
  <2>2. indexed \subseteq Paths \cup {Elsewhere}
    BY <2>1
  <2>3. Paths \cup {Elsewhere} \subseteq Seq(Labels)
    BY <1>0, ElsewhereIsNoPath DEF Tree
  <2>4. DOMAIN bundle' = indexed /\ IsInjective(bundle')
    BY <2>1 DEF Injection
  <2> QED
    BY <2>2, <2>3, <2>4
<1>3. DOMAIN types' \subseteq Seq(Labels) /\ \A p \in DOMAIN types' : types'[p] \in [ValuesOn(p) -> Types]
  <2>1. types' = DeclaredTypes \/ types' = AllChoices
    BY DEF Build
  <2>2. Paths \cup {Elsewhere} \subseteq Seq(Labels)
    BY <1>0, ElsewhereIsNoPath DEF Tree
  <2> QED
    BY <1>0, <2>1, <2>2, DeclaredTypesType
<1>4. TypeOK'
  <2>1. DOMAIN registry' \subseteq Range(bundle')
    BY <1>1
  <2> QED
    BY <1>0, <1>1, <1>2, <1>3, <2>1 DEF TypeOK
<1>5. Tree'
  BY <1>0, TreeStands
<1>6. NothingLoadedYet' /\ BoundToTheirOwn'
  BY <1>0, <1>1 DEF NothingLoadedYet, BoundToTheirOwn
<1>7. LoadBindsEverything'
  BY <1>0 DEF LoadBindsEverything
<1>8. LinesReachTheirHandler' /\ HandlersReadWhatWasTyped'
  BY <1>1 DEF LinesReachTheirHandler, HandlersReadWhatWasTyped
<1> QED
  BY <1>4, <1>5, <1>6, <1>7, <1>8 DEF IInv, Loading

\* A declaration whose tree is not touched, and lines already typed.
LEMMA LinesStand ==
  ASSUME IInv, UNCHANGED <<nodes, handlers, types, invocation>>
  PROVE  LinesReachTheirHandler' /\ HandlersReadWhatWasTyped'
<1>1. LinesReachTheirHandler'
  BY DEF IInv, Loading, LinesReachTheirHandler
<1>2. DeclaredTypes' = DeclaredTypes
  BY DEF DeclaredTypes, Paths, Executable, PathOf, TypesTo
<1>3. HandlersReadWhatWasTyped'
  BY <1>2 DEF IInv, Loading, HandlersReadWhatWasTyped
<1> QED
  BY <1>1, <1>3

\* A path that was free gets its function; the others keep theirs.
LEMMA Registered ==
  ASSUME NEW p \in DOMAIN bundle, NEW f, Register(p, f)
  PROVE  /\ bundle[p] \notin DOMAIN registry
         /\ DOMAIN registry' = DOMAIN registry \cup {bundle[p]}
         /\ registry'[bundle[p]] = f
         /\ \A e \in DOMAIN registry : registry'[e] = registry[e]
BY DEF Register

LEMMA BindStep == ASSUME IInv, Bind PROVE IInv'
<1>0. /\ TypeOK /\ Tree /\ Loading /\ phase = "binding"
      /\ UNCHANGED <<calls, nodes, builders, handlers, failed, said, bundle, types, drifted, invocation>>
  BY DEF IInv, Bind, declaration, tree
<1>1. PICK p \in Unbound : IF p \in DOMAIN bundle
                           THEN Register(p, handlers[p]) /\ UNCHANGED phase
                           ELSE phase' = "refused" /\ UNCHANGED registry
  BY DEF Bind
<1>2. p \in DOMAIN handlers
  BY DEF Unbound
<1>3. Tree'
  BY <1>0, TreeStands
<1>4. LinesReachTheirHandler' /\ HandlersReadWhatWasTyped'
  BY <1>0, LinesStand
<1>5. CASE p \in DOMAIN bundle
  <2>1. /\ phase' = "binding"
        /\ DOMAIN registry' = DOMAIN registry \cup {bundle[p]}
        /\ registry'[bundle[p]] = handlers[p]
        /\ \A e \in DOMAIN registry : registry'[e] = registry[e]
    BY <1>0, <1>1, <1>5, Registered
  <2>2. TypeOK'
    <3>1. DOMAIN registry' \subseteq Range(bundle')
      BY <1>0, <1>5, <2>1 DEF TypeOK, Range
    <3> QED
      BY <1>0, <2>1, <3>1 DEF TypeOK
  <2>3. BoundToTheirOwn'
    <3>1. \A e \in DOMAIN registry' : registry'[e] \in 0..MaxCalls
      <4>1. handlers[p] \in 1..MaxCalls
        BY <1>0, <1>2 DEF TypeOK
      <4>2. \A e \in DOMAIN registry : registry[e] \in 0..MaxCalls
        BY <1>0 DEF Loading, BoundToTheirOwn
      <4> QED
        BY <2>1, <4>1, <4>2, Bounds
    <3>2. ASSUME NEW q \in DOMAIN handlers \cap DOMAIN bundle, bundle[q] \in DOMAIN registry'
          PROVE  registry'[bundle[q]] = handlers[q]
      <4>1. CASE q = p
        BY <2>1, <4>1
      <4>2. CASE q # p
        <5>1. bundle[q] # bundle[p]
          BY <1>0, <1>5, <4>2 DEF TypeOK, IsInjective
        <5>2. bundle[q] \in DOMAIN registry
          BY <2>1, <3>2, <5>1
        <5> QED
          BY <1>0, <2>1, <5>2 DEF Loading, BoundToTheirOwn
      <4> QED
        BY <4>1, <4>2
    <3> QED
      BY <1>0, <2>1, <3>1, <3>2 DEF BoundToTheirOwn
  <2>4. NothingLoadedYet' /\ LoadBindsEverything'
    BY <2>1 DEF NothingLoadedYet, LoadBindsEverything
  <2> QED
    BY <1>3, <1>4, <2>2, <2>3, <2>4 DEF IInv, Loading
<1>6. CASE p \notin DOMAIN bundle
  <2>1. phase' = "refused" /\ registry' = registry
    BY <1>1, <1>6
  <2>2. TypeOK'
    BY <1>0, <2>1 DEF TypeOK
  <2>3. NothingLoadedYet' /\ BoundToTheirOwn'
    BY <1>0, <2>1 DEF Loading, NothingLoadedYet, BoundToTheirOwn
  <2>4. LoadBindsEverything'
    BY <1>0, <1>2, <1>6, <2>1 DEF LoadBindsEverything
  <2> QED
    BY <1>3, <1>4, <2>2, <2>3, <2>4 DEF IInv, Loading
<1> QED
  BY <1>5, <1>6

LEMMA BoundStep == ASSUME IInv, Bound PROVE IInv'
<1>0. /\ TypeOK /\ Tree /\ Loading /\ phase = "binding" /\ phase' = "enabled" /\ Unbound = {}
      /\ UNCHANGED <<calls, nodes, builders, handlers, failed, said, bundle, types, drifted,
                     registry, invocation>>
  BY DEF IInv, Bound, declaration, loaded, tree
<1>1. TypeOK'
  BY <1>0 DEF TypeOK
<1>2. Tree'
  BY <1>0, TreeStands
<1>3. LinesReachTheirHandler' /\ HandlersReadWhatWasTyped'
  BY <1>0, LinesStand
<1>4. \A p \in DOMAIN handlers : p \in DOMAIN bundle /\ bundle[p] \in DOMAIN registry
  BY <1>0 DEF Unbound
<1>5. NothingLoadedYet' /\ BoundToTheirOwn'
  BY <1>0, <1>4 DEF Loading, NothingLoadedYet, BoundToTheirOwn
<1>6. LoadBindsEverything'
  BY <1>0, <1>4 DEF Loading, BoundToTheirOwn, LoadBindsEverything
<1> QED
  BY <1>1, <1>2, <1>3, <1>5, <1>6 DEF IInv, Loading

LEMMA RegisterByHandStep ==
  ASSUME IInv, NEW path \in DOMAIN bundle, RegisterByHand(path)
  PROVE  IInv'
<1>0. /\ TypeOK /\ Tree /\ Loading /\ phase = "enabled" /\ phase' = "enabled"
      /\ Register(path, Manual)
      /\ UNCHANGED <<calls, nodes, builders, handlers, failed, said, bundle, types, drifted, invocation>>
  BY DEF IInv, RegisterByHand, declaration, tree
<1>1. /\ bundle[path] \notin DOMAIN registry
      /\ DOMAIN registry' = DOMAIN registry \cup {bundle[path]}
      /\ registry'[bundle[path]] = Manual
      /\ \A e \in DOMAIN registry : registry'[e] = registry[e]
  BY <1>0, Registered
<1>2. TypeOK'
  <2>1. DOMAIN registry' \subseteq Range(bundle')
    BY <1>0, <1>1 DEF TypeOK, Range
  <2> QED
    BY <1>0, <2>1 DEF TypeOK
<1>3. Tree'
  BY <1>0, TreeStands
<1>4. LinesReachTheirHandler' /\ HandlersReadWhatWasTyped'
  BY <1>0, LinesStand
<1>5. \A p \in DOMAIN handlers : p \in DOMAIN bundle /\ bundle[p] \in DOMAIN registry
  BY <1>0 DEF Loading, BoundToTheirOwn
<1>6. NothingLoadedYet' /\ BoundToTheirOwn'
  BY <1>0, <1>1, <1>5, Bounds DEF Loading, NothingLoadedYet, BoundToTheirOwn, Manual
<1>7. LoadBindsEverything'
  BY <1>0, <1>1, <1>5 DEF Loading, LoadBindsEverything
<1> QED
  BY <1>2, <1>3, <1>4, <1>6, <1>7 DEF IInv, Loading

-----------------------------------------------------------------------------
(* Invoking *)

LEMMA SendersDecode ==
  /\ SenderDecodes(Console) /\ SenderDecodes(Player)
  /\ ~SenderDecodes(List(<<Bytes("short"), String("1"), String("1")>>))
<1>1. SenderDecodes(Console)
  BY DEF SenderDecodes, Console
<1>2. SenderDecodes(Player)
  BY DEF SenderDecodes, Player, IsPlayer, IsList, IsString, List, Bytes, String, Scalar
<1>3. ~SenderDecodes(List(<<Bytes("short"), String("1"), String("1")>>))
  BY DEF SenderDecodes, IsPlayer, IsList, IsString, List, Bytes, String, Scalar
<1> QED
  BY <1>1, <1>2, <1>3

\* What the host makes of a line: a value at the place of each name in brackets.
LEMMA TypedArguments ==
  ASSUME NEW path, NEW arguments \in Typed(path)
  PROVE  /\ DOMAIN arguments = ValuesOn(path)
         /\ \A i \in ValuesOn(path) : /\ arguments[i].name = path[i].name
                                      /\ arguments[i].kind = KindOf(types[path][i])
                                      /\ arguments[i].value \in Contents(types[path][i])
<1>1. PICK v : /\ \A i \in ValuesOn(path) : v[i] \in Contents(types[path][i])
               /\ arguments = [i \in ValuesOn(path) |->
                                 [name |-> path[i].name, kind |-> KindOf(types[path][i]), value |-> v[i]]]
  BY DEF Typed
<1> QED
  BY <1>1

\* The kinds of the two sorts of values, and what the decoder makes of them.
LEMMA TypedValuesDecode ==
  ASSUME NEW type, NEW v \in Contents(type)
  PROVE  /\ Decodes(KindOf(type), v)
         /\ type = "integer" => CommandValue(KindOf(type), v).integer = v.atom
         /\ type # "integer" => CommandValue(KindOf(type), v).text = v.atom
<1>1. CASE type = "integer"
  <2>1. KindOf(type) = "integer" /\ v = Int64("7")
    BY <1>1 DEF KindOf, Contents
  <2>2. v.kind = "int64"
    BY <2>1 DEF Int64, Scalar
  <2>3. Decodes("integer", v)
    BY <2>2 DEF Decodes, Texts
  <2>4. CommandValue("integer", v).integer = v.atom
    BY DEF CommandValue
  <2> QED
    BY <1>1, <2>1, <2>3, <2>4
<1>2. CASE type # "integer"
  <2>1. KindOf(type) = "enum" /\ (v = String("x") \/ v = String(""))
    BY <1>2 DEF KindOf, Contents
  <2>2. String("x").kind = "string" /\ String("").kind = "string"
    BY DEF String, Scalar
  <2>3. v.kind = "string"
    BY <2>1, <2>2
  <2>4. Decodes("enum", v)
    BY <2>3 DEF Decodes, Texts, IsString
  <2>5. CommandValue("enum", v).text = v.atom
    BY DEF CommandValue, Texts
  <2> QED
    BY <1>2, <2>1, <2>4, <2>5
<1> QED
  BY <1>1, <1>2

\* A line decodes unless two of its values have one name.
LEMMA TypedDecodes ==
  ASSUME NEW path, NEW arguments \in Typed(path)
  PROVE  ArgumentsDecode(arguments) <=> ~Doubled(path)
<1>1. \A i \in DOMAIN arguments : Decodes(arguments[i].kind, arguments[i].value)
  BY TypedArguments, TypedValuesDecode
<1> QED
  BY <1>1, TypedArguments DEF ArgumentsDecode, Doubled

\* The value of a name is the one there is of it.
LEMMA GivenByName ==
  ASSUME NEW arguments, ArgumentsDecode(arguments), DOMAIN arguments \subseteq Nat,
         NEW i \in DOMAIN arguments
  PROVE  /\ arguments[i].name \in DOMAIN CommandValues(arguments)
         /\ CommandValues(arguments)[arguments[i].name] = CommandValue(arguments[i].kind, arguments[i].value)
<1> DEFINE There(name) == CHOOSE j \in DOMAIN arguments :
                           /\ arguments[j].name = name
                           /\ \A k \in DOMAIN arguments : k > j => arguments[k].name # name
           here == arguments[i].name
<1>1. \A j \in DOMAIN arguments : arguments[j].name = here => j = i
  BY DEF ArgumentsDecode
<1>2. ~(i > i)
  OBVIOUS
<1>3. There(here) = i
  BY <1>1, <1>2
<1> QED
  BY <1>3 DEF CommandValues

\* A value without a type, or one that is not of its type.
LEMMA SpoiltDoesNotDecode ==
  ASSUME NEW path, NEW arguments \in Typed(path), NEW i \in DOMAIN arguments
  PROVE  /\ ~ArgumentsDecode([arguments EXCEPT ![i].kind = "none"])
         /\ ~ArgumentsDecode([arguments EXCEPT ![i].value = Double("1")])
<1>1. arguments[i].kind \in {"integer", "enum"}
  BY TypedArguments DEF KindOf
<1>2. ASSUME NEW v PROVE ~Decodes("none", v)
  BY DEF Decodes, Texts
<1>3. ASSUME NEW kind \in {"integer", "enum"} PROVE ~Decodes(kind, Double("1"))
  <2>1. Double("1").kind = "double"
    BY DEF Double, Scalar
  <2> QED
    BY <2>1 DEF Decodes, IsString, Texts
<1>4. \E name, type, v : arguments[i] = [name |-> name, kind |-> type, value |-> v]
  <2>1. PICK c : arguments = [j \in ValuesOn(path) |->
                                [name |-> path[j].name, kind |-> KindOf(types[path][j]), value |-> c[j]]]
    BY DEF Typed
  <2> QED
    BY <2>1
<1>5. ~ArgumentsDecode([arguments EXCEPT ![i].kind = "none"])
  <2> DEFINE spoilt == [arguments EXCEPT ![i].kind = "none"]
  <2>1. i \in DOMAIN spoilt /\ spoilt[i].kind = "none"
    BY <1>4
  <2> HIDE DEF spoilt
  <2> QED
    BY <1>2, <2>1 DEF ArgumentsDecode
<1>6. ~ArgumentsDecode([arguments EXCEPT ![i].value = Double("1")])
  <2> DEFINE spoilt == [arguments EXCEPT ![i].value = Double("1")]
  <2>1. i \in DOMAIN spoilt /\ spoilt[i].kind = arguments[i].kind /\ spoilt[i].value = Double("1")
    BY <1>4
  <2> HIDE DEF spoilt
  <2> QED
    BY <1>1, <1>3, <2>1 DEF ArgumentsDecode
<1> QED
  BY <1>5, <1>6

\* It changes nothing but the record of it, and that is as it should be.
LEMMA Invoked ==
  ASSUME IInv, NEW path \in DOMAIN bundle, NEW sender, NEW arguments, NEW malformed \in BOOLEAN,
         Invoke(path, sender, arguments, malformed),
         malformed => ~SenderDecodes(sender) \/ ~ArgumentsDecode(arguments),
         ~malformed => SenderDecodes(sender) /\ arguments \in Typed(path)
  PROVE  IInv'
<1> DEFINE runs == /\ SenderDecodes(sender)
                   /\ ArgumentsDecode(arguments)
                   /\ bundle[path] \in DOMAIN registry
<1>0. /\ TypeOK /\ Tree /\ Loading /\ phase = "enabled" /\ phase' = "enabled"
      /\ UNCHANGED <<calls, nodes, builders, handlers, failed, said, bundle, types, drifted, registry>>
  BY DEF IInv, Invoke, declaration, tree
<1>1. /\ invocation'.path = path /\ invocation'.arguments = arguments
      /\ invocation'.malformed = malformed
      /\ invocation'.ran = IF runs THEN registry[bundle[path]] ELSE None
      /\ invocation'.given = IF runs THEN CommandValues(arguments) ELSE <<>>
  BY DEF Invoke
<1>2. \A e \in DOMAIN registry : registry[e] \in 0..MaxCalls
  BY <1>0 DEF Loading, BoundToTheirOwn
<1>3. TypeOK'
  <2>1. invocation'.ran \in 0..MaxCalls \cup {None}
    BY <1>1, <1>2
  <2> QED
    BY <1>0, <2>1 DEF TypeOK
<1>4. Tree'
  BY <1>0, TreeStands
<1>5. NothingLoadedYet' /\ BoundToTheirOwn' /\ LoadBindsEverything'
  BY <1>0 DEF Loading, NothingLoadedYet, BoundToTheirOwn, LoadBindsEverything
<1>6. \A p \in DOMAIN handlers :
         p \in DOMAIN bundle /\ bundle[p] \in DOMAIN registry /\ registry[bundle[p]] = handlers[p]
  BY <1>0 DEF Loading, BoundToTheirOwn, LoadBindsEverything
<1>7. ~malformed => (ArgumentsDecode(arguments) <=> ~Doubled(path))
  BY TypedDecodes
<1> HIDE DEF runs
<1>8. LinesReachTheirHandler'
  <2> SUFFICES ASSUME path \in DOMAIN handlers
               PROVE  invocation'.ran = IF malformed \/ Doubled(path) THEN None ELSE handlers[path]
    BY <1>0, <1>1 DEF LinesReachTheirHandler
  <2>1. runs <=> ~(malformed \/ Doubled(path))
    BY <1>6, <1>7 DEF runs
  <2> QED
    BY <1>1, <1>6, <2>1
<1>9. HandlersReadWhatWasTyped'
  <2>1. DeclaredTypes' = DeclaredTypes
    BY <1>0 DEF DeclaredTypes, Paths, Executable, PathOf, TypesTo
  <2> SUFFICES ASSUME invocation'.ran # None, types = DeclaredTypes, NEW i \in DOMAIN arguments
               PROVE  LET argument == arguments[i]
                          given == invocation'.given
                      IN IF DeclaredTypes[path][i] = "integer"
                         THEN ReadInteger(given, argument.name) = <<argument.value.atom, TRUE>>
                         ELSE ReadString(given, argument.name) =
                                <<argument.value.atom, argument.value.atom # "">>
    BY <1>0, <1>1, <2>1 DEF HandlersReadWhatWasTyped
  <2>2. runs
    BY <1>1
  <2>3. ArgumentsDecode(arguments) /\ ~malformed /\ arguments \in Typed(path)
    BY <2>2 DEF runs
  <2>4. DOMAIN arguments \subseteq Nat
    <3>1. path \in Seq(Labels)
      BY <1>0 DEF TypeOK
    <3>2. DOMAIN path \subseteq Nat
      BY <3>1, LenProperties
    <3>3. DOMAIN arguments = ValuesOn(path)
      BY <2>3, TypedArguments
    <3> QED
      BY <3>2, <3>3 DEF ValuesOn
  <2> DEFINE name == arguments[i].name
             type == types[path][i]
             atom == arguments[i].value.atom
             given == CommandValues(arguments)
  <2>5. /\ name \in DOMAIN given
        /\ given[name] = CommandValue(arguments[i].kind, arguments[i].value)
    BY <2>3, <2>4, GivenByName
  <2>6. arguments[i].kind = KindOf(type) /\ arguments[i].value \in Contents(type)
    BY <2>3, TypedArguments
  <2>7. /\ type = "integer" => given[name].integer = atom
        /\ type # "integer" => given[name].text = atom
    BY <2>5, <2>6, TypedValuesDecode
  <2>8. invocation'.given = given
    BY <1>1, <2>2
  <2> HIDE DEF name, atom, given
  <2>9. IF type = "integer" THEN ReadInteger(given, name) = <<atom, TRUE>>
                            ELSE ReadString(given, name) = <<atom, atom # "">>
    BY <2>5, <2>7 DEF ReadInteger, ReadString
  <2> QED
    BY <2>8, <2>9 DEF name, atom
<1> QED
  BY <1>3, <1>4, <1>5, <1>8, <1>9 DEF IInv, Loading

LEMMA InvokeTypedStep ==
  ASSUME IInv, NEW path \in DOMAIN bundle, InvokeTyped(path)
  PROVE  IInv'
<1>1. PICK sender \in {Console, Player}, arguments \in Typed(path) :
             Invoke(path, sender, arguments, FALSE)
  BY DEF InvokeTyped
<1> QED
  BY <1>1, Invoked, SendersDecode

LEMMA InvokeMalformedStep ==
  ASSUME IInv, NEW path \in DOMAIN bundle, InvokeMalformed(path)
  PROVE  IInv'
<1>1. PICK arguments \in Typed(path) :
        \/ Invoke(path, List(<<Bytes("short"), String("1"), String("1")>>), arguments, TRUE)
        \/ \E i \in DOMAIN arguments :
             \/ Invoke(path, Console, [arguments EXCEPT ![i].kind = "none"], TRUE)
             \/ Invoke(path, Console, [arguments EXCEPT ![i].value = Double("1")], TRUE)
  BY DEF InvokeMalformed
<1>2. CASE Invoke(path, List(<<Bytes("short"), String("1"), String("1")>>), arguments, TRUE)
  BY <1>2, Invoked, SendersDecode
<1>3. CASE \E i \in DOMAIN arguments :
             \/ Invoke(path, Console, [arguments EXCEPT ![i].kind = "none"], TRUE)
             \/ Invoke(path, Console, [arguments EXCEPT ![i].value = Double("1")], TRUE)
  <2>1. PICK i \in DOMAIN arguments :
             \/ Invoke(path, Console, [arguments EXCEPT ![i].kind = "none"], TRUE)
             \/ Invoke(path, Console, [arguments EXCEPT ![i].value = Double("1")], TRUE)
    BY <1>3
  <2> QED
    BY <2>1, Invoked, SpoiltDoesNotDecode
<1> QED
  BY <1>1, <1>2, <1>3

-----------------------------------------------------------------------------

LEMMA InvInit == Init => IInv
<1> SUFFICES ASSUME Init PROVE IInv
  OBVIOUS
<1>1. TypeOK
  <2>1. DOMAIN <<>> = {}
    OBVIOUS
  <2>2. IsInjective(bundle) /\ DOMAIN bundle = {} /\ DOMAIN types = {} /\ DOMAIN registry = {}
    BY <2>1 DEF Init, IsInjective
  <2>3. DOMAIN nodes = {} /\ DOMAIN handlers = {} /\ calls \in 0..MaxCalls
    BY <2>1, Bounds DEF Init
  <2>4. phase = "declaring" /\ builders = {} /\ failed = FALSE /\ said = {} /\ invocation = None
    BY DEF Init
  <2> QED
    BY <2>2, <2>3, <2>4 DEF TypeOK
<1>2. Tree
  BY DEF Init, Tree, NodesHangFromNodes, ValuesHaveTypes, Sayings, BuildersSpellTheirNodes,
         DeclaredPathsAreIndexed, DeclarationsStand, Paths, Executable
<1>3. Loading
  BY DEF Init, Loading, NothingLoadedYet, BoundToTheirOwn, LoadBindsEverything,
         LinesReachTheirHandler, HandlersReadWhatWasTyped
<1> QED
  BY <1>1, <1>2, <1>3 DEF IInv

LEMMA InvStutter == ASSUME IInv, UNCHANGED vars PROVE IInv'
<1>0. /\ TypeOK /\ Tree /\ Loading
      /\ UNCHANGED <<phase, calls, nodes, builders, handlers, failed, said, bundle, types, drifted,
                     registry, invocation>>
  BY DEF IInv, vars, declaration, loaded, tree
<1>1. TypeOK'
  BY <1>0 DEF TypeOK
<1>2. Tree'
  BY <1>0, TreeStands
<1>3. LinesReachTheirHandler' /\ HandlersReadWhatWasTyped'
  BY <1>0, LinesStand
<1>4. Valid' <=> Valid
  BY <1>0 DEF Valid, Executable
<1>5. NothingLoadedYet' /\ BoundToTheirOwn' /\ LoadBindsEverything'
  BY <1>0, <1>4 DEF Loading, NothingLoadedYet, BoundToTheirOwn, LoadBindsEverything
<1> QED
  BY <1>1, <1>2, <1>3, <1>5 DEF IInv, Loading

LEMMA InvNext == ASSUME IInv, [Next]_vars PROVE IInv'
<1>1. ASSUME NEW name \in Names, Command(name) PROVE IInv'
  BY <1>1, CommandStep
<1>2. ASSUME NEW b \in builders, Runs(b) PROVE IInv'
  BY <1>2, RunsStep
<1>3. ASSUME NEW b \in builders, NEW permission \in Permissions, Permission(b, permission) PROVE IInv'
  BY <1>3, PermissionStep
<1>4. ASSUME NEW b \in builders, NEW name \in Names, Sub(b, name) PROVE IInv'
  BY <1>4, SubStep
<1>5. ASSUME NEW b \in builders, NEW name \in Names,
             \/ Argument(b, name, "integer", None)
             \/ \E choice \in Options \cup {None} : Argument(b, name, "choice", choice)
      PROVE  IInv'
  <2>1. "integer" \in Types /\ "choice" \in Types
    BY DEF Types
  <2> QED
    BY <1>5, <2>1, ArgumentStep
<1>6. CASE Mistake
  BY <1>6, MistakeStep
<1>7. CASE Refused
  BY <1>7, RefusedStep
<1>8. CASE Build
  BY <1>8, BuildStep
<1>9. CASE Bind
  BY <1>9, BindStep
<1>10. CASE Bound
  BY <1>10, BoundStep
<1>11. ASSUME NEW path \in DOMAIN bundle, RegisterByHand(path) PROVE IInv'
  BY <1>11, RegisterByHandStep
<1>12. ASSUME NEW path \in DOMAIN bundle, InvokeTyped(path) PROVE IInv'
  BY <1>12, InvokeTypedStep
<1>13. ASSUME NEW path \in DOMAIN bundle, InvokeMalformed(path) PROVE IInv'
  BY <1>13, InvokeMalformedStep
<1>14. CASE UNCHANGED vars
  BY <1>14, InvStutter
<1> QED
  BY <1>1, <1>2, <1>3, <1>4, <1>5, <1>6, <1>7, <1>8, <1>9, <1>10, <1>11, <1>12, <1>13, <1>14 DEF Next

LEMMA Invariance == Spec => []IInv
BY InvInit, InvNext, PTL DEF Spec

-----------------------------------------------------------------------------

\* The variables have their types in every reachable state of a set and of the
\* registry it is loaded into (command_set.go, command_tree.go, command_registry.go).
THEOREM TypeCorrect == Spec => []TypeOK
<1>1. IInv => TypeOK
  BY DEF IInv
<1> QED
  BY <1>1, Invariance, PTL

\* A builder spells the path the tree is indexed by, whatever was declared through
\* it or beside it, before or since (command_set.go:239-250, command_tree.go:61-64).
THEOREM BuildersSpell == Spec => []BuildersSpellTheirNodes
<1>1. IInv => BuildersSpellTheirNodes
  BY DEF IInv, Tree
<1> QED
  BY <1>1, Invariance, PTL

\* A set without mistakes has a handler on exactly the paths of its tree
\* (command_set.go:24-26).
THEOREM PathsIndexed == Spec => []DeclaredPathsAreIndexed
<1>1. IInv => DeclaredPathsAreIndexed
  BY DEF IInv, Tree
<1> QED
  BY <1>1, Invariance, PTL

\* No declaration overrules another without a word (command_set.go:119-127, 226-230).
THEOREM DeclarationsHold == Spec => []DeclarationsStand
<1>1. IInv => DeclarationsStand
  BY DEF IInv, Tree
<1> QED
  BY <1>1, Invariance, PTL

\* A plugin that loads has every path it declares bound to its own function, and
\* one is refused only for a mistake or a path its bundle lacks
\* (command_registry.go:78-90).
THEOREM LoadBinds == Spec => []LoadBindsEverything
<1>1. IInv => LoadBindsEverything
  BY DEF IInv, Loading
<1> QED
  BY <1>1, Invariance, PTL

\* A line on a declared path runs the function declared for it, or nothing if what
\* came is malformed or the path has two values of one name (command_dispatch.go:16-28).
THEOREM LinesReach == Spec => []LinesReachTheirHandler
<1>1. IInv => LinesReachTheirHandler
  BY DEF IInv, Loading
<1> QED
  BY <1>1, Invariance, PTL

\* A handler that reads its values by the types its path declares gets what was
\* typed (command.go:84-95, command_dispatch.go:66-80).
THEOREM HandlersRead == Spec => []HandlersReadWhatWasTyped
<1>1. IInv => HandlersReadWhatWasTyped
  BY DEF IInv, Loading
<1> QED
  BY <1>1, Invariance, PTL
=============================================================================
