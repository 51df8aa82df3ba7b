------------------------------ MODULE Commands ------------------------------
(***************************************************************************)
(* A plugin's commands, from the declaration to the handlers the host's    *)
(* invocations find (command_set.go, command_tree.go, command_registry.go,*)
(* command_dispatch.go).                                                    *)
(* The plugin's program declares a set: the build turns its shape into the *)
(* tree of the bundle, and at load its handlers are bound to the executors *)
(* of that tree, path by path.  The two may come from different versions   *)
(* of the program.  A line somebody typed reaches the plugin as an         *)
(* executor and the values the host read by the bundle's tree.             *)
(*                                                                         *)
(* The nodes of a set are kept by address, the names from the root down to *)
(* them.  A path is what Runs, Register and the index of the tree spell: a *)
(* sequence of labels, each a name that is or is not in angle brackets.    *)
(* Names here have no spaces and no brackets of their own, so that no two  *)
(* different paths are spelled alike.                                      *)
(***************************************************************************)
EXTENDS Arguments, FiniteSets, Functions

CONSTANTS Names,        \* names of commands and arguments
          Permissions,
          Options,      \* what OneOf, Custom, Min or Max narrow an argument to
          MaxDepth,     \* bound: the length of an address
          MaxCalls,     \* bound: the calls that declare the set
          None

ASSUME CommandsAssumption ==
  /\ {MaxDepth, MaxCalls} \subseteq Nat
  /\ None \notin Names \cup Permissions \cup Options \cup {"integer", "choice"}

VARIABLES
  phase,      \* declaring; built; binding, in RegisterSet; enabled; refused
  calls,      \* calls made on the set so far
  nodes,      \* the set's nodes
  builders,   \* the CommandBuilders handed out: the author may keep them
  handlers,   \* CommandSet.handlers: each path bound, and the call that bound it
  failed,     \* CommandSet.failures is not empty
  said,       \* history: what Permission and the value methods said of which node
  bundle,     \* commandTree.executors of the bundle that is loaded
  types,      \* of the values on each path of the bundle
  drifted,    \* history: the bundle was built from another version of the set
  registry,   \* Commands.handlers: executor to handler
  invocation  \* the invocation: what was sent, and what ran with what

declaration == <<calls, nodes, builders, handlers, failed, said>>
tree == <<bundle, types, drifted>>
loaded == <<tree, registry, invocation>>
vars == <<phase, declaration, loaded>>

\* Integer stands for the types without a list, "choice" for OneOf and Custom.
Types == {"integer", "choice"}

Label(name, argument) == [name |-> name, argument |-> argument]

NewNode(argument) ==
  [argument |-> argument, type |-> None, choice |-> None, permission |-> None, runs |-> FALSE]

\* The path that reaches an address, as index spells it (command_tree.go:67-74).
PathOf(a) == [i \in DOMAIN a |-> Label(a[i], nodes[SubSeq(a, 1, i)].argument)]

\* Where the values of a path are, and the types the tree gives those down to an
\* address. An invocation's values, too, are kept by these positions.
ValuesOn(path) == {i \in DOMAIN path : path[i].argument}
TypesTo(a) == [i \in ValuesOn(PathOf(a)) |-> nodes[SubSeq(a, 1, i)].type]

Manual == 0  \* a handler the plugin registers by hand; the others are call numbers

-----------------------------------------------------------------------------
(* Declaring: command_set.go *)

Declaring == phase = "declaring" /\ calls < MaxCalls /\ calls' = calls + 1

\* child, lines 96-109: finds a node by its name alone, or makes one.
WithChild(a, argument) ==
  [x \in DOMAIN nodes \cup {a} |-> IF x \in DOMAIN nodes THEN nodes[x] ELSE NewNode(argument)]

\* "declared as both a name and a value"
Clashes(a, argument) == a \in DOMAIN nodes /\ nodes[a].argument # argument

HandOut(at, path) == builders' = builders \cup {[at |-> at, path |-> path]}

Command(name) ==
  /\ Declaring
  /\ nodes' = WithChild(<<name>>, FALSE)
  /\ failed' = (failed \/ Clashes(<<name>>, FALSE))
  /\ HandOut(<<name>>, <<Label(name, FALSE)>>)
  /\ UNCHANGED <<phase, handlers, said, loaded>>

\* Mutant of Sub: the new child is hung on a copy of the node.
SubDetached(b, name) ==
  /\ Declaring
  /\ Len(b.at) < MaxDepth
  /\ LET a == Append(b.at, name)
     IN  /\ failed' = (failed \/ Clashes(a, FALSE))
         /\ HandOut(a, Append(b.path, Label(name, FALSE)))
  /\ UNCHANGED <<phase, nodes, handlers, said, loaded>>

\* One name of Sub; several are several of these, lines 138-141.
Sub(b, name) ==
  /\ Declaring
  /\ Len(b.at) < MaxDepth
  /\ LET a == Append(b.at, name)
     IN  /\ nodes' = WithChild(a, FALSE)
         /\ failed' = (failed \/ Clashes(a, FALSE))
         /\ HandOut(a, Append(b.path, Label(name, FALSE)))
  /\ UNCHANGED <<phase, handlers, said, loaded>>

\* Mutant of Argument: the value's own name, without the brackets.
ArgumentUnbracketed(b, name, type, choice) ==
  /\ Declaring
  /\ Len(b.at) < MaxDepth
  /\ LET a == Append(b.at, name)
         child == WithChild(a, TRUE)
     IN  /\ nodes' = [child EXCEPT ![a].type = type,
                                   ![a].choice = IF choice = None THEN @ ELSE choice]
         /\ failed' = \/ failed
                      \/ Clashes(a, TRUE)
                      \/ child[a].type \notin {None, type}
                      \/ type = "choice" /\ choice = None
         /\ HandOut(a, Append(b.path, Label(name, FALSE)))
         /\ said' = said \cup {[of |-> a, what |-> "type", is |-> type]}
  /\ UNCHANGED <<phase, handlers, loaded>>

\* argument, lines 225-237, and what OneOf and Custom do with its node, lines
\* 202-223: a list without values is a mistake and leaves the node's own.
Argument(b, name, type, choice) ==
  /\ Declaring
  /\ Len(b.at) < MaxDepth
  /\ LET a == Append(b.at, name)
         child == WithChild(a, TRUE)
     IN  /\ nodes' = [child EXCEPT ![a].type = type,
                                   ![a].choice = IF choice = None THEN @ ELSE choice]
         /\ failed' = \/ failed
                      \/ Clashes(a, TRUE)
                      \/ child[a].type \notin {None, type}
                      \/ type = "choice" /\ choice = None
         /\ HandOut(a, Append(b.path, Label(name, TRUE)))
         /\ said' = said \cup {[of |-> a, what |-> "type", is |-> type]}
  /\ UNCHANGED <<phase, handlers, loaded>>

\* Mutant of Permission: the last one wins, without a word.
PermissionOverrules(b, permission) ==
  /\ Declaring
  /\ IF nodes[b.at].argument
     THEN failed' = TRUE /\ UNCHANGED <<nodes, said>>
     ELSE /\ UNCHANGED failed
          /\ nodes' = [nodes EXCEPT ![b.at].permission = permission]
          /\ said' = said \cup {[of |-> b.at, what |-> "permission", is |-> permission]}
  /\ UNCHANGED <<phase, builders, handlers, loaded>>

Permission(b, permission) ==
  /\ Declaring
  /\ IF nodes[b.at].argument
     THEN failed' = TRUE /\ UNCHANGED <<nodes, said>>
     ELSE /\ failed' = (failed \/ nodes[b.at].permission \notin {None, permission})
          /\ nodes' = [nodes EXCEPT ![b.at].permission = permission]
          /\ said' = said \cup {[of |-> b.at, what |-> "permission", is |-> permission]}
  /\ UNCHANGED <<phase, builders, handlers, loaded>>

\* Mutant of Runs: binds the function and does not mark the node.
RunsUnmarked(b) ==
  /\ Declaring
  /\ IF b.path \in DOMAIN handlers
     THEN failed' = TRUE /\ UNCHANGED <<nodes, handlers>>
     ELSE /\ handlers' = [p \in DOMAIN handlers \cup {b.path} |->
                            IF p = b.path THEN calls + 1 ELSE handlers[p]]
          /\ UNCHANGED <<nodes, failed>>
  /\ UNCHANGED <<phase, builders, said, loaded>>

Runs(b) ==
  /\ Declaring
  /\ IF b.path \in DOMAIN handlers
     THEN failed' = TRUE /\ UNCHANGED <<nodes, handlers>>
     ELSE /\ nodes' = [nodes EXCEPT ![b.at].runs = TRUE]
          /\ handlers' = [p \in DOMAIN handlers \cup {b.path} |->
                            IF p = b.path THEN calls + 1 ELSE handlers[p]]
          /\ UNCHANGED failed
  /\ UNCHANGED <<phase, builders, said, loaded>>

\* Sub with no name, Runs with no function.
Mistake ==
  /\ Declaring
  /\ failed' = TRUE
  /\ UNCHANGED <<phase, nodes, builders, handlers, said, loaded>>

-----------------------------------------------------------------------------
(* Building and loading *)

Executable == {a \in DOMAIN nodes : nodes[a].runs}

\* command.Validate, external: what command_set_test.go:145 has it refuse, a
\* command that runs nothing.
Valid == \A a \in DOMAIN nodes : \E x \in Executable : IsPrefix(a, x)

\* index, lines 65-83, of the tree of this very set: its executable nodes.
Paths == {PathOf(a) : a \in Executable}

\* A path only another version of the set declares.
Elsewhere == <<Label(None, FALSE)>>

DeclaredTypes ==
  [p \in Paths \cup {Elsewhere} |->
     IF p = Elsewhere THEN <<>> ELSE TypesTo(CHOOSE a \in Executable : PathOf(a) = p)]

\* The types of a version in which every value was one of a list.
AllChoices == [p \in DOMAIN DeclaredTypes |-> [i \in DOMAIN DeclaredTypes[p] |-> "choice"]]

\* The tree a set's errors or Validate stop is never built, and a set is refused
\* at load for the same reasons (command_registry.go:78-85).
Refused ==
  /\ phase = "declaring"
  /\ failed \/ ~Valid
  /\ phase' = "refused"
  /\ UNCHANGED <<declaration, loaded>>

\* The bundle's executors: numbers of the build's own choosing, one to a path.
\* It was built from this set, or from one with a path more, a path fewer, or
\* values of other types.
Build ==
  /\ phase = "declaring"
  /\ ~failed /\ Valid
  /\ types' \in {DeclaredTypes, AllChoices}
  /\ \E indexed \in {Paths, Paths \cup {Elsewhere}} \cup {Paths \ {p} : p \in Paths} :
        /\ bundle' \in Injection(indexed, 1..Cardinality(indexed))
        /\ drifted' = (indexed # Paths \/ types' # DeclaredTypes)
  /\ phase' = "binding"
  /\ UNCHANGED <<declaration, registry, invocation>>

\* Register, lines 28-36, of a path the tree has: refused if it is taken.
Register(path, handler) ==
  LET executor == bundle[path]
  IN  /\ executor \notin DOMAIN registry
      /\ registry' = [e \in DOMAIN registry \cup {executor} |->
                        IF e = executor THEN handler ELSE registry[e]]

\* Paths of the set that RegisterSet has not bound yet. It takes them in order;
\* which is first makes no difference to what is checked here.
Unbound == {p \in DOMAIN handlers : p \notin DOMAIN bundle \/ bundle[p] \notin DOMAIN registry}

\* Mutant of Bind: a path the bundle does not have is passed over.
BindOrSkip ==
  /\ phase = "binding"
  /\ \E p \in Unbound :
       IF p \in DOMAIN bundle
       THEN Register(p, handlers[p]) /\ UNCHANGED phase
       ELSE phase' = "enabled" /\ UNCHANGED registry
  /\ UNCHANGED <<declaration, tree, invocation>>

\* RegisterSet, lines 86-90.
Bind ==
  /\ phase = "binding"
  /\ \E p \in Unbound :
       IF p \in DOMAIN bundle
       THEN Register(p, handlers[p]) /\ UNCHANGED phase
       ELSE phase' = "refused" /\ UNCHANGED registry
  /\ UNCHANGED <<declaration, tree, invocation>>

Bound ==
  /\ phase = "binding"
  /\ Unbound = {}
  /\ phase' = "enabled"
  /\ UNCHANGED <<declaration, loaded>>

\* A plugin that also registers by hand, in OnLoad or later.
RegisterByHand(path) ==
  /\ phase = "enabled"
  /\ invocation = None
  /\ path \in DOMAIN bundle
  /\ Register(path, Manual)
  /\ UNCHANGED <<phase, declaration, tree, invocation>>

-----------------------------------------------------------------------------
(* A line typed by a player or at the console: command_dispatch.go *)

KindOf(type) == IF type = "integer" THEN "integer" ELSE "enum"

Contents(type) ==
  IF type = "integer" THEN {Int64("7")} ELSE {String("x"), String("")}

\* What the host makes of a line on a path of its tree, external.
Typed(path) ==
  {[i \in ValuesOn(path) |-> [name |-> path[i].name, kind |-> KindOf(types[path][i]), value |-> v[i]]] :
     v \in {c \in [ValuesOn(path) -> UNION {Contents(t) : t \in Types}] :
              \A i \in ValuesOn(path) : c[i] \in Contents(types[path][i])}}

Console == List(<<>>)
Player == List(<<Bytes("uuid"), String("1"), String("1")>>)

\* invokeCommand, lines 16-29, and invoke, command_registry.go:39-49. It changes
\* nothing that a later one looks at, so there is one, the last step of all.
\* Everything about it is history: what was sent, and what ran with which values.
Invoke(path, sender, arguments, malformed) ==
  /\ phase = "enabled"
  /\ invocation = None
  /\ LET runs == /\ SenderDecodes(sender)
                 /\ ArgumentsDecode(arguments)
                 /\ bundle[path] \in DOMAIN registry
     IN invocation' = [path |-> path, arguments |-> arguments, malformed |-> malformed,
                       ran |-> IF runs THEN registry[bundle[path]] ELSE None,
                       given |-> IF runs THEN CommandValues(arguments) ELSE <<>>]
  /\ UNCHANGED <<phase, declaration, tree, registry>>

InvokeTyped(path) ==
  \E sender \in {Console, Player}, arguments \in Typed(path) :
     Invoke(path, sender, arguments, FALSE)

\* A sender who is nobody, a value without a type, one that is not of its type.
InvokeMalformed(path) ==
  \E arguments \in Typed(path) :
     \/ Invoke(path, List(<<Bytes("short"), String("1"), String("1")>>), arguments, TRUE)
     \/ \E i \in DOMAIN arguments :
          \/ Invoke(path, Console, [arguments EXCEPT ![i].kind = "none"], TRUE)
          \/ Invoke(path, Console, [arguments EXCEPT ![i].value = Double("1")], TRUE)

-----------------------------------------------------------------------------

\* NewCommandSet and newCommands
Init ==
  /\ phase = "declaring"
  /\ calls = 0
  /\ nodes = <<>>
  /\ builders = {}
  /\ handlers = <<>>
  /\ failed = FALSE
  /\ said = {}
  /\ bundle = <<>>
  /\ types = <<>>
  /\ drifted = FALSE
  /\ registry = <<>>
  /\ invocation = None

Next ==
  \/ \E name \in Names : Command(name)
  \/ \E b \in builders :
       \/ Runs(b)
       \/ \E permission \in Permissions : Permission(b, permission)
       \/ \E name \in Names :
            \/ Sub(b, name)
            \/ Argument(b, name, "integer", None)
            \/ \E choice \in Options \cup {None} : Argument(b, name, "choice", choice)
  \/ Mistake \/ Refused \/ Build \/ Bind \/ Bound
  \/ \E path \in DOMAIN bundle :
       RegisterByHand(path) \/ InvokeTyped(path) \/ InvokeMalformed(path)

Spec == Init /\ [][Next]_vars
-----------------------------------------------------------------------------
(* Properties *)

Labels == [name : Names \cup {None}, argument : BOOLEAN]
Nodes == [argument : BOOLEAN, type : Types \cup {None}, choice : Options \cup {None},
          permission : Permissions \cup {None}, runs : BOOLEAN]

\* Every node hangs from one, and everything kept about a node is about one
\* there is.
TypeOK ==
  /\ phase \in {"declaring", "binding", "enabled", "refused"}
  /\ calls \in 0..MaxCalls
  /\ DOMAIN nodes \subseteq Seq(Names) /\ \A a \in DOMAIN nodes : nodes[a] \in Nodes
  /\ \A b \in builders : b.at \in DOMAIN nodes /\ b.path \in Seq(Labels)
  /\ \A p \in DOMAIN handlers : p \in Seq(Labels) /\ handlers[p] \in 1..MaxCalls
  /\ failed \in BOOLEAN
  /\ \A s \in said : s.of \in DOMAIN nodes
  /\ DOMAIN bundle \subseteq Seq(Labels) /\ IsInjective(bundle)
  /\ DOMAIN types \subseteq Seq(Labels) /\ \A p \in DOMAIN types : types[p] \in [ValuesOn(p) -> Types]
  /\ DOMAIN registry \subseteq Range(bundle)
  /\ invocation # None => invocation.ran \in 0..MaxCalls \cup {None}

\* A builder spells the path the tree will be indexed by, whatever was declared
\* through it or beside it before or since, unless the set has reported a mistake
\* (command_set.go:239-250, command_tree.go:61-64).
BuildersSpellTheirNodes ==
  ~failed => \A b \in builders : b.path = PathOf(b.at)

\* "a path with no handler and a handler on no path both stop being possible to
\* write" (command_set.go:24-26).
DeclaredPathsAreIndexed == ~failed => DOMAIN handlers = Paths

\* What was said of a node still stands, or the set reports a mistake
\* (command_set.go:119-127, 226-230): no declaration overrules another silently,
\* the list of a value excepted, which the second OneOf replaces.
DeclarationsStand == ~failed => \A s \in said : nodes[s.of][s.what] = s.is

\* Once RegisterSet has succeeded, every declared path has its own function at
\* the executor the bundle gave it (command_registry.go:86-90), and a set is
\* refused only for a mistake or a bundle that lacks one of its paths.
LoadBindsEverything ==
  /\ phase = "enabled" => \A p \in DOMAIN handlers : p \in DOMAIN bundle /\ registry[bundle[p]] = handlers[p]
  /\ phase = "refused" => failed \/ ~Valid \/ \E p \in DOMAIN handlers : p \notin DOMAIN bundle

\* An invocation of a declared path runs that path's own function, and no other,
\* though others were registered by hand since; unless what came is malformed,
\* and then nothing runs (command_dispatch.go:16-28, command_dispatch_test.go:76-90),
\* or the path has two values of one name, which no invocation can carry.
Doubled(path) ==
  \E i, j \in ValuesOn(path) : i # j /\ path[i].name = path[j].name

LinesReachTheirHandler ==
  invocation # None /\ invocation.path \in DOMAIN handlers =>
    invocation.ran = IF invocation.malformed \/ Doubled(invocation.path) THEN None
                     ELSE handlers[invocation.path]

\* A handler that reads each value by the type its path declares gets what was
\* typed, the empty text excepted, which reads as absent (command.go:84-95): the
\* accessors look at neither kind nor position, so this rests on the builder, the
\* bundle and the decoder agreeing. It does not survive a bundle whose values
\* changed their type.
HandlersReadWhatWasTyped ==
  invocation # None /\ invocation.ran # None /\ types = DeclaredTypes =>
    \A i \in DOMAIN invocation.arguments :
      LET argument == invocation.arguments[i]
          given == invocation.given
      IN IF DeclaredTypes[invocation.path][i] = "integer"
         THEN ReadInteger(given, argument.name) = <<argument.value.atom, TRUE>>
         ELSE ReadString(given, argument.name) = <<argument.value.atom, argument.value.atom # "">>

\* "a set that drifted from the bundle it shipped with fails at load naming the
\* path, rather than becoming a command the client offers and nothing answers"
\* (command_registry.go:70-73).
DriftIsRefused == phase = "enabled" /\ handlers # <<>> => ~drifted
=============================================================================
