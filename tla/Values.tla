------------------------------- MODULE Values -------------------------------
(***************************************************************************)
(* The positional values events carry, as the plugin reads them            *)
(* (values.go, wire_helpers.go, wire_values.go, native_scalars.go), and    *)
(* the three operators of the contract library the SDK works on them with: *)
(* ApplyPath, Diff and Equal, which is = here.                             *)
(*                                                                         *)
(* The content of a scalar is an atom.  An atom says what some code looks  *)
(* at: whether bytes are a uuid, whether a double is finite; otherwise only *)
(* which of two contents it is.  Indices and paths count from 0, as in Go. *)
(***************************************************************************)
EXTENDS Naturals, Sequences, SequencesExt

Kinds == {"invalid", "bool", "int64", "double", "string", "bytes", "list"}

Scalar(kind, atom) == [kind |-> kind, atom |-> atom]
Bool(atom) == Scalar("bool", atom)
Int64(atom) == Scalar("int64", atom)
Double(atom) == Scalar("double", atom)
String(atom) == Scalar("string", atom)
Bytes(atom) == Scalar("bytes", atom)
List(items) == [kind |-> "list", items |-> items]

\* Value{}, which has no kind and which no frame carries.
Invalid == [kind |-> "invalid"]

-----------------------------------------------------------------------------
(* What each decoder accepts *)

IsList(v, length) == v.kind = "list" /\ Len(v.items) = length

IsString(v) == v.kind = "string"

IsFinite(v) == v.kind = "double" /\ v.atom \notin {"NaN", "Inf"}

\* The empty list a nil handle is written as is no player here (api.go:70-75).
IsPlayer(v) ==
  /\ IsList(v, 3)
  /\ v.items[1].kind = "bytes" /\ v.items[1].atom = "uuid"
  /\ IsString(v.items[2])
  /\ IsString(v.items[3])

IsPosition(v) == IsList(v, 3) /\ \A i \in 1..3 : v.items[i].kind = "int64"

IsProperties(v) ==
  /\ v.kind = "list"
  /\ \A pair \in ToSet(v.items) :
        IsList(pair, 2) /\ IsString(pair.items[1]) /\ IsString(pair.items[2])

IsBlock(v) == IsList(v, 2) /\ IsString(v.items[1]) /\ IsProperties(v.items[2])

ArePermissions(v) ==
  /\ v.kind = "list"
  /\ \A pair \in ToSet(v.items) :
        IsList(pair, 2) /\ IsString(pair.items[1]) /\ pair.items[2].kind = "bool"

\* The decoder a layout names for a field.
Reads(shape, v) ==
  CASE shape = "player"      -> IsPlayer(v)
    [] shape = "position"    -> IsPosition(v)
    [] shape = "block"       -> IsBlock(v)
    [] shape = "permissions" -> ArePermissions(v)
    [] shape = "string"      -> IsString(v)
    [] shape = "int64"       -> v.kind = "int64"
    [] shape = "double"      -> IsFinite(v)

-----------------------------------------------------------------------------
(* Paths and mutations *)

\* A path names a field, or an element of a field that is a list. (Deeper ones
\* are the same again and no layout here has the depth for them.)
HasPath(fields, path) ==
  /\ Len(path) \in 1..2
  /\ path[1] < Len(fields)
  /\ Len(path) = 2 => /\ fields[path[1] + 1].kind = "list"
                      /\ path[2] < Len(fields[path[1] + 1].items)

\* abi.ApplyPath, for a path that exists: a new list, the old one untouched.
ApplyPath(fields, mutation) ==
  IF Len(mutation.path) = 1
  THEN [fields EXCEPT ![mutation.path[1] + 1] = mutation.value]
  ELSE [fields EXCEPT ![mutation.path[1] + 1].items[mutation.path[2] + 1] = mutation.value]

\* Applying a list of mutations in order stops at the first path that does not
\* exist. The loop of replay, and what the end that receives a verdict does:
\* what there is after each mutation, and in the end.
Applying(fields, mutations) ==
  LET done[k \in 0..Len(mutations)] ==
        IF k = 0 THEN [ok |-> TRUE, fields |-> fields]
        ELSE LET before == done[k - 1] IN
             IF before.ok /\ HasPath(before.fields, mutations[k].path)
             THEN [ok |-> TRUE, fields |-> ApplyPath(before.fields, mutations[k])]
             ELSE [ok |-> FALSE, fields |-> before.fields]
  IN done

ApplyAll(fields, mutations) == Applying(fields, mutations)[Len(mutations)]

Mutation(path, value) == [path |-> path, value |-> value]

\* abi.Diff: one mutation for each leaf that moved, the whole field where the
\* two sides are not lists of one length. No two of them touch, so their order is
\* of no account.
SameShape(before, after) ==
  before.kind = "list" /\ after.kind = "list" /\ Len(before.items) = Len(after.items)

Moved(i, before, after) ==
  IF SameShape(before, after)
  THEN {<<i - 1, j - 1>> : j \in {j \in DOMAIN before.items : before.items[j] # after.items[j]}}
  ELSE IF before # after THEN {<<i - 1>>} ELSE {}

At(fields, path) ==
  IF Len(path) = 1 THEN fields[path[1] + 1] ELSE fields[path[1] + 1].items[path[2] + 1]

Diff(before, after) ==
  LET paths == SetToSeq(UNION {Moved(i, before[i], after[i]) : i \in DOMAIN before})
  IN [k \in DOMAIN paths |-> Mutation(paths[k], At(after, paths[k]))]
=============================================================================
