------------------------------ MODULE Arguments -----------------------------
(***************************************************************************)
(* What an invocation carries and what a command handler reads of it       *)
(* (command.go, command_value_decode.go, command_dispatch.go:48-82).       *)
(***************************************************************************)
EXTENDS Values

Texts == {"string", "greedy", "enum", "custom"}

IsItem(v) ==
  /\ IsList(v, 3)
  /\ IsString(v.items[1])
  /\ v.items[2].kind = "int64" /\ v.items[3].kind = "int64"

\* Mutant of Decodes: a kind it does not know is read as a text.
DecodesUntyped(kind, v) ==
  CASE kind \in {"integer", "duration"} -> v.kind = "int64"
    [] kind = "decimal"    -> v.kind = "double"
    [] kind = "player"     -> IsPlayer(v)
    [] kind = "blockPos"   -> IsPosition(v)
    [] kind = "blockState" -> IsBlock(v)
    [] kind = "item"       -> IsItem(v)
    [] OTHER               -> IsString(v)

\* commandValueFrom accepts the value as one of this kind. Unlike an event's, a
\* decimal may be any double.
Decodes(kind, v) ==
  CASE kind \in {"integer", "duration"} -> v.kind = "int64"
    [] kind = "decimal"    -> v.kind = "double"
    [] kind \in Texts      -> IsString(v)
    [] kind = "player"     -> IsPlayer(v)
    [] kind = "blockPos"   -> IsPosition(v)
    [] kind = "blockState" -> IsBlock(v)
    [] kind = "item"       -> IsItem(v)
    [] OTHER               -> FALSE

\* The console is an empty list, and no handle.
SenderDecodes(sender) == sender = List(<<>>) \/ IsPlayer(sender)

\* Mutant of ArgumentsDecode: of two values of one name the last is kept.
ArgumentsDecodeLastWins(arguments) ==
  \A i \in DOMAIN arguments : Decodes(arguments[i].kind, arguments[i].value)

\* commandValuesFrom: every value decodes, and no name comes twice.
ArgumentsDecode(arguments) ==
  /\ \A i \in DOMAIN arguments : Decodes(arguments[i].kind, arguments[i].value)
  /\ \A i, j \in DOMAIN arguments : i # j => arguments[i].name # arguments[j].name

\* A CommandValue: the field of its kind is filled, the others stay zero. (The
\* fields other than these two have no accessor.)
CommandValue(kind, v) ==
  [integer |-> IF kind = "integer" THEN v.atom ELSE "0",
   text    |-> IF kind \in Texts THEN v.atom ELSE ""]

CommandValues(arguments) ==
  [name \in {arguments[i].name : i \in DOMAIN arguments} |->
     LET last == CHOOSE i \in DOMAIN arguments :
                   arguments[i].name = name /\ \A j \in DOMAIN arguments : j > i => arguments[j].name # name
     IN CommandValue(arguments[last].kind, arguments[last].value)]

\* CommandValues.Integer and String: <<value, ok>>. Neither looks at the kind; an
\* empty text is no text.
ReadInteger(values, name) ==
  IF name \in DOMAIN values THEN <<values[name].integer, TRUE>> ELSE <<"0", FALSE>>

ReadString(values, name) ==
  IF name \in DOMAIN values /\ values[name].text # "" THEN <<values[name].text, TRUE>>
  ELSE <<"", FALSE>>
=============================================================================
