---------------------------- MODULE NativeEvents ----------------------------
(***************************************************************************)
(* The native events of events.gen.go, one definition for each.            *)
(*                                                                         *)
(* The file states four things about an event in four places: the layout   *)
(* its decoder reads, the fields its struct documents as Mutable, whether  *)
(* its typed handler is given an EventControl, and, in two functions over  *)
(* all of them, whether a cancellation is reported and which fields are    *)
(* compared for the verdict.  Here they are as separate: the first three   *)
(* in the event's record, the last two in operators of their own.          *)
(***************************************************************************)
EXTENDS Values

\* The shapes of the fields, the ones documented as Mutable (counted from 0), and
\* whether the typed handler is given a control.
Native(layout, mutable, control) == [layout |-> layout, mutable |-> mutable, control |-> control]

BlockBreak == Native(<<"player", "position", "block", "string", "permissions">>, {}, TRUE)
PlayerJoin == Native(<<"player", "permissions">>, {}, FALSE)
BlockPlace ==
  Native(<<"player", "position", "block", "block", "int64", "permissions">>, {}, TRUE)
PlayerQuit == Native(<<"player", "string">>, {}, FALSE)
PlayerChat == Native(<<"player", "string", "permissions">>, {1}, TRUE)
PlayerCommand == Native(<<"player", "string", "permissions">>, {1}, TRUE)
PlayerDamage == Native(<<"player", "double", "string", "permissions">>, {1}, TRUE)
PlayerDeath == Native(<<"player", "string">>, {}, FALSE)
PlayerRespawn == Native(<<"player", "double", "double", "double", "int64">>, {}, FALSE)
PlayerTeleport ==
  Native(<<"player", "double", "double", "double", "double", "double", "double",
           "int64", "permissions">>, {4, 5, 6}, TRUE)
PlayerInteract ==
  Native(<<"player", "string", "position", "int64", "string", "int64", "permissions">>, {}, TRUE)
InventoryClick ==
  Native(<<"player", "string", "int64", "int64", "int64", "permissions">>, {}, TRUE)
ItemUse == Native(<<"player", "string", "int64", "permissions">>, {}, TRUE)
EntityDamage == Native(<<"int64", "string", "double", "string", "int64">>, {2}, TRUE)

\* The names a manifest spells, and what this build generated for each.
NativeEvents ==
  [type \in {"block.break", "player.join", "block.place", "player.quit", "player.chat",
             "player.command", "player.damage", "player.death", "player.respawn",
             "player.teleport", "player.interact", "inventory.click", "item.use",
             "entity.damage"} |->
     CASE type = "block.break"     -> BlockBreak
       [] type = "player.join"     -> PlayerJoin
       [] type = "block.place"     -> BlockPlace
       [] type = "player.quit"     -> PlayerQuit
       [] type = "player.chat"     -> PlayerChat
       [] type = "player.command"  -> PlayerCommand
       [] type = "player.damage"   -> PlayerDamage
       [] type = "player.death"    -> PlayerDeath
       [] type = "player.respawn"  -> PlayerRespawn
       [] type = "player.teleport" -> PlayerTeleport
       [] type = "player.interact" -> PlayerInteract
       [] type = "inventory.click" -> InventoryClick
       [] type = "item.use"        -> ItemUse
       [] type = "entity.damage"   -> EntityDamage]

IsNative(type) == type \in DOMAIN NativeEvents

\* eventFrom: a native event reads against its layout, field by field and no
\* field more; any other name is a plugin's own, whose layout is not known
\* here, and is only refused when it is empty.
EventFrom(type, fields) ==
  IF IsNative(type)
  THEN LET layout == NativeEvents[type].layout
       IN Len(fields) = Len(layout) /\ \A i \in DOMAIN layout : Reads(layout[i], fields[i])
  ELSE type # ""

\* Mutant of NativeCancellable: one event is missing from the switch.
NativeCancellableButItemUse(type) ==
  type \in {"block.break", "block.place", "player.chat", "player.command", "player.damage",
            "player.teleport", "player.interact", "inventory.click", "entity.damage"}

\* nativeCancellable.
NativeCancellable(type) ==
  type \in {"block.break", "block.place", "player.chat", "player.command", "player.damage",
            "player.teleport", "player.interact", "inventory.click", "item.use",
            "entity.damage"}

\* The mutation for a field that is compared with what arrived, counted from 0:
\* as a whole, if it moved.
IfMoved(i, before, event) ==
  IF event[i + 1] # before[i + 1] THEN <<Mutation(<<i>>, event[i + 1])>> ELSE <<>>

\* nativeMutations.
NativeMutations(type, before, event) ==
  CASE type \in {"player.chat", "player.command", "player.damage"} -> IfMoved(1, before, event)
    [] type = "player.teleport" ->
         IfMoved(4, before, event) \o IfMoved(5, before, event) \o IfMoved(6, before, event)
    [] type = "entity.damage" -> IfMoved(2, before, event)
    [] OTHER -> <<>>
=============================================================================
