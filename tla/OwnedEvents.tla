------------------------------ MODULE OwnedEvents ------------------------------
(***************************************************************************)
(* The hooks on what happens to a player: AddRings, AddHP, DamagePlayer,   *)
(* KillPlayer and the item boxes.  A machine m is one process's view of    *)
(* that player: its game's data (body), whether the player is its own      *)
(* (mine), the two switches of the hooks and the TCP packet of the frame.  *)
(* An operator returns the machine after the call.                         *)
(*                                                                         *)
(* The originals are functions of the game: external, as far as the hooks  *)
(* show what they do.  A hit takes a barrier, or else all rings (through   *)
(* AddRings), or else the player's life (through KillPlayer).              *)
(***************************************************************************)
EXTENDS PacketQueue, Integers

Barriers == {"S_NBarrier", "S_TBarrier"}
Item == Barriers \cup {"S_Speedup", "S_Invincibility"}

Queued(m, type, data, allow_dupes) ==
    [m EXCEPT !.tcp_packet = Appended(@, Message(type, data), allow_dupes)]

-----------------------------------------------------------------------------
AddRings_original(m, n) == [m EXCEPT !.body.rings = @ + n]

\* The hook would give rings to any player, and tell.
AddRings_ungated(m, n) ==
    AddRings_original(IF m.toggle_hack
                      THEN Queued(m, "S_Rings", <<m.body.rings, n>>, TRUE) ELSE m, n)

\* Only the player's own game gives rings, and tells: the count before and the change.
AddRings_cpp(m, n) ==
    IF m.toggle_hack /\ ~m.mine THEN m
    ELSE AddRings_original(IF m.toggle_hack
                           THEN Queued(m, "S_Rings", <<m.body.rings, n>>, TRUE) ELSE m, n)

AddHP_original(m, n) == [m EXCEPT !.body.hp = @ + n]

AddHP_cpp(m, n) ==
    IF ~m.mine THEN m ELSE AddHP_original(Queued(m, "P_HP", <<m.body.hp, n>>, TRUE), n)

-----------------------------------------------------------------------------
KillPlayer_original(m) == [m EXCEPT !.body.deaths = @ + 1, !.body.action = "dead"]

\* A death by a hit is told by the hit, and nobody's own game kills the other player.
KillPlayer_cpp(m) ==
    IF m.called_damage THEN KillPlayer_original(m)
    ELSE IF ~m.mine THEN m
    ELSE KillPlayer_original(Queued(m, "P_Kill", <<>>, TRUE))

DamagePlayer_original(m) ==
    IF m.body.powers \cap Barriers # {}
    THEN [m EXCEPT !.body.powers = @ \ Barriers, !.body.action = "hurt"]
    ELSE IF m.body.rings > 0
    THEN AddRings_cpp([m EXCEPT !.body.action = "hurt"], -m.body.rings)
    ELSE KillPlayer_cpp(m)

Invincible(m) == "S_Invincibility" \in m.body.powers

\* The result of DamagePlayer is zero: hurt already, dead or invincible.
Unharmed(m) == m.body.action \in {"hurt", "dead"} \/ Invincible(m)

\* Rings would be told while a hit is under way.
InDamageTelling(m, on) == [m EXCEPT !.called_damage = on]

\* The switch of KillPlayer would stay on.
InDamageForEver(m, on) == [m EXCEPT !.toggle_hack = ~on, !.called_damage = @ \/ on]

\* AddRings_SyncToggle and called_damage, around the original.
InDamage(m, on) == [m EXCEPT !.toggle_hack = ~on, !.called_damage = on]

DamagePlayer_cpp(m) ==
    IF ~m.mine \/ Unharmed(m) THEN m
    ELSE InDamage(Queued(DamagePlayer_original(InDamage(m, TRUE)), "P_Damage", <<>>, FALSE), FALSE)

-----------------------------------------------------------------------------
Item_original(m, item) == [m EXCEPT !.body.powers = @ \cup {item}]

\* NBarrier_hax, TBarrier_hax, Speedup_hax, Invincibility_hax.
Item_hax(m, item) == IF ~m.mine THEN m ELSE Item_original(Queued(m, item, <<>>, FALSE), item)

DisplayItemBoxItem_original(m, tnum) == [m EXCEPT !.body.shown = Append(@, tnum)]

DisplayItemBoxItem_hax(m, tnum) ==
    IF ~m.mine THEN m
    ELSE DisplayItemBoxItem_original(Queued(m, "S_ItemBoxItem", tnum, TRUE), tnum)

-----------------------------------------------------------------------------
\* The message handlers call the original functions, for the player who sent the message.
RingsHandled(m, data) == AddRings_original([m EXCEPT !.body.rings = data[1]], data[2])

DamageHandled(m, type) ==
    IF type = "P_Kill" THEN KillPlayer_original(m)
    ELSE IF Invincible(m) THEN m
    ELSE InDamage(DamagePlayer_original(InDamage(m, TRUE)), FALSE)

ItemBoxHandled(m, msg) ==
    IF msg.type = "S_ItemBoxItem" THEN DisplayItemBoxItem_original(m, msg.data)
    ELSE Item_original(m, msg.type)

\* run_message_handler: the handler that is registered for the type.
Handled(m, msg) ==
    CASE msg.type = "S_Rings" -> RingsHandled(m, msg.data)
      [] msg.type \in {"P_Damage", "P_Kill"} -> DamageHandled(m, msg.type)
      [] msg.type \in Item \cup {"S_ItemBoxItem"} -> ItemBoxHandled(m, msg)

=============================================================================
