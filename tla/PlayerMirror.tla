----------------------------- MODULE PlayerMirror -----------------------------
(***************************************************************************)
(* PlayerObject and the exchange of it: send_player compares a player with *)
(* its last copy (mirror, net_player in the code) and requests what        *)
(* changed; receive_player puts a message into the receiver's copy of the  *)
(* sender, which read then writes to the game.  Positions are a            *)
(* coordinate; motion stands for rotation and speed, action for action,    *)
(* next action, status and animation, powers for powerups and upgrades.    *)
(***************************************************************************)
EXTENDS OwnedEvents

CONSTANT
    PositionThreshold   \* POSITION_THRESHOLD, in units of the model's coordinate

ASSUME PositionAssumption == PositionThreshold \in Nat \ {0}

LOCAL Distance(a, b) == IF a < b THEN b - a ELSE a - b

\* PlayerObject::copy: what a player object holds of the game's.
Copied(body) ==
    [action |-> body.action, powers |-> body.powers, position |-> body.position,
     motion |-> body.motion, hp |-> body.hp]

\* write_player would forget the powers.
WrittenWithoutPowers(body, mirror) ==
    [body EXCEPT !.action = mirror.action, !.position = mirror.position,
                 !.motion = mirror.motion, !.hp = mirror.hp]

\* PlayerObject::write_player: all of it goes back to the game.
Written(body, mirror) ==
    [body EXCEPT !.action = mirror.action, !.powers = mirror.powers,
                 !.position = mirror.position, !.motion = mirror.motion, !.hp = mirror.hp]

-----------------------------------------------------------------------------
\* add_packet.
PlayerMessage(type, body) ==
    Message(type, CASE type = "P_Action" -> body.action
                    [] type = "P_Powerups" -> body.powers
                    [] type = "P_Position" -> body.position
                    [] type = "P_Motion" -> body.motion)

\* The condition that is commented out in position_threshold: only what differs.
FarOrDifferent(last, current, due) ==
    \/ Distance(last, current) >= PositionThreshold
    \/ last # current /\ "position" \in due

\* position_threshold: far from the last copy, or the interval has gone by.
FarOrDue(last, current, due) ==
    Distance(last, current) >= PositionThreshold \/ "position" \in due

\* The messages of a change of action, in their order.
WithAction == <<"P_Action", "P_Position">>
WithMotion == <<"P_Motion", "P_Position">>

\* send_player: the requests, and then the copy, whatever was refused.
SendPlayer(m, due) ==
    LET all(types) == [i \in DOMAIN types |-> PlayerMessage(types[i], m.body)]
        far == FarOrDue(m.mirror.position, m.body.position, due)
        acts == m.mirror.action # m.body.action
        moves == /\ m.body.action # "object"
                 /\ m.mirror.motion # m.body.motion \/ "speed" \in due
        udp1 == IF far THEN RequestedAll(m.udp_packet, m.tcp_packet, all(<<"P_Position">>))
                ELSE m.udp_packet
        tcp1 == IF acts THEN RequestedAll(m.tcp_packet, udp1, all(WithAction)) ELSE m.tcp_packet
        udp2 == IF moves THEN RequestedAll(udp1, tcp1, all(WithMotion)) ELSE udp1
        tcp2 == IF m.mirror.powers # m.body.powers
                THEN RequestedAll(tcp1, udp2, all(<<"P_Powerups">>)) ELSE tcp1
    IN  [m EXCEPT !.tcp_packet = tcp2, !.udp_packet = udp2, !.mirror = Copied(m.body)]

\* position_timer and speed_timer start again when add_packet enters the message.
StillDue(m, due) ==
    LET in(type) == HoldsType(m.tcp_packet, type) \/ HoldsType(m.udp_packet, type)
    IN  due \ ((IF in("P_Position") THEN {"position"} ELSE {})
               \cup (IF in("P_Motion") THEN {"speed"} ELSE {}))

-----------------------------------------------------------------------------
\* The types between P_START and P_END.
Flagged(type) ==
    type \in {"P_Action", "P_Powerups", "P_Position", "P_Motion", "P_HP", "P_Damage", "P_Kill"}

\* Those of them that receive_player knows.
Mirrored(type) == Flagged(type) /\ type \notin {"P_Damage", "P_Kill"}

\* P_HP would be left out of the copy.
HPOfGameOnly(m, msg) == AddHP_original([m EXCEPT !.body.hp = msg.data[1]], msg.data[2])

\* P_HP: the game's HP, then the copy's.
HPOfBoth(m, msg) ==
    LET game == AddHP_original([m EXCEPT !.body.hp = msg.data[1]], msg.data[2])
    IN  [game EXCEPT !.mirror.hp = game.body.hp]

ReceivePlayer(m, msg) ==
    CASE msg.type = "P_Action" -> [m EXCEPT !.mirror.action = msg.data]
      [] msg.type = "P_Powerups" -> [m EXCEPT !.mirror.powers = msg.data]
      [] msg.type = "P_Position" -> [m EXCEPT !.mirror.position = msg.data]
      [] msg.type = "P_Motion" -> [m EXCEPT !.mirror.motion = msg.data]
      [] msg.type = "P_HP" -> HPOfBoth(m, msg)

\* read: the copy follows the game, unless write_player says it has to be written.
Refreshed(m) == IF m.write_player THEN m ELSE [m EXCEPT !.mirror = Copied(m.body)]

\* read, for a message about the other player.  P_Damage and P_Kill leave write_player
\* set: the next message then writes a copy from before the hit.
ReadPlayer(m, msg) ==
    LET seen == Refreshed(m)
        taken == ReceivePlayer(seen, msg)
    IN  IF Mirrored(msg.type)
        THEN [taken EXCEPT !.body = Written(taken.body, taken.mirror), !.write_player = FALSE]
        ELSE Handled([seen EXCEPT !.write_player = Flagged(msg.type)], msg)

=============================================================================
