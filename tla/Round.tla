--------------------------------- MODULE Round ---------------------------------
(***************************************************************************)
(* A round as two machines see one player: the owner, whose player it is,  *)
(* and the other one, whose game replays that player.  It composes the     *)
(* packets of a frame (PacketQueue), the hooks (OwnedEvents), the mirror   *)
(* of the player (PlayerMirror), the input (InputSync) and, when the owner *)
(* is the host, the result screen (ResultScreen) with the owner's TCP      *)
(* stream and its datagrams, which may be lost and overtake each other     *)
(* (UdpSequence has the filter); TCP and UDP may overtake each other.      *)
(*                                                                         *)
(* Both machines stay in the round.  The other game changes the player it  *)
(* replays by what arrives, except for the position (Drift); a player who  *)
(* was hit cannot be hit again before the packet of that frame is sent.    *)
(***************************************************************************)
EXTENDS PlayerMirror, InputSync, ResultScreen

CONSTANTS
    Plays,          \* what may happen in one round: which kinds of things, and how many
    MaxDatagrams    \* bound: datagrams on the way

ASSUME PlaysAssumption == \A p \in Plays : p.count \in Nat
ASSUME BoundsAssumption == MaxDatagrams \in Nat \ {0}

Stick == 0..2
Coordinate == 0..2
Action == {"run", "object", "hurt", "dead"}
Motion == 0..1
Owner == "owner"
Other == "other"
Timer == {"position", "speed"}

VARIABLES
    machine,    \* what each of the two processes knows of the player
    due,        \* the owner's timers whose interval has gone by
    stream,     \* TCP, owner to other
    datagrams,  \* UDP, owner to other
    play,       \* the kinds of things that may happen in this round
    left,       \* bound: how many more of them
    mixed       \* of powers and action, what had changed in a frame before a hit

network == <<stream, datagrams>>
vars == <<machine, due, network, play, left, mixed>>

-----------------------------------------------------------------------------
StartBody == [action |-> "run", powers |-> {}, position |-> 0, motion |-> 0,
              hp |-> 2, rings |-> 0, deaths |-> 0, shown |-> <<>>]

StartPad == [on |-> FALSE, old |-> FALSE, x |-> 0]

StartMachine(side) ==
    [mine |-> side = Owner, toggle_hack |-> TRUE, called_damage |-> FALSE, write_player |-> FALSE,
     body |-> StartBody, mirror |-> Copied(StartBody), tcp_packet |-> <<>>, udp_packet |-> <<>>,
     pad |-> StartPad, net_input |-> [on |-> FALSE, x |-> 0], AnalogThing |-> 0, net_analog |-> 0,
     screen |-> NoScreen, choice |-> "none", disp_deleted |-> FALSE, unled |-> FALSE,
     local_data |-> Fresh, remote_data |-> Fresh,
     analog_timer |-> 0, angle_timer |-> 0, send_angle |-> FALSE, sticks |-> 0, angles |-> 0]

Init ==
    /\ machine = [side \in {Owner, Other} |-> StartMachine(side)]
    /\ due = {}
    /\ stream = <<>> /\ datagrams = <<>>
    /\ \E p \in Plays : play = p.kinds /\ left = p.count
    /\ mixed = {}

-----------------------------------------------------------------------------
(* What happens in the owner's game between two frames *)

owner == machine[Owner]

\* Something of that kind happens, and makes m of a machine.
Happens(kind, side, m) ==
    /\ kind \in play
    /\ left > 0
    /\ left' = left - 1
    /\ machine' = [machine EXCEPT ![side] = m]
    /\ UNCHANGED <<due, network, play>>

\* Something that does not hit the player.
Quiet(kind, m) == Happens(kind, Owner, m) /\ UNCHANGED mixed

Button == Quiet("button", [owner EXCEPT !.pad.on = ~@])
PushStick == \E x \in Stick \ {owner.pad.x} : Quiet("stick", [owner EXCEPT !.pad.x = x])
GetRings == Quiet("rings", AddRings_cpp(owner, 1))
ChangeHP == \E n \in {-1, 1} : Quiet("hp", AddHP_cpp(owner, n))
Die == owner.body.action # "dead" /\ Quiet("kill", KillPlayer_cpp(owner))
BreakBox == \E item \in play \cap Item : Quiet(item, Item_hax(owner, item))
ShowItem == \E tnum \in {1, 2} : Quiet("show", DisplayItemBoxItem_hax(owner, tnum))

\* What a hit finds changed since the last copy: the powers, which an item box may also
\* have given again without a change, and the action.
Changed(m) ==
    {what \in {"powers", "action"} :
        \/ m.body[what] # m.mirror[what]
        \/ what = "powers" /\ \E item \in Item : HoldsType(m.tcp_packet, item)}

Hit ==
    /\ ~Unharmed(owner)
    /\ Happens("hit", Owner, DamagePlayer_cpp(owner))
    /\ mixed' = mixed \cup Changed(owner)

\* A player who was hurt or has died recovers, some frames later.
Recover ==
    /\ owner.body.action \in {"hurt", "dead"}
    /\ ~HoldsType(owner.tcp_packet, "P_Damage") /\ ~HoldsType(owner.tcp_packet, "P_Kill")
    /\ Quiet("recover", [owner EXCEPT !.body.action = "run"])

\* The player grabs an object or lets go of it.
Act == \E a \in {"run", "object"} \ {owner.body.action} :
    owner.body.action \in {"run", "object"} /\ Quiet("act", [owner EXCEPT !.body.action = a])

Move == \E x \in Coordinate \ {owner.body.position} :
    Quiet("move", [owner EXCEPT !.body.position = x])
Turn == Quiet("turn", [owner EXCEPT !.body.motion = 1 - @])

\* Powers other than barriers wear off, in another frame than they were gained in.
WearOff ==
    /\ owner.body.powers \ Barriers # {} /\ owner.body.powers = owner.mirror.powers
    /\ Quiet("wearoff", [owner EXCEPT !.body.powers = @ \cap Barriers])

\* The same in the other machine's game: the hooks decide.
Replayed ==
    \E m \in {AddRings_cpp(machine[Other], 1), KillPlayer_cpp(machine[Other]),
              DamagePlayer_cpp(machine[Other]), Item_hax(machine[Other], "S_NBarrier"),
              DisplayItemBoxItem_hax(machine[Other], 1), AddHP_cpp(machine[Other], -1),
              OnWin(machine[Other])} :
        Happens("replayed", Other, m) /\ UNCHANGED mixed

\* The other machine's physics leads the player somewhere else.
Drift == \E x \in Coordinate \ {machine[Other].body.position} :
    Happens("drift", Other, [machine[Other] EXCEPT !.body.position = x]) /\ UNCHANGED mixed

\* The host's game ends the round; between two rounds are synchronization points, at
\* which everything sent before is read and both have left the result screen.
Win ==
    /\ owner.screen = NoScreen /\ machine[Other].screen = NoScreen
    /\ stream = <<>> /\ owner.tcp_packet = <<>>
    /\ Quiet("win", OnWin(owner))

\* A player chooses something on the result screen.
Choose(side) ==
    /\ machine[side].screen # NoScreen
    /\ \E choice \in {"select", "continue"} :
           Happens("choose", side, [machine[side] EXCEPT !.choice = choice])
    /\ UNCHANGED mixed

Happening ==
    \/ Button \/ PushStick \/ GetRings \/ ChangeHP \/ Die \/ BreakBox \/ ShowItem \/ Hit
    \/ Recover \/ Act \/ Move \/ Turn \/ WearOff \/ Replayed \/ Drift
    \/ Win \/ Choose(Owner) \/ Choose(Other)

-----------------------------------------------------------------------------
(* The frames and the network *)

\* The game runs the result screen, OnFrame sends the player, the next frame's OnInput
\* the packets, then OnControl runs.
OwnerFrame ==
    \E shown \in {DispWinnerAndContinue(owner)} :
    \E compared \in {SendPlayer(shown, due)} : \E ready \in {OnInputOwn(compared)} :
        /\ stream' = Sent(stream, ready.tcp_packet)
        /\ datagrams' = Sent(datagrams, ready.udp_packet)
        /\ Len(datagrams') <= MaxDatagrams
        /\ due' = StillDue(compared, due)
        /\ \E flushed \in {[ready EXCEPT !.tcp_packet = <<>>, !.udp_packet = <<>>]} :
               machine' = [machine EXCEPT ![Owner] = OnControlOwn(flushed)]
        /\ UNCHANGED <<play, left, mixed>>

\* POSITION_INTERVAL or SPEED_INTERVAL has gone by, in a round that lasts that long.
Elapse(timer) ==
    /\ timer \in play
    /\ timer \notin due
    /\ due' = due \cup {timer}
    /\ UNCHANGED <<machine, network, play, left, mixed>>

\* read, at the other machine.
Read(m, msg) ==
    LET looked == [Refreshed(m) EXCEPT !.write_player = FALSE]
    IN  IF msg.type \in {"I_Buttons", "I_Analog", "I_AnalogAngle"} THEN ReadInput(looked, msg)
        ELSE IF msg.type \in {"S_Win", "S_WinData"} THEN ReadResult(looked, msg)
        ELSE ReadPlayer(m, msg)

\* The messages of a packet one after the other (the CHOOSE has TLC evaluate each step
\* once).
ReadAll(m, packet) ==
    LET after[i \in 0..Len(packet)] ==
            IF i = 0 THEN m
            ELSE CHOOSE next \in {Read(last, packet[i]) : last \in {after[i - 1]}} : TRUE
    IN  after[Len(packet)]

ReceivePacket(packet) ==
    \E m \in {ReadAll(machine[Other], packet)} : machine' = [machine EXCEPT ![Other] = m]

ReceiveTcp ==
    /\ stream # <<>>
    /\ ReceivePacket(Head(stream))
    /\ stream' = Tail(stream)
    /\ UNCHANGED <<due, datagrams, play, left, mixed>>

\* Any datagram on the way may arrive next: the filter refuses some that were overtaken,
\* not all of them (UdpSequence).
ReceiveUdp(i) ==
    /\ i \in DOMAIN datagrams
    /\ ReceivePacket(datagrams[i])
    /\ datagrams' = RemoveAt(datagrams, i)
    /\ UNCHANGED <<due, stream, play, left, mixed>>

\* A datagram is lost, or refused.
LoseUdp(i) ==
    /\ i \in DOMAIN datagrams
    /\ datagrams' = RemoveAt(datagrams, i)
    /\ UNCHANGED <<machine, due, stream, play, left, mixed>>

\* The result screen, OnInput and OnControl at the other machine.
OtherFrame ==
    /\ \E shown \in {DispWinnerAndContinue(machine[Other])} :
           machine' = [machine EXCEPT ![Other] = OnControlOther(OnInputOther(shown))]
    /\ UNCHANGED <<due, network, play, left, mixed>>

Next ==
    \/ Happening
    \/ OwnerFrame \/ OtherFrame
    \/ \E timer \in Timer : Elapse(timer)
    \/ ReceiveTcp
    \/ \E i \in DOMAIN datagrams : ReceiveUdp(i) \/ LoseUdp(i)

\* A datagram with a message of that type arrives.
Arrives(type) ==
    \E i \in DOMAIN datagrams : HoldsType(datagrams[i], type) /\ ReceiveUdp(i)

\* Both games run, time passes, and of the datagrams that are sent again and again with
\* a message some arrive.  Nothing forces anything to happen in the game.
Fairness ==
    /\ WF_vars(OwnerFrame) /\ WF_vars(OtherFrame)
    /\ WF_vars(ReceiveTcp)
    /\ \A timer \in Timer : WF_vars(Elapse(timer))
    /\ WF_vars(\E i \in DOMAIN datagrams : ReceiveUdp(i) \/ LoseUdp(i))
    /\ \A type \in {"P_Position", "P_Motion"} : SF_vars(Arrives(type))

Spec == Init /\ [][Next]_vars /\ Fairness

-----------------------------------------------------------------------------
(* Properties *)

Screen == [Action : {"initialize", "menu", "continue"}, Selection : {0, 1}]

\* The data of a message of each type.
Data(type) ==
    CASE type = "S_Rings" -> Int \X Int
      [] type = "P_HP" -> Int \X Int
      [] type \in {"P_Damage", "P_Kill", "S_Win"} \cup Item -> {<<>>}
      [] type = "S_WinData" -> Screen
      [] type = "S_ItemBoxItem" -> {1, 2}
      [] type = "P_Action" -> Action
      [] type = "P_Powerups" -> SUBSET Item
      [] type = "P_Position" -> Coordinate
      [] type = "P_Motion" -> Motion
      [] type = "I_Buttons" -> BOOLEAN
      [] type = "I_Analog" -> [x : Stick, number : Nat]
      [] type = "I_AnalogAngle" -> [thing : Stick, number : Nat]

PacketOK(packet) == \A i \in DOMAIN packet : packet[i].data \in Data(packet[i].type)

\* The type invariant: a player never has fewer than no rings, a packet holds what its
\* types call for, and no switch of the hooks stays set after a call.
TypeOK ==
    /\ \A side \in {Owner, Other} :
        LET m == machine[side]
        IN  /\ m.body.action \in Action /\ m.body.powers \subseteq Item
            /\ m.body.position \in Coordinate /\ m.body.motion \in Motion
            /\ m.body.rings \in Nat /\ m.body.deaths \in Nat /\ m.body.hp \in Int
            /\ m.body.shown \in Seq({1, 2})
            /\ m.mirror.action \in Action /\ m.mirror.powers \subseteq Item
            /\ m.pad.x \in Stick /\ m.net_input.x \in Stick
            /\ m.AnalogThing \in Stick \cup {OtherCamera} /\ m.net_analog \in Stick
            /\ m.analog_timer < AnalogFrames /\ m.angle_timer < AnalogFrames
            /\ m.toggle_hack /\ ~m.called_damage
            /\ m.screen \in Screen \cup {NoScreen}
            /\ m.local_data \in Screen /\ m.remote_data \in Screen
            /\ PacketOK(m.tcp_packet) /\ PacketOK(m.udp_packet)
    /\ due \subseteq Timer
    /\ \A i \in DOMAIN stream : PacketOK(stream[i])
    /\ \A i \in DOMAIN datagrams : PacketOK(datagrams[i])
    /\ Len(datagrams) <= MaxDatagrams
    /\ left \in Nat

\* Everything the owner has told by TCP has arrived.
Settled == stream = <<>> /\ owner.tcp_packet = <<>>

other == machine[Other]

\* Rings, lives and the items shown: once everything has arrived, both machines
\* count the same, however hits (which take rings or the life without a message of
\* their own) mix with what is told (AddRings.cpp:12-31, Damage.cpp:41-84); unless the
\* player was hit in the very frame its powers changed in or were given again.
EventsAgree ==
    (Settled /\ "powers" \notin mixed) =>
        /\ other.body.rings = owner.body.rings /\ other.body.deaths = owner.body.deaths
        /\ other.body.shown = owner.body.shown

\* The HP of a mech: once everything has arrived, both machines have the same, although
\* what is written back to the game after other messages includes the HP of the copy
\* (PacketBroker.cpp:1182-1190, PlayerObject.cpp:121-124).
HPAgrees == Settled => other.body.hp = owner.body.hp

\* What the other machine applies it never tells back, nor what its own game makes of
\* the player: its packet has no message of the owner's (Damage.cpp:50, AddRings.cpp:20).
NothingEchoed == other.tcp_packet = <<>>

\* The action and the powers, once everything has arrived and been compared, although
\* every message writes the whole copy back (PacketBroker.cpp:358-374, 1143); unless the
\* player was hit in the very frame they changed in.
MirrorAgrees ==
    (Settled /\ Copied(owner.body) = owner.mirror) =>
        \A what \in {"powers", "action"} \ mixed : other.body[what] = owner.body[what]

\* The other machine's controller ends up with the owner's buttons (OnInput.cpp:94-98).
ButtonsFollow == <>[](other.pad.on = owner.pad.on)

\* The last stick message stands for the stick: if it arrived last, the other machine's
\* stick is the owner's, also after a movement below the threshold (OnInput.cpp:100-117).
StickFollows == <>[](other.sticks = owner.sticks => other.pad.x = owner.pad.x)

\* The same for the direction the game makes of the stick, whatever the camera of the
\* other machine shows (OnInput.cpp:160-188).
AngleFollows ==
    <>[](other.sticks = owner.sticks /\ other.angles = owner.angles =>
            other.AnalogThing = owner.AnalogThing)

\* The position ends up right, whatever was lost, overtaken or moved elsewhere by the
\* other game; rotation and speed as well unless an object has the player
\* (PacketBroker.cpp:50-69, 737-780).
PositionFollows ==
    <>[](/\ other.body.position = owner.body.position
         /\ owner.body.action # "object" => other.body.motion = owner.body.motion)

\* The result screens end up the same, in the next rounds as well: nothing of a screen
\* is left for the next one; unless the client has gone on from a screen before it was
\* told anything about it (OnResult.cpp:76-146).
ResultFollows == <>[](other.unled \/ other.screen = owner.screen)

=============================================================================
