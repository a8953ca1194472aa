------------------------------- MODULE InputSync -------------------------------
(***************************************************************************)
(* OnInput and OnControl: a player's buttons, stick and analog direction   *)
(* on the player's machine, and on the one that replays them.  A machine m *)
(* has the controller (pad), the values last sent or received (net_input,  *)
(* net_analog) and the direction the game uses (AnalogThing).  The stick   *)
(* is one axis; the direction is the stick's own position, as the camera   *)
(* of the player's machine makes it.                                       *)
(*                                                                         *)
(* The messages of stick and direction are numbered, so that the           *)
(* properties can tell which one was read last.                            *)
(***************************************************************************)
EXTENDS PacketQueue, Integers

CONSTANTS
    AnalogThreshold,    \* analog_threshold, in positions of the model's stick
    AnalogFrames        \* analog_frames / FrameIncrement

ASSUME AnalogAssumption == AnalogThreshold \in Nat \ {0} /\ AnalogFrames \in Nat \ {0}

LOCAL Delta(a, b) == IF a < b THEN b - a ELSE a - b

\* A direction that only the camera of the receiver's machine explains.
OtherCamera == -1

\* Only a press would be sent.
ButtonsPressed(pad) == pad.on /\ ~pad.old

\* pad->press || pad->release.
ButtonsChanged(pad) == pad.on # pad.old

\* Only a large movement would be sent.
LargeOnly(m, timer) == Delta(m.net_input.x, m.pad.x) >= AnalogThreshold

\* A large movement, or every analog_frames.
LargeOrTimer(m, timer) == Delta(m.net_input.x, m.pad.x) >= AnalogThreshold \/ timer = 0

\* OnInput, the player's own pad, up to finalize.
OnInputOwn(m) ==
    LET buttons == ButtonsChanged(m.pad)
        moved == m.pad.x # m.net_input.x
        timer == (m.analog_timer + 1) % AnalogFrames
        byUdp == moved /\ LargeOrTimer(m, timer)
        byTcp == moved /\ ~byUdp /\ m.pad.x = 0
        sent == IF byUdp \/ byTcp THEN m.sticks + 1 ELSE m.sticks
        stick == Message("I_Analog", [x |-> m.pad.x, number |-> sent])
        tcp1 == IF buttons THEN Appended(m.tcp_packet, Message("I_Buttons", m.pad.on), FALSE)
                ELSE m.tcp_packet
    IN  [m EXCEPT
            !.tcp_packet = IF byTcp THEN Appended(tcp1, stick, FALSE) ELSE tcp1,
            !.udp_packet = IF byUdp THEN Appended(@, stick, FALSE) ELSE @,
            !.net_input.on = IF buttons THEN m.pad.on ELSE @,
            !.net_input.x = IF byUdp \/ byTcp THEN m.pad.x ELSE @,
            !.pad.old = m.pad.on,
            !.sticks = sent,
            !.analog_timer = IF byUdp THEN 0 ELSE IF moved THEN timer ELSE @,
            !.send_angle = @ \/ byUdp \/ byTcp \/ buttons]

\* OnControl, the player's own direction.
OnControlOwn(m) ==
    LET thing == m.pad.x
        timer == IF m.send_angle THEN m.angle_timer ELSE (m.angle_timer + 1) % AnalogFrames
        send_angle == m.send_angle \/ timer = 0
        sends == \/ Delta(m.net_analog, thing) >= AnalogThreshold
                 \/ send_angle /\ thing # m.net_analog
        angle == Message("I_AnalogAngle", [thing |-> thing, number |-> m.angles + 1])
    IN  [m EXCEPT
            !.udp_packet = IF sends THEN Appended(@, angle, FALSE) ELSE @,
            !.net_analog = IF sends THEN thing ELSE @,
            !.AnalogThing = thing,
            !.angles = IF sends THEN @ + 1 ELSE @,
            !.angle_timer = timer,
            !.send_angle = send_angle /\ ~sends]

-----------------------------------------------------------------------------
\* MessageHandler of OnInput.
ReadInput(m, msg) ==
    CASE msg.type = "I_Buttons" -> [m EXCEPT !.net_input.on = msg.data]
      [] msg.type = "I_Analog" -> [m EXCEPT !.net_input.x = msg.data.x, !.sticks = msg.data.number]
      [] msg.type = "I_AnalogAngle" ->
            [m EXCEPT !.net_analog = msg.data.thing, !.AnalogThing = msg.data.thing,
                      !.angles = msg.data.number]

\* OnInput, another player's pad.
OnInputOther(m) ==
    [m EXCEPT !.pad = [on |-> m.net_input.on, old |-> m.net_input.on, x |-> m.net_input.x]]

\* OnControl would leave the direction to the game.
ControlledLocally(m, thing) == [m EXCEPT !.AnalogThing = thing]

\* OnControl, another player's direction: the received one, while its stick is pushed.
ControlledRemotely(m, thing) ==
    [m EXCEPT !.AnalogThing = IF m.net_input.x # 0 THEN m.net_analog ELSE thing]

\* The game makes a direction of the pad and its own camera, then OnControl runs.
OnControlOther(m) == ControlledRemotely(m, IF m.pad.x = 0 THEN 0 ELSE OtherCamera)

=============================================================================
