-------------------------- MODULE RoundReadingProofs ---------------------------
(***************************************************************************)
(* What the operations of Round do to a machine, whatever the machine: the *)
(* hooks tell and change the player, the frame compares it with the last   *)
(* copy, and the other machine reads the messages of a packet one by one.  *)
(***************************************************************************)
EXTENDS Round, Induction, SequenceTheorems, TLAPS

-----------------------------------------------------------------------------
(* Types *)

Body == [action : Action, powers : SUBSET Item, position : Coordinate, motion : Motion,
         hp : Int, rings : Nat, deaths : Nat, shown : Seq({1, 2})]

Mirror == [action : Action, powers : SUBSET Item, position : Coordinate, motion : Motion,
           hp : Int]

Pad == [on : BOOLEAN, old : BOOLEAN, x : Stick]

NetInput == [on : BOOLEAN, x : Stick]

\* What is told by TCP and by UDP.
TcpType == {"S_Rings", "P_HP", "P_Damage", "P_Kill", "S_Win", "S_WinData", "S_ItemBoxItem",
            "P_Action", "P_Powerups", "P_Position", "I_Buttons", "I_Analog"} \cup Item

UdpType == {"P_Position", "P_Motion", "I_Analog", "I_AnalogAngle"}

\* Rings are told one by one.
Content(type) == IF type = "S_Rings" THEN Nat \X {1} ELSE Data(type)

Messages(types) == UNION {[type : {t}, data : Content(t)] : t \in types}

TcpMessage == Messages(TcpType)
UdpMessage == Messages(UdpType)

Frames == 0..(AnalogFrames - 1)

Machine == [mine : BOOLEAN, toggle_hack : BOOLEAN, called_damage : BOOLEAN,
            write_player : BOOLEAN, body : Body, mirror : Mirror,
            tcp_packet : Seq(TcpMessage), udp_packet : Seq(UdpMessage),
            pad : Pad, net_input : NetInput,
            AnalogThing : Stick \cup {OtherCamera}, net_analog : Stick,
            screen : Screen \cup {NoScreen}, choice : {"none", "select", "continue"},
            disp_deleted : BOOLEAN, unled : BOOLEAN, local_data : Screen, remote_data : Screen,
            analog_timer : Frames, angle_timer : Frames, send_angle : BOOLEAN,
            sticks : Nat, angles : Nat]

\* Between two calls the switches of the hooks are as they were.
Idle(m) == m.toggle_hack = TRUE /\ m.called_damage = FALSE

\* The machine of the player's own process, and that of the other one.
Player(m) == m \in Machine /\ Idle(m) /\ m.mine = TRUE
Replica(m) == m \in Machine /\ Idle(m) /\ m.mine = FALSE /\ m.tcp_packet = <<>>

-----------------------------------------------------------------------------
(* Machines with a field changed *)

\* The parts of a machine that an invariant is about.
LEMMA BodyType ==
    ASSUME NEW m \in Machine
    PROVE  m.body \in Body /\ m.mirror \in Mirror /\ Copied(m.body) \in Mirror
<1>1. m.body \in Body /\ m.mirror \in Mirror
  BY DEF Machine
<1> QED
  BY <1>1 DEF Copied, Body, Mirror

\* n is m but for the body, the packet, the switches of the hooks, or the copy.
Kept(m, n) == n \in Machine /\ n.mine = m.mine

OtherBody(m, b, n) ==
    /\ Kept(m, n) /\ n.body = b
    /\ n.toggle_hack = m.toggle_hack /\ n.called_damage = m.called_damage
    /\ n.write_player = m.write_player /\ n.mirror = m.mirror /\ n.tcp_packet = m.tcp_packet

OtherPacket(m, p, n) ==
    /\ Kept(m, n) /\ n.tcp_packet = p
    /\ n.toggle_hack = m.toggle_hack /\ n.called_damage = m.called_damage
    /\ n.write_player = m.write_player /\ n.mirror = m.mirror /\ n.body = m.body

Silent(m, n) ==
    /\ Kept(m, n) /\ n.toggle_hack = FALSE /\ n.called_damage = TRUE
    /\ n.write_player = m.write_player /\ n.mirror = m.mirror /\ n.body = m.body
    /\ n.tcp_packet = m.tcp_packet

Reset(m, n) ==
    /\ Kept(m, n) /\ n.toggle_hack = TRUE /\ n.called_damage = FALSE
    /\ n.write_player = m.write_player /\ n.mirror = m.mirror /\ n.body = m.body
    /\ n.tcp_packet = m.tcp_packet

\* The copy that read compares with: the game's player, unless it is still to be written.
Seen(m) == IF m.write_player THEN m.mirror ELSE Copied(m.body)

Looked(m, w, n) ==
    /\ Kept(m, n) /\ n.write_player = w /\ n.mirror = Seen(m)
    /\ n.toggle_hack = m.toggle_hack /\ n.called_damage = m.called_damage
    /\ n.body = m.body /\ n.tcp_packet = m.tcp_packet

\* A field replaced by one of its type.
LEMMA WithBody ==
    ASSUME NEW m \in Machine, NEW b \in Body
    PROVE  OtherBody(m, b, [m EXCEPT !.body = b])
BY DEF Machine, OtherBody, Kept

\* The same for a packet, and for the switches of the hooks around a hit.
LEMMA WithPacket ==
    ASSUME NEW m \in Machine, NEW p \in Seq(TcpMessage)
    PROVE  OtherPacket(m, p, [m EXCEPT !.tcp_packet = p])
BY DEF Machine, OtherPacket, Kept

LEMMA WithSwitches ==
    ASSUME NEW m \in Machine
    PROVE  Silent(m, InDamage(m, TRUE)) /\ Reset(m, InDamage(m, FALSE))
<1>1. Silent(m, InDamage(m, TRUE))
  BY DEF Machine, InDamage, Silent, Kept
<1>2. Reset(m, InDamage(m, FALSE))
  BY DEF Machine, InDamage, Reset, Kept
<1> QED
  BY <1>1, <1>2

\* What read does before a message is handled.
LEMMA WithCopy ==
    ASSUME NEW m \in Machine, NEW w \in BOOLEAN
    PROVE  Looked(m, w, [Refreshed(m) EXCEPT !.write_player = w])
<1>1. Seen(m) \in Mirror
  BY BodyType DEF Seen
<1>2. Refreshed(m) = [m EXCEPT !.mirror = Seen(m)]
  BY DEF Refreshed, Seen, Machine
<1>3. Looked(m, w, [[m EXCEPT !.mirror = Seen(m)] EXCEPT !.write_player = w])
  BY <1>1 DEF Machine, Looked, Kept
<1> QED
  BY <1>2, <1>3

-----------------------------------------------------------------------------
(* Messages *)

\* A message of a type, with data of that type.
LEMMA MessageType ==
    ASSUME NEW types, NEW t \in types, NEW d \in Content(t)
    PROVE  Message(t, d) \in Messages(types) /\ Message(t, d).type = t /\ Message(t, d).data = d
<1>1. Message(t, d) \in [type : {t}, data : Content(t)]
  BY DEF Message
<1> QED
  BY <1>1 DEF Message, Messages

\* What a message is made of.
LEMMA MessageFields ==
    ASSUME NEW types, NEW msg \in Messages(types)
    PROVE  msg.type \in types /\ msg.data \in Content(msg.type)
<1>1. PICK t \in types : msg \in [type : {t}, data : Content(t)]
  BY DEF Messages
<1> QED
  BY <1>1

\* A packet has what it had and perhaps the message, at its end.
LEMMA AppendedType ==
    ASSUME NEW types, NEW p \in Seq(Messages(types)), NEW msg \in Messages(types),
           NEW dupes \in BOOLEAN
    PROVE  /\ Appended(p, msg, dupes) \in Seq(Messages(types))
           /\ Appended(p, msg, dupes) \in {p, Append(p, msg)}
           /\ dupes => Appended(p, msg, dupes) = Append(p, msg)
           /\ ~HoldsType(p, msg.type) => Appended(p, msg, dupes) = Append(p, msg)
<1>1. Append(p, msg) \in Seq(Messages(types))
  BY AppendProperties
<1> QED
  BY <1>1 DEF Appended

\* A packet holds a type if it did, or if the message appended is of that type.
LEMMA HoldsAppend ==
    ASSUME NEW S, NEW p \in Seq(S), NEW msg \in S, NEW t
    PROVE  HoldsType(Append(p, msg), t) <=> (HoldsType(p, t) \/ msg.type = t)
<1> DEFINE q == Append(p, msg)
<1>1. /\ Len(q) = Len(p) + 1 /\ q[Len(p) + 1] = msg /\ Len(p) \in Nat
      /\ \A i \in 1..Len(p) : q[i] = p[i]
  BY AppendProperties, LenProperties
<1>2. DOMAIN p = 1..Len(p) /\ DOMAIN q = 1..Len(q)
  BY AppendProperties, LenProperties
<1> HIDE DEF q
<1>3. ASSUME HoldsType(q, t) PROVE HoldsType(p, t) \/ msg.type = t
  <2>1. PICK i \in 1..Len(q) : q[i].type = t
    BY <1>2, <1>3 DEF HoldsType
  <2>2. CASE i = Len(p) + 1
    BY <1>1, <2>1, <2>2
  <2>3. CASE i # Len(p) + 1
    <3>1. i \in 1..Len(p)
      BY <1>1, <2>1, <2>3
    <3> QED
      BY <1>1, <1>2, <2>1, <3>1 DEF HoldsType
  <2> QED
    BY <2>2, <2>3
<1>4. ASSUME HoldsType(p, t) PROVE HoldsType(q, t)
  <2>1. PICK i \in 1..Len(p) : p[i].type = t
    BY <1>2, <1>4 DEF HoldsType
  <2>2. i \in 1..Len(q) /\ q[i].type = t
    BY <1>1, <2>1
  <2> QED
    BY <1>2, <2>2 DEF HoldsType
<1>5. ASSUME msg.type = t PROVE HoldsType(q, t)
  <2>1. Len(p) + 1 \in 1..Len(q) /\ q[Len(p) + 1].type = t
    BY <1>1, <1>5
  <2> QED
    BY <1>2, <2>1 DEF HoldsType
<1> QED
  BY <1>3, <1>4, <1>5 DEF q

-----------------------------------------------------------------------------
(* The hooks *)

\* The data of each type, one by one.
LEMMA ContentOf ==
    /\ Content("S_Rings") = Nat \X {1} /\ Content("P_HP") = Int \X Int
    /\ \A t \in {"P_Damage", "P_Kill", "S_Win"} \cup Item : Content(t) = {<<>>}
    /\ Content("S_WinData") = Screen /\ Content("S_ItemBoxItem") = {1, 2}
    /\ Content("P_Action") = Action /\ Content("P_Powerups") = SUBSET Item
    /\ Content("P_Position") = Coordinate /\ Content("P_Motion") = Motion
    /\ Content("I_Buttons") = BOOLEAN /\ Content("I_Analog") = [x : Stick, number : Nat]
    /\ Content("I_AnalogAngle") = [thing : Stick, number : Nat]
BY DEF Content, Data, Item, Barriers

\* Queued changes nothing but the packet.
LEMMA QueuedMachine ==
    ASSUME NEW m \in Machine, NEW t \in TcpType, NEW d \in Content(t), NEW dupes \in BOOLEAN
    PROVE  OtherPacket(m, Appended(m.tcp_packet, Message(t, d), dupes), Queued(m, t, d, dupes))
<1>1. Message(t, d) \in TcpMessage
  BY MessageType DEF TcpMessage
<1>2. Appended(m.tcp_packet, Message(t, d), dupes) \in Seq(TcpMessage)
  <2>1. m.tcp_packet \in Seq(TcpMessage)
    BY DEF Machine
  <2> QED
    BY <1>1, <2>1, AppendedType DEF TcpMessage
<1> QED
  BY <1>2, WithPacket DEF Queued

\* A hook of the player's own game tells, and then changes the body.
Telling(m, n, t, d, dupes, b) ==
    /\ Player(n) /\ n.body = b /\ n.mirror = m.mirror
    /\ n.tcp_packet = Appended(m.tcp_packet, Message(t, d), dupes)

\* The hook that tells first and then has the original do its work.
LEMMA TellingHook ==
    ASSUME NEW m, Player(m), NEW t \in TcpType, NEW d \in Content(t), NEW dupes \in BOOLEAN,
           NEW b \in Body
    PROVE  Telling(m, [Queued(m, t, d, dupes) EXCEPT !.body = b], t, d, dupes, b)
<1> DEFINE q == Queued(m, t, d, dupes)
           p == Appended(m.tcp_packet, Message(t, d), dupes)
           n == [q EXCEPT !.body = b]
<1>1. m \in Machine
  BY DEF Player
<1>2. OtherPacket(m, p, q)
  BY <1>1, QueuedMachine
<1> HIDE DEF q, p
<1>3. q \in Machine
  BY <1>2 DEF OtherPacket, Kept
<1>4. OtherBody(q, b, n)
  BY <1>3, WithBody
<1> HIDE DEF n
<1>5. Player(n) /\ n.body = b /\ n.mirror = m.mirror /\ n.tcp_packet = p
  BY <1>2, <1>4 DEF OtherBody, OtherPacket, Kept, Player, Idle
<1> QED
  BY <1>5 DEF Telling, n, p, q

\* Queueing a message leaves the player alone.
LEMMA QueuedBody ==
    ASSUME NEW m, Player(m), NEW t \in TcpType, NEW d \in Content(t), NEW dupes \in BOOLEAN
    PROVE  Queued(m, t, d, dupes).body = m.body
BY QueuedMachine DEF Player, OtherPacket

\* Each hook of the player's own game (AddRings.cpp:12-31, Damage.cpp:41-84, ItemBoxItems.cpp).
LEMMA AddRingsTells ==
    ASSUME NEW m, Player(m)
    PROVE  Telling(m, AddRings_cpp(m, 1), "S_Rings", <<m.body.rings, 1>>, TRUE,
                   [m.body EXCEPT !.rings = @ + 1])
<1> DEFINE d == <<m.body.rings, 1>>
           b == [m.body EXCEPT !.rings = @ + 1]
<1>1. m.body \in Body
  BY BodyType DEF Player
<1>2. b \in Body /\ d \in Content("S_Rings") /\ "S_Rings" \in TcpType
  <2>1. b \in Body
    BY <1>1 DEF Body
  <2>2. m.body.rings \in Nat
    BY <1>1 DEF Body
  <2> QED
    BY <2>1, <2>2, ContentOf DEF TcpType
<1>3. Queued(m, "S_Rings", d, TRUE).body = m.body
  BY <1>2, QueuedBody
<1>4. AddRings_cpp(m, 1) = [Queued(m, "S_Rings", d, TRUE) EXCEPT !.body = b]
  BY <1>3 DEF AddRings_cpp, AddRings_original, Player, Idle
<1> HIDE DEF b, d
<1>5. Telling(m, [Queued(m, "S_Rings", d, TRUE) EXCEPT !.body = b], "S_Rings", d, TRUE, b)
  BY <1>2, TellingHook
<1> QED
  BY <1>4, <1>5 DEF b, d

LEMMA AddHPTells ==
    ASSUME NEW m, Player(m), NEW k \in Int
    PROVE  Telling(m, AddHP_cpp(m, k), "P_HP", <<m.body.hp, k>>, TRUE,
                   [m.body EXCEPT !.hp = @ + k])
<1> DEFINE d == <<m.body.hp, k>>
           b == [m.body EXCEPT !.hp = @ + k]
<1>1. m.body \in Body
  BY BodyType DEF Player
<1>2. b \in Body /\ d \in Content("P_HP") /\ "P_HP" \in TcpType
  <2>1. b \in Body
    BY <1>1 DEF Body
  <2>2. m.body.hp \in Int
    BY <1>1 DEF Body
  <2> QED
    BY <2>1, <2>2, ContentOf DEF TcpType
<1>3. Queued(m, "P_HP", d, TRUE).body = m.body
  BY <1>2, QueuedBody
<1>4. AddHP_cpp(m, k) = [Queued(m, "P_HP", d, TRUE) EXCEPT !.body = b]
  BY <1>3 DEF AddHP_cpp, AddHP_original, Player
<1> HIDE DEF b, d
<1>5. Telling(m, [Queued(m, "P_HP", d, TRUE) EXCEPT !.body = b], "P_HP", d, TRUE, b)
  BY <1>2, TellingHook
<1> QED
  BY <1>4, <1>5 DEF b, d

\* What a death makes of a player.
Dead(b) == [b EXCEPT !.deaths = @ + 1, !.action = "dead"]

\* What is left of the player after a death, or a hit, is a player.
LEMMA DeadType ==
    ASSUME NEW b \in Body PROVE Dead(b) \in Body
<1>1. "dead" \in Action /\ b.deaths + 1 \in Nat
  BY DEF Body, Action
<1> QED
  BY <1>1 DEF Body, Dead

LEMMA KillPlayerTells ==
    ASSUME NEW m, Player(m)
    PROVE  Telling(m, KillPlayer_cpp(m), "P_Kill", <<>>, TRUE, Dead(m.body))
<1> DEFINE b == Dead(m.body)
<1>1. m.body \in Body
  BY BodyType DEF Player
<1>2. b \in Body /\ <<>> \in Content("P_Kill") /\ "P_Kill" \in TcpType
  BY <1>1, ContentOf, DeadType DEF TcpType
<1>3. Queued(m, "P_Kill", <<>>, TRUE).body = m.body
  BY <1>2, QueuedBody
<1>4. KillPlayer_cpp(m) = [Queued(m, "P_Kill", <<>>, TRUE) EXCEPT !.body = b]
  BY <1>3 DEF KillPlayer_cpp, KillPlayer_original, Player, Idle, Dead
<1> HIDE DEF b
<1>5. Telling(m, [Queued(m, "P_Kill", <<>>, TRUE) EXCEPT !.body = b], "P_Kill", <<>>, TRUE, b)
  BY <1>2, TellingHook
<1> QED
  BY <1>4, <1>5 DEF b

LEMMA ItemTells ==
    ASSUME NEW m, Player(m), NEW item \in Item
    PROVE  Telling(m, Item_hax(m, item), item, <<>>, FALSE, [m.body EXCEPT !.powers = @ \cup {item}])
<1> DEFINE b == [m.body EXCEPT !.powers = @ \cup {item}]
<1>1. m.body \in Body
  BY BodyType DEF Player
<1>2. b \in Body /\ <<>> \in Content(item) /\ item \in TcpType
  BY <1>1, ContentOf DEF Body, TcpType
<1>3. Queued(m, item, <<>>, FALSE).body = m.body
  BY <1>2, QueuedBody
<1>4. Item_hax(m, item) = [Queued(m, item, <<>>, FALSE) EXCEPT !.body = b]
  BY <1>3 DEF Item_hax, Item_original, Player
<1> HIDE DEF b
<1>5. Telling(m, [Queued(m, item, <<>>, FALSE) EXCEPT !.body = b], item, <<>>, FALSE, b)
  BY <1>2, TellingHook
<1> QED
  BY <1>4, <1>5 DEF b

LEMMA ShowTells ==
    ASSUME NEW m, Player(m), NEW tnum \in {1, 2}
    PROVE  Telling(m, DisplayItemBoxItem_hax(m, tnum), "S_ItemBoxItem", tnum, TRUE,
                   [m.body EXCEPT !.shown = Append(@, tnum)])
<1> DEFINE b == [m.body EXCEPT !.shown = Append(@, tnum)]
<1>1. m.body \in Body
  BY BodyType DEF Player
<1>2. b \in Body /\ tnum \in Content("S_ItemBoxItem") /\ "S_ItemBoxItem" \in TcpType
  <2>1. Append(m.body.shown, tnum) \in Seq({1, 2})
    BY <1>1, AppendProperties DEF Body
  <2> QED
    BY <1>1, <2>1, ContentOf DEF Body, TcpType
<1>3. Queued(m, "S_ItemBoxItem", tnum, TRUE).body = m.body
  BY <1>2, QueuedBody
<1>4. DisplayItemBoxItem_hax(m, tnum)
          = [Queued(m, "S_ItemBoxItem", tnum, TRUE) EXCEPT !.body = b]
  BY <1>3 DEF DisplayItemBoxItem_hax, DisplayItemBoxItem_original, Player
<1> HIDE DEF b
<1>5. Telling(m, [Queued(m, "S_ItemBoxItem", tnum, TRUE) EXCEPT !.body = b], "S_ItemBoxItem", tnum, TRUE, b)
  BY <1>2, TellingHook
<1> QED
  BY <1>4, <1>5 DEF b

\* What a hit makes of a player.
Wounded(b) ==
    IF b.powers \cap Barriers # {} THEN [b EXCEPT !.powers = @ \ Barriers, !.action = "hurt"]
    ELSE IF b.rings > 0 THEN [b EXCEPT !.action = "hurt", !.rings = 0]
    ELSE Dead(b)

LEMMA WoundedType ==
    ASSUME NEW b \in Body PROVE Wounded(b) \in Body
BY DeadType DEF Body, Wounded, Action

\* The original of DamagePlayer, with the switches that silence the hooks it calls.
LEMMA SilentHit ==
    ASSUME NEW m \in Machine, m.toggle_hack = FALSE, m.called_damage = TRUE
    PROVE  DamagePlayer_original(m) = [m EXCEPT !.body = Wounded(m.body)]
<1>1. m.body \in Body
  BY BodyType
<1> DEFINE h == [m EXCEPT !.body.action = "hurt"]
<1>2. CASE m.body.powers \cap Barriers # {}
  BY <1>2 DEF DamagePlayer_original, Wounded
<1>3. CASE m.body.powers \cap Barriers = {} /\ m.body.rings > 0
  <2>1. [m.body EXCEPT !.action = "hurt"] \in Body
    BY <1>1 DEF Body, Action
  <2>2. h.toggle_hack = FALSE /\ h.body = [m.body EXCEPT !.action = "hurt"]
    BY <2>1, WithBody DEF OtherBody
  <2>3. AddRings_cpp(h, -m.body.rings) = [h EXCEPT !.body.rings = @ + (-m.body.rings)]
    BY <2>2 DEF AddRings_cpp, AddRings_original
  <2>4. h.body.rings + (-m.body.rings) = 0
    BY <1>1, <2>2 DEF Body
  <2>5. [h.body EXCEPT !.rings = 0] = [m.body EXCEPT !.action = "hurt", !.rings = 0]
    BY <2>2
  <2>6. [h EXCEPT !.body.rings = 0]
            = [m EXCEPT !.body = [m.body EXCEPT !.action = "hurt", !.rings = 0]]
    BY <2>5
  <2> QED
    BY <1>3, <2>3, <2>4, <2>6 DEF DamagePlayer_original, Wounded
<1>4. CASE m.body.powers \cap Barriers = {} /\ ~(m.body.rings > 0)
  BY <1>4 DEF DamagePlayer_original, Wounded, KillPlayer_cpp, KillPlayer_original, Dead
<1> QED
  BY <1>2, <1>3, <1>4

\* The whole of a hit before it is told: the switches are as they were.
LEMMA Strike ==
    ASSUME NEW m \in Machine
    PROVE  /\ Kept(m, DamagePlayer_original(InDamage(m, TRUE)))
           /\ DamagePlayer_original(InDamage(m, TRUE)).body = Wounded(m.body)
           /\ DamagePlayer_original(InDamage(m, TRUE)).write_player = m.write_player
           /\ DamagePlayer_original(InDamage(m, TRUE)).mirror = m.mirror
           /\ DamagePlayer_original(InDamage(m, TRUE)).tcp_packet = m.tcp_packet
<1> DEFINE s == InDamage(m, TRUE)
           n == DamagePlayer_original(s)
<1>1. Silent(m, s)
  BY WithSwitches
<1> HIDE DEF s
<1>2. n = [s EXCEPT !.body = Wounded(m.body)]
  BY <1>1, SilentHit DEF Silent, Kept
<1>3. Wounded(m.body) \in Body
  BY BodyType, WoundedType
<1>4. OtherBody(s, Wounded(m.body), n)
  BY <1>1, <1>2, <1>3, WithBody DEF Silent, Kept
<1> HIDE DEF n
<1>5. /\ Kept(m, n) /\ n.body = Wounded(m.body) /\ n.write_player = m.write_player
      /\ n.mirror = m.mirror /\ n.tcp_packet = m.tcp_packet
  BY <1>1, <1>4 DEF Silent, OtherBody, Kept
<1> QED
  BY <1>5 DEF n, s

LEMMA DamagePlayerTells ==
    ASSUME NEW m, Player(m), ~Unharmed(m)
    PROVE  Telling(m, DamagePlayer_cpp(m), "P_Damage", <<>>, FALSE, Wounded(m.body))
<1> DEFINE s == DamagePlayer_original(InDamage(m, TRUE))
           q == Queued(s, "P_Damage", <<>>, FALSE)
           p == Appended(s.tcp_packet, Message("P_Damage", <<>>), FALSE)
           n == InDamage(q, FALSE)
<1>1. /\ s \in Machine /\ s.body = Wounded(m.body) /\ s.mine = TRUE
      /\ s.mirror = m.mirror /\ s.tcp_packet = m.tcp_packet
  BY Strike DEF Player, Kept
<1>2. <<>> \in Content("P_Damage") /\ "P_Damage" \in TcpType
  BY ContentOf DEF TcpType
<1>3. DamagePlayer_cpp(m) = n
  BY DEF DamagePlayer_cpp, Player
<1> HIDE DEF s
<1>4. OtherPacket(s, p, q)
  BY <1>1, <1>2, QueuedMachine
<1> HIDE DEF q, p
<1>5. Reset(q, n)
  BY <1>4, WithSwitches DEF OtherPacket, Kept
<1> HIDE DEF n
<1>6. Player(n) /\ n.body = s.body /\ n.mirror = s.mirror /\ n.tcp_packet = p
  BY <1>1, <1>4, <1>5 DEF OtherPacket, Reset, Kept, Player, Idle
<1> QED
  BY <1>1, <1>3, <1>6 DEF Telling, p

-----------------------------------------------------------------------------
(* Requests *)

\* request takes its types one after the other.
LEMMA RequestedOne ==
    ASSUME NEW p, NEW exclude, NEW a
    PROVE  RequestedAll(p, exclude, <<a>>) = Requested(p, exclude, a)
<1> DEFINE R(q, m) == Requested(q, exclude, m)
           s == <<a>>
           Step(g, c) == IF c = {} THEN p
                         ELSE R(g[c \ {Max(c)}], s[Max(c)])
           Eq(g) == g = [c \in SUBSET {1} |-> Step(g, c)]
           f == [c \in SUBSET {1} |-> IF c = {} THEN p ELSE R(p, a)]
<1>1. DOMAIN s = {1} /\ s[1] = a
  OBVIOUS
<1>2. Max({1}) = 1
  BY DEF Max
<1>3. SUBSET {1} = {{}, {1}} /\ {1} \ {1} = {} /\ {1} # {}
  OBVIOUS
<1> HIDE DEF R, s
<1>4. f[{}] = p /\ f[{1}] = R(p, a)
  BY <1>3
<1>5. \A c \in SUBSET {1} : f[c] = Step(f, c)
  BY <1>1, <1>2, <1>3, <1>4
<1>6. Eq(f)
  <2> HIDE DEF Step
  <2> QED
    BY <1>5
<1> DEFINE e == CHOOSE g : Eq(g)
<1>7. Eq(e)
  <2> HIDE DEF Eq, f
  <2> QED
    BY <1>6
<1> HIDE DEF e
<1>8. e[{}] = p /\ e[{1}] = R(p, a)
  <2>1. \A c \in SUBSET {1} : e[c] = Step(e, c)
    <3> HIDE DEF Step
    <3> QED
      BY <1>7
  <2> QED
    BY <1>1, <1>2, <1>3, <2>1
<1>9. RequestedAll(p, exclude, s) = e[{1}]
  BY <1>1 DEF RequestedAll, FoldLeft, MapThenFoldSet, e, R
<1> QED
  BY <1>8, <1>9 DEF s, R

LEMMA RequestedTwo ==
    ASSUME NEW p, NEW exclude, NEW a, NEW b
    PROVE  RequestedAll(p, exclude, <<a, b>>) = Requested(Requested(p, exclude, a), exclude, b)
<1> DEFINE R(q, m) == Requested(q, exclude, m)
           s == <<a, b>>
           Step(g, c) == IF c = {} THEN p
                         ELSE R(g[c \ {Max(c)}], s[Max(c)])
           Eq(g) == g = [c \in SUBSET {1, 2} |-> Step(g, c)]
           f == [c \in SUBSET {1, 2} |->
                     IF c = {} THEN p ELSE IF c = {1} THEN R(p, a)
                     ELSE IF c = {2} THEN R(p, b) ELSE R(R(p, a), b)]
<1>1. DOMAIN s = {1, 2} /\ s[1] = a /\ s[2] = b
  OBVIOUS
<1>2. Max({1}) = 1 /\ Max({2}) = 2 /\ Max({1, 2}) = 2
  BY DEF Max
<1>3. /\ \A c \in SUBSET {1, 2} : c \in {{}, {1}, {2}, {1, 2}}
      /\ {} \in SUBSET {1, 2} /\ {1} \in SUBSET {1, 2}
      /\ {2} \in SUBSET {1, 2} /\ {1, 2} \in SUBSET {1, 2}
  <2>1. ASSUME NEW c \in SUBSET {1, 2} PROVE c \in {{}, {1}, {2}, {1, 2}}
    <3>1. CASE 1 \in c /\ 2 \in c
      BY <3>1
    <3>2. CASE 1 \in c /\ 2 \notin c
      <4>1. c = {1}
        BY <3>2
      <4> QED
        BY <4>1
    <3>3. CASE 1 \notin c /\ 2 \in c
      <4>1. c = {2}
        BY <3>3
      <4> QED
        BY <4>1
    <3>4. CASE 1 \notin c /\ 2 \notin c
      BY <3>4
    <3> QED
      BY <3>1, <3>2, <3>3, <3>4
  <2> QED
    BY <2>1
<1>0. /\ {1} \ {1} = {} /\ {2} \ {2} = {} /\ {1} # {} /\ {2} # {} /\ {1, 2} # {}
  OBVIOUS
<1>10. {1, 2} \ {2} = {1}
  OBVIOUS
<1>11. {1} # {2} /\ {1, 2} # {1} /\ {1, 2} # {2}
  OBVIOUS
<1> HIDE DEF R, s
<1>4. f[{}] = p /\ f[{1}] = R(p, a) /\ f[{2}] = R(p, b) /\ f[{1, 2}] = R(R(p, a), b)
  BY <1>3
<1>5. \A c \in SUBSET {1, 2} : f[c] = Step(f, c)
  <2>1. f[{}] = Step(f, {})
    BY <1>4
  <2>2. f[{1}] = Step(f, {1})
    BY <1>1, <1>2, <1>3, <1>0, <1>10, <1>11, <1>4
  <2>3. f[{2}] = Step(f, {2})
    BY <1>1, <1>2, <1>3, <1>0, <1>10, <1>11, <1>4
  <2>4. f[{1, 2}] = Step(f, {1, 2})
    BY <1>1, <1>2, <1>3, <1>0, <1>10, <1>11, <1>4
  <2> HIDE DEF f, Step
  <2> QED
    BY <1>3, <1>0, <1>10, <1>11, <2>1, <2>2, <2>3, <2>4
<1>6. Eq(f)
  <2> HIDE DEF Step
  <2> QED
    BY <1>5
<1> DEFINE e == CHOOSE g : Eq(g)
<1>7. Eq(e)
  <2> HIDE DEF Eq, f
  <2> QED
    BY <1>6
<1> HIDE DEF e
<1>8. e[{}] = p /\ e[{1}] = R(p, a) /\ e[{1, 2}] = R(R(p, a), b)
  <2>1. \A c \in SUBSET {1, 2} : e[c] = Step(e, c)
    <3> HIDE DEF Step
    <3> QED
      BY <1>7
  <2>2. e[{}] = p
    BY <1>3, <1>0, <1>10, <1>11, <2>1
  <2>3. e[{1}] = R(p, a)
    BY <1>1, <1>2, <1>3, <1>0, <1>10, <1>11, <2>1, <2>2
  <2>4. e[{1, 2}] = R(R(p, a), b)
    BY <1>1, <1>2, <1>3, <1>0, <1>10, <1>11, <2>1, <2>3
  <2> QED
    BY <2>2, <2>3, <2>4
<1>9. RequestedAll(p, exclude, s) = e[{1, 2}]
  BY <1>1 DEF RequestedAll, FoldLeft, MapThenFoldSet, e, R
<1> QED
  BY <1>8, <1>9 DEF s, R

-----------------------------------------------------------------------------
(* Reading a packet *)

\* The values of a function that reads a packet, message by message.
After(f, m, packet) == [i \in 0..Len(packet) |-> IF i = 0 THEN m ELSE Read(f[i - 1], packet[i])]

\* f is what the machine is after each of the messages of a packet.
Reading(f, m, packet) ==
    /\ f[0] = m
    /\ \A i \in 1..Len(packet) : f[i] = Read(f[i - 1], packet[i])

\* Reading a packet is a function of what has been read of it: nothing of it yet, or a
\* message more.
LEMMA ReadingExists ==
    ASSUME NEW m, NEW S, NEW packet \in Seq(S)
    PROVE  \E f : f = After(f, m, packet)
<1> DEFINE Value(f, i) == IF i = 0 THEN m ELSE Read(f[i - 1], packet[i])
           T == {n \in Nat : \E f : f = [i \in 0..n |-> Value(f, i)]}
<1>1. 0 \in T
  <2> DEFINE f == [i \in 0..0 |-> m]
  <2>1. f = [i \in 0..0 |-> Value(f, i)]
    OBVIOUS
  <2> QED
    BY <2>1
<1>2. ASSUME NEW n \in Nat, n \in T PROVE n + 1 \in T
  <2>1. PICK f : f = [i \in 0..n |-> Value(f, i)]
    BY <1>2
  <2> DEFINE g == [i \in 0..(n + 1) |-> IF i \in 0..n THEN f[i] ELSE Value(f, i)]
  <2>2. \A i \in 0..n : f[i] = Value(f, i)
    <3> HIDE DEF Value
    <3> QED
      BY <2>1
  <2>3. \A i \in 0..(n + 1) : g[i] = Value(f, i)
    <3> HIDE DEF Value
    <3> QED
      BY <2>2
  <2>4. \A i \in 0..(n + 1) : i # 0 => g[i - 1] = f[i - 1]
    OBVIOUS
  <2>5. \A i \in 0..(n + 1) : Value(g, i) = Value(f, i)
    <3> HIDE DEF g
    <3> QED
      BY <2>4
  <2>6. g = [i \in 0..(n + 1) |-> Value(g, i)]
    <3>1. \A i \in 0..(n + 1) : g[i] = Value(g, i)
      BY <2>3, <2>5
    <3> HIDE DEF Value
    <3> QED
      BY <3>1
  <2> HIDE DEF g, Value
  <2> QED
    BY <2>6
<1>3. T = Nat
  <2> HIDE DEF T
  <2>1. T \subseteq Nat
    BY DEF T
  <2> QED
    BY <1>1, <1>2, <2>1, SetInduction
<1>4. Len(packet) \in T
  <2> HIDE DEF T
  <2> QED
    BY <1>3, LenProperties
<1>5. PICK f : f = [i \in 0..Len(packet) |-> Value(f, i)]
  BY <1>4
<1> QED
  BY <1>5 DEF After

\* The function that ReadAll defines, without the CHOOSE.
LEMMA ReadAllIs ==
    ASSUME NEW m, NEW S, NEW packet \in Seq(S)
    PROVE  \E f : Reading(f, m, packet) /\ ReadAll(m, packet) = f[Len(packet)]
<1> DEFINE Value(f, i) == IF i = 0 THEN m ELSE Read(f[i - 1], packet[i])
           Chosen(f, i) == IF i = 0 THEN m
                           ELSE CHOOSE next \in {Read(last, packet[i]) : last \in {f[i - 1]}} : TRUE
           Eq(f) == f = [i \in 0..Len(packet) |-> Chosen(f, i)]
<1>1. \A x, msg : (CHOOSE next \in {Read(last, msg) : last \in {x}} : TRUE) = Read(x, msg)
  <2>1. ASSUME NEW x, NEW msg
        PROVE  (CHOOSE next \in {Read(last, msg) : last \in {x}} : TRUE) = Read(x, msg)
    <3>1. {Read(last, msg) : last \in {x}} = {Read(x, msg)}
      OBVIOUS
    <3>2. (CHOOSE next \in {Read(x, msg)} : TRUE) \in {Read(x, msg)}
      OBVIOUS
    <3> QED
      BY <3>1, <3>2
  <2> QED
    BY <2>1
<1>2. ASSUME NEW f, NEW i PROVE Chosen(f, i) = Value(f, i)
  <2>1. CASE i = 0
    BY <2>1
  <2>2. CASE i # 0
    <3>1. (CHOOSE next \in {Read(last, packet[i]) : last \in {f[i - 1]}} : TRUE)
              = Read(f[i - 1], packet[i])
      BY <1>1
    <3> QED
      BY <2>2, <3>1
  <2> QED
    BY <2>1, <2>2
<1>3. PICK f : f = After(f, m, packet)
  BY ReadingExists
<1>4. Eq(f)
  <2>1. \A i \in 0..Len(packet) : Chosen(f, i) = Value(f, i)
    BY <1>2
  <2> HIDE DEF Chosen, Value
  <2>2. [i \in 0..Len(packet) |-> Chosen(f, i)] = [i \in 0..Len(packet) |-> Value(f, i)]
    BY <2>1
  <2> QED
    BY <1>3, <2>2 DEF After, Value
<1> DEFINE e == CHOOSE g : Eq(g)
<1>5. Eq(e)
  <2> HIDE DEF Eq
  <2> QED
    BY <1>4
<1>6. ReadAll(m, packet) = e[Len(packet)]
  BY DEF ReadAll
<1> HIDE DEF e
<1>7. \A i \in 0..Len(packet) : e[i] = Value(e, i)
  <2>1. \A i \in 0..Len(packet) : e[i] = Chosen(e, i)
    <3> HIDE DEF Chosen
    <3> QED
      BY <1>5
  <2> HIDE DEF Chosen, Value
  <2> QED
    BY <1>2, <2>1
<1>8. Reading(e, m, packet)
  BY <1>7, LenProperties DEF Reading
<1> QED
  BY <1>6, <1>8

\* Two readings of packets that begin in the same way.
LEMMA SameReading ==
    ASSUME NEW m, NEW S, NEW p \in Seq(S), NEW q \in Seq(S), Len(p) <= Len(q),
           \A i \in 1..Len(p) : p[i] = q[i],
           NEW f, Reading(f, m, p), NEW g, Reading(g, m, q)
    PROVE  g[Len(p)] = f[Len(p)]
<1> DEFINE T == {n \in Nat : n <= Len(p) => f[n] = g[n]}
<1>0. Len(p) \in Nat /\ Len(q) \in Nat
  BY LenProperties
<1>1. 0 \in T
  BY DEF Reading
<1>2. ASSUME NEW n \in Nat, n \in T PROVE n + 1 \in T
  <2>1. SUFFICES ASSUME n + 1 <= Len(p) PROVE f[n + 1] = g[n + 1]
    OBVIOUS
  <2>2. n + 1 \in 1..Len(p) /\ n + 1 \in 1..Len(q) /\ (n + 1) - 1 = n
    BY <1>0, <2>1
  <2>3. f[n + 1] = Read(f[n], p[n + 1]) /\ g[n + 1] = Read(g[n], q[n + 1])
    BY <2>2 DEF Reading
  <2>4. f[n] = g[n] /\ p[n + 1] = q[n + 1]
    BY <1>0, <1>2, <2>1, <2>2
  <2> QED
    BY <2>3, <2>4
<1>3. T = Nat
  <2> HIDE DEF T
  <2>1. T \subseteq Nat
    BY DEF T
  <2> QED
    BY <1>1, <1>2, <2>1, SetInduction
<1>4. Len(p) \in T
  <2> HIDE DEF T
  <2> QED
    BY <1>0, <1>3
<1> QED
  BY <1>0, <1>4

LEMMA ReadNothing ==
    ASSUME NEW m
    PROVE  ReadAll(m, <<>>) = m
<1>1. <<>> \in Seq({})
  OBVIOUS
<1>2. PICK f : Reading(f, m, <<>>) /\ ReadAll(m, <<>>) = f[Len(<<>>)]
  BY <1>1, ReadAllIs
<1> QED
  BY <1>2 DEF Reading

LEMMA ReadAppended ==
    ASSUME NEW m, NEW S, NEW p \in Seq(S), NEW msg \in S
    PROVE  ReadAll(m, Append(p, msg)) = Read(ReadAll(m, p), msg)
<1> DEFINE q == Append(p, msg)
<1>1. /\ q \in Seq(S) /\ Len(q) = Len(p) + 1 /\ q[Len(p) + 1] = msg /\ Len(p) \in Nat
      /\ \A i \in 1..Len(p) : q[i] = p[i]
  BY AppendProperties, LenProperties
<1> HIDE DEF q
<1>2. PICK f : Reading(f, m, p) /\ ReadAll(m, p) = f[Len(p)]
  BY ReadAllIs
<1>3. PICK g : Reading(g, m, q) /\ ReadAll(m, q) = g[Len(q)]
  BY <1>1, ReadAllIs
<1>4. g[Len(p)] = f[Len(p)]
  BY <1>1, <1>2, <1>3, SameReading
<1>5. g[Len(q)] = Read(g[Len(q) - 1], q[Len(q)]) /\ Len(q) - 1 = Len(p)
  BY <1>1, <1>3 DEF Reading
<1> QED
  BY <1>1, <1>2, <1>3, <1>4, <1>5 DEF q

-----------------------------------------------------------------------------
(* Reading a message *)

MirroredType == {"P_Action", "P_Powerups", "P_Position", "P_Motion", "P_HP"}
HandledType == {"S_Rings", "P_Damage", "P_Kill", "S_ItemBoxItem"} \cup Item
PlainType == {"I_Buttons", "I_Analog", "I_AnalogAngle", "S_Win", "S_WinData"}

AnyMessage == Messages(TcpType \cup UdpType)

\* Every type of message is of one of three kinds: it is mirrored, handled, or leaves
\* the player alone.
LEMMA EveryType ==
    /\ TcpType \cup UdpType = MirroredType \cup HandledType \cup PlainType
    /\ \A t \in MirroredType : t \notin HandledType \cup PlainType /\ Mirrored(t)
    /\ \A t \in HandledType : t \notin PlainType /\ ~Mirrored(t)
    /\ \A t \in HandledType : Flagged(t) <=> t \in {"P_Damage", "P_Kill"}
BY DEF TcpType, UdpType, MirroredType, HandledType, PlainType, Item, Barriers, Mirrored, Flagged

\* What read does first leaves the other machine one that holds no packet.
LEMMA LookedReplica ==
    ASSUME NEW m, Replica(m), NEW w \in BOOLEAN
    PROVE  /\ Replica([Refreshed(m) EXCEPT !.write_player = w])
           /\ Looked(m, w, [Refreshed(m) EXCEPT !.write_player = w])
<1>1. Looked(m, w, [Refreshed(m) EXCEPT !.write_player = w])
  BY WithCopy DEF Replica
<1> QED
  BY <1>1 DEF Replica, Idle, Looked, Kept

\* Nothing of the player has changed, nor of what is told.
SamePlayer(m, n) == OtherPacket(m, m.tcp_packet, n)

\* An operation that leaves the player alone leaves him to the other machine.
LEMMA SameReplica ==
    ASSUME NEW m, Replica(m), NEW n, SamePlayer(m, n)
    PROVE  Replica(n) /\ n.body = m.body /\ n.write_player = m.write_player
BY DEF SamePlayer, OtherPacket, Kept, Replica, Idle

\* Fields that no invariant is about, replaced by values of their type.
LEMMA WithInput ==
    ASSUME NEW m \in Machine, NEW v \in NetInput, NEW k \in Nat
    PROVE  /\ SamePlayer(m, [m EXCEPT !.net_input = v])
           /\ SamePlayer(m, [m EXCEPT !.net_input = v, !.sticks = k])
BY DEF Machine, SamePlayer, OtherPacket, Kept

LEMMA WithAngle ==
    ASSUME NEW m \in Machine, NEW x \in Stick, NEW k \in Nat
    PROVE  SamePlayer(m, [m EXCEPT !.net_analog = x, !.AnalogThing = x, !.angles = k])
BY DEF Machine, SamePlayer, OtherPacket, Kept

LEMMA WithScreen ==
    ASSUME NEW m \in Machine, NEW s \in Screen \cup {NoScreen}
    PROVE  SamePlayer(m, [m EXCEPT !.screen = s])
BY DEF Machine, SamePlayer, OtherPacket, Kept

LEMMA WithRemote ==
    ASSUME NEW m \in Machine, NEW s \in Screen
    PROVE  SamePlayer(m, [m EXCEPT !.remote_data = s])
BY DEF Machine, SamePlayer, OtherPacket, Kept

\* A message about the controller, or the result screen, leaves the player alone.
LEMMA ReadInputSame ==
    ASSUME NEW l \in Machine, NEW msg, msg.data \in Content(msg.type),
           msg.type \in {"I_Buttons", "I_Analog", "I_AnalogAngle"}
    PROVE  SamePlayer(l, ReadInput(l, msg))
<1>1. l.net_input \in NetInput
  BY DEF Machine
<1>2. CASE msg.type = "I_Buttons"
  <2>1. msg.data \in BOOLEAN
    BY <1>2, ContentOf
  <2>2. [l.net_input EXCEPT !.on = msg.data] \in NetInput
    BY <1>1, <2>1 DEF NetInput
  <2>3. ReadInput(l, msg) = [l EXCEPT !.net_input = [l.net_input EXCEPT !.on = msg.data]]
    BY <1>2 DEF ReadInput
  <2> QED
    BY <2>2, <2>3, WithInput
<1>3. CASE msg.type = "I_Analog"
  <2>1. msg.data \in [x : Stick, number : Nat]
    BY <1>3, ContentOf
  <2>2. [l.net_input EXCEPT !.x = msg.data.x] \in NetInput /\ msg.data.number \in Nat
    BY <1>1, <2>1 DEF NetInput
  <2>3. ReadInput(l, msg)
            = [l EXCEPT !.net_input = [l.net_input EXCEPT !.x = msg.data.x],
                        !.sticks = msg.data.number]
    BY <1>3 DEF ReadInput
  <2>4. SamePlayer(l, [l EXCEPT !.net_input = [l.net_input EXCEPT !.x = msg.data.x],
                               !.sticks = msg.data.number])
    BY <2>2, WithInput
  <2> QED
    BY <2>3, <2>4
<1>4. CASE msg.type = "I_AnalogAngle"
  <2>1. msg.data \in [thing : Stick, number : Nat]
    BY <1>4, ContentOf
  <2>2. msg.data.thing \in Stick /\ msg.data.number \in Nat
    BY <2>1
  <2>3. ReadInput(l, msg)
            = [l EXCEPT !.net_analog = msg.data.thing, !.AnalogThing = msg.data.thing,
                        !.angles = msg.data.number]
    BY <1>4 DEF ReadInput
  <2>4. SamePlayer(l, [l EXCEPT !.net_analog = msg.data.thing, !.AnalogThing = msg.data.thing,
                               !.angles = msg.data.number])
    BY <2>2, WithAngle
  <2> QED
    BY <2>3, <2>4
<1> QED
  BY <1>2, <1>3, <1>4

\* A screen is not the absence of one.
LEMMA ScreenType ==
    Fresh \in Screen /\ Fresh \in Screen \cup {NoScreen} /\ NoScreen \notin Screen
BY DEF Fresh, Screen, NoScreen

LEMMA ReadResultSame ==
    ASSUME NEW l \in Machine, NEW msg, msg.data \in Content(msg.type),
           msg.type \in {"S_Win", "S_WinData"}
    PROVE  SamePlayer(l, ReadResult(l, msg))
<1>1. CASE msg.type = "S_Win"
  <2>1. ReadResult(l, msg) = [l EXCEPT !.screen = Fresh]
    BY <1>1 DEF ReadResult, OnWin_orig
  <2> QED
    BY <2>1, ScreenType, WithScreen
<1>2. CASE msg.type = "S_WinData"
  <2>1. ReadResult(l, msg) = [l EXCEPT !.remote_data = msg.data]
    BY <1>2 DEF ReadResult
  <2>2. msg.data \in Screen
    BY <1>2, ContentOf
  <2> QED
    BY <2>1, <2>2, WithRemote
<1> QED
  BY <1>1, <1>2

\* The input and the result screen have nothing to do with the player.
LEMMA ReadPlain ==
    ASSUME NEW m, Replica(m), NEW msg \in AnyMessage, msg.type \in PlainType
    PROVE  /\ Replica(Read(m, msg)) /\ Read(m, msg).body = m.body
           /\ Read(m, msg).write_player = FALSE
<1> DEFINE l == [Refreshed(m) EXCEPT !.write_player = FALSE]
<1>1. Replica(l) /\ l.body = m.body /\ l.write_player = FALSE
  BY LookedReplica DEF Looked
<1>2. msg.data \in Content(msg.type)
  BY MessageFields DEF AnyMessage
<1>3. CASE msg.type \in {"I_Buttons", "I_Analog", "I_AnalogAngle"}
  <2>1. Read(m, msg) = ReadInput(l, msg)
    BY <1>3 DEF Read
  <2> HIDE DEF l
  <2>2. SamePlayer(l, Read(m, msg))
    BY <1>1, <1>2, <1>3, <2>1, ReadInputSame DEF Replica
  <2> QED
    BY <1>1, <2>2, SameReplica
<1>4. CASE msg.type \in {"S_Win", "S_WinData"}
  <2>1. Read(m, msg) = ReadResult(l, msg)
    BY <1>4 DEF Read
  <2> HIDE DEF l
  <2>2. SamePlayer(l, Read(m, msg))
    BY <1>1, <1>2, <1>4, <2>1, ReadResultSame DEF Replica
  <2> QED
    BY <1>1, <2>2, SameReplica
<1> QED
  BY <1>3, <1>4 DEF PlainType

-----------------------------------------------------------------------------
\* The copy after a message that receive_player knows.
Taken(c, msg) ==
    CASE msg.type = "P_Action" -> [c EXCEPT !.action = msg.data]
      [] msg.type = "P_Powerups" -> [c EXCEPT !.powers = msg.data]
      [] msg.type = "P_Position" -> [c EXCEPT !.position = msg.data]
      [] msg.type = "P_Motion" -> [c EXCEPT !.motion = msg.data]
      [] msg.type = "P_HP" -> [c EXCEPT !.hp = msg.data[1] + msg.data[2]]

\* What the copy becomes with a message about the player, and the player with the copy,
\* is of its type.
LEMMA TakenType ==
    ASSUME NEW c \in Mirror, NEW msg \in AnyMessage, msg.type \in MirroredType
    PROVE  Taken(c, msg) \in Mirror
<1>1. msg.data \in Content(msg.type)
  BY MessageFields DEF AnyMessage
<1>2. CASE msg.type = "P_Action"
  BY <1>1, <1>2, ContentOf DEF Taken, Mirror
<1>3. CASE msg.type = "P_Powerups"
  BY <1>1, <1>3, ContentOf DEF Taken, Mirror
<1>4. CASE msg.type = "P_Position"
  BY <1>1, <1>4, ContentOf DEF Taken, Mirror
<1>5. CASE msg.type = "P_Motion"
  BY <1>1, <1>5, ContentOf DEF Taken, Mirror
<1>6. CASE msg.type = "P_HP"
  <2>1. msg.data \in Int \X Int
    BY <1>1, <1>6, ContentOf
  <2>2. msg.data[1] + msg.data[2] \in Int
    BY <2>1
  <2> QED
    BY <1>6, <2>2 DEF Taken, Mirror
<1> QED
  BY <1>2, <1>3, <1>4, <1>5, <1>6 DEF MirroredType

LEMMA WrittenType ==
    ASSUME NEW b \in Body, NEW c \in Mirror
    PROVE  Written(b, c) \in Body
BY DEF Written, Body, Mirror

OtherCopy(m, c, n) ==
    /\ Kept(m, n) /\ n.mirror = c
    /\ n.toggle_hack = m.toggle_hack /\ n.called_damage = m.called_damage
    /\ n.write_player = m.write_player /\ n.body = m.body /\ n.tcp_packet = m.tcp_packet

\* The copy replaced by another one.
LEMMA WithMirror ==
    ASSUME NEW m \in Machine, NEW c \in Mirror
    PROVE  OtherCopy(m, c, [m EXCEPT !.mirror = c])
BY DEF Machine, OtherCopy, Kept

\* write_player puts the whole copy into the game.
LEMMA WithWriting ==
    ASSUME NEW m, Replica(m), NEW b \in Body
    PROVE  LET n == [m EXCEPT !.body = b, !.write_player = FALSE]
           IN  Replica(n) /\ n.body = b /\ n.write_player = FALSE
BY DEF Replica, Idle, Machine

\* A message about the player: the copy takes it, and the player is written at once.
LEMMA ReadMirrored ==
    ASSUME NEW m, Replica(m), NEW msg \in AnyMessage, msg.type \in MirroredType
    PROVE  /\ Replica(Read(m, msg)) /\ Read(m, msg).write_player = FALSE
           /\ Read(m, msg).body = Written(m.body, Taken(Seen(m), msg))
<1> DEFINE seen == Refreshed(m)
           c == Taken(seen.mirror, msg)
           taken == ReceivePlayer(seen, msg)
           n == [taken EXCEPT !.body = Written(taken.body, taken.mirror), !.write_player = FALSE]
<1>1. m \in Machine /\ m.body \in Body /\ Copied(m.body) \in Mirror /\ m.mirror \in Mirror
  BY BodyType DEF Replica
<1>2. Replica(seen) /\ seen.mirror = Seen(m) /\ seen.body = m.body /\ Seen(m) \in Mirror
  BY <1>1, WithMirror DEF Refreshed, Seen, OtherCopy, Replica, Idle, Kept
<1>3. Read(m, msg) = n
  BY EveryType DEF Read, ReadPlayer, PlainType
<1>4. c \in Mirror
  BY <1>2, TakenType
<1> HIDE DEF seen
<1>5. /\ Replica(taken) /\ taken.mirror = c
      /\ taken.body = m.body \/ taken.body = [m.body EXCEPT !.hp = c.hp]
  <2>1. CASE msg.type # "P_HP"
    <3>1. taken = [seen EXCEPT !.mirror = c]
      <4>1. CASE msg.type = "P_Action"
        BY <4>1 DEF ReceivePlayer, Taken
      <4>2. CASE msg.type = "P_Powerups"
        BY <4>2 DEF ReceivePlayer, Taken
      <4>3. CASE msg.type = "P_Position"
        BY <4>3 DEF ReceivePlayer, Taken
      <4>4. CASE msg.type = "P_Motion"
        BY <4>4 DEF ReceivePlayer, Taken
      <4> QED
        BY <2>1, <4>1, <4>2, <4>3, <4>4 DEF MirroredType
    <3> HIDE DEF c, taken
    <3>2. OtherCopy(seen, c, taken)
      BY <1>2, <1>4, <3>1, WithMirror DEF Replica
    <3> QED
      BY <1>2, <3>2 DEF OtherCopy, Kept, Replica, Idle
  <2>2. CASE msg.type = "P_HP"
    <3> DEFINE d == msg.data
               b == [m.body EXCEPT !.hp = d[1] + d[2]]
               g == [seen EXCEPT !.body = b]
    <3>1. d \in Int \X Int
      <4>1. msg.data \in Content(msg.type)
        BY MessageFields DEF AnyMessage
      <4> QED
        BY <2>2, <4>1, ContentOf
    <3>2. b \in Body /\ b.hp = d[1] + d[2]
      <4>1. PICK k \in Int : k = d[1] + d[2]
        BY <3>1
      <4>2. [m.body EXCEPT !.hp = k] \in Body /\ [m.body EXCEPT !.hp = k].hp = k
        BY <1>1 DEF Body
      <4> QED
        BY <4>1, <4>2
    <3>3. c = [Seen(m) EXCEPT !.hp = d[1] + d[2]] /\ c.hp = d[1] + d[2]
      BY <1>2, <2>2 DEF Taken, Mirror
    <3>4. OtherBody(seen, b, g)
      BY <1>2, <3>2, WithBody DEF Replica
    <3>5. [seen EXCEPT !.body.hp = d[1]].body = [m.body EXCEPT !.hp = d[1]]
      <4>1. d[1] \in Int
        BY <3>1
      <4>2. [m.body EXCEPT !.hp = d[1]] \in Body
        BY <1>1, <4>1 DEF Body
      <4>3. [seen EXCEPT !.body.hp = d[1]] = [seen EXCEPT !.body = [m.body EXCEPT !.hp = d[1]]]
        BY <1>2
      <4> QED
        BY <1>2, <4>2, <4>3, WithBody DEF Replica, OtherBody
    <3>6. AddHP_original([seen EXCEPT !.body.hp = d[1]], d[2]) = g
      <4>1. [m.body EXCEPT !.hp = d[1]].hp = d[1]
        BY <1>1 DEF Body
      <4>2. [[m.body EXCEPT !.hp = d[1]] EXCEPT !.hp = d[1] + d[2]] = b
        OBVIOUS
      <4>3. AddHP_original([seen EXCEPT !.body.hp = d[1]], d[2])
                = [[seen EXCEPT !.body.hp = d[1]] EXCEPT !.body = b]
        BY <3>5, <4>1, <4>2 DEF AddHP_original
      <4> QED
        BY <4>3
    <3>7. taken = [g EXCEPT !.mirror.hp = g.body.hp]
      BY <2>2, <3>6 DEF ReceivePlayer, HPOfBoth
    <3> HIDE DEF g
    <3>8. taken = [g EXCEPT !.mirror = c]
      BY <1>2, <3>2, <3>3, <3>4, <3>7 DEF OtherBody
    <3> HIDE DEF taken, c
    <3>9. OtherCopy(g, c, taken)
      BY <1>4, <3>4, <3>8, WithMirror DEF OtherBody, Kept
    <3> HIDE DEF b
    <3>10. Replica(taken) /\ taken.mirror = c /\ taken.body = b
      BY <1>2, <3>4, <3>9 DEF OtherBody, OtherCopy, Kept, Replica, Idle
    <3> QED
      BY <3>3, <3>10 DEF b
  <2> QED
    BY <2>1, <2>2
<1> HIDE DEF taken, c
<1>6. Written(taken.body, taken.mirror) = Written(m.body, c)
  <2>1. CASE taken.body = m.body
    BY <1>5, <2>1
  <2>2. CASE taken.body = [m.body EXCEPT !.hp = c.hp]
    BY <1>1, <1>5, <2>2 DEF Written, Body
  <2> QED
    BY <1>5, <2>1, <2>2
<1>7. Written(m.body, c) \in Body
  BY <1>1, <1>4, WrittenType
<1>8. Replica(n) /\ n.body = Written(m.body, c) /\ n.write_player = FALSE
  BY <1>5, <1>6, <1>7, WithWriting
<1> QED
  BY <1>2, <1>3, <1>8 DEF c

-----------------------------------------------------------------------------
\* The player after a message that a hook's original answers.
HandledBody(b, msg) ==
    CASE msg.type = "S_Rings" -> [b EXCEPT !.rings = msg.data[1] + msg.data[2]]
      [] msg.type = "P_Damage" -> IF "S_Invincibility" \in b.powers THEN b ELSE Wounded(b)
      [] msg.type = "P_Kill" -> Dead(b)
      [] msg.type \in Item -> [b EXCEPT !.powers = @ \cup {msg.type}]
      [] msg.type = "S_ItemBoxItem" -> [b EXCEPT !.shown = Append(@, msg.data)]

\* What a message of a hook makes of the player is a player.
LEMMA HandledBodyType ==
    ASSUME NEW b \in Body, NEW msg \in AnyMessage, msg.type \in HandledType
    PROVE  HandledBody(b, msg) \in Body
<1>1. msg.data \in Content(msg.type)
  BY MessageFields DEF AnyMessage
<1>2. CASE msg.type = "S_Rings"
  <2>1. msg.data \in Nat \X {1}
    BY <1>1, <1>2, ContentOf
  <2>2. msg.data[1] + msg.data[2] \in Nat
    BY <2>1
  <2> QED
    BY <1>2, <2>2 DEF HandledBody, Body
<1>3. CASE msg.type = "P_Damage"
  BY <1>3, WoundedType DEF HandledBody, Item, Barriers
<1>4. CASE msg.type = "P_Kill"
  BY <1>4, DeadType DEF HandledBody, Item, Barriers
<1>5. CASE msg.type \in Item
  <2>1. HandledBody(b, msg) = [b EXCEPT !.powers = @ \cup {msg.type}]
    BY <1>5 DEF HandledBody, Item, Barriers
  <2> QED
    BY <1>5, <2>1 DEF Body
<1>6. CASE msg.type = "S_ItemBoxItem"
  <2>1. msg.data \in {1, 2}
    BY <1>1, <1>6, ContentOf
  <2>2. Append(b.shown, msg.data) \in Seq({1, 2})
    BY <2>1, AppendProperties DEF Body
  <2>3. HandledBody(b, msg) = [b EXCEPT !.shown = Append(@, msg.data)]
    BY <1>6 DEF HandledBody, Item, Barriers
  <2> QED
    BY <2>2, <2>3 DEF Body
<1> QED
  BY <1>2, <1>3, <1>4, <1>5, <1>6 DEF HandledType

\* A message of a hook: the original does its work, and only a hit or a death leaves
\* the copy to be written.
LEMMA ReadHandled ==
    ASSUME NEW m, Replica(m), NEW msg \in AnyMessage, msg.type \in HandledType
    PROVE  /\ Replica(Read(m, msg))
           /\ Read(m, msg).write_player = (msg.type \in {"P_Damage", "P_Kill"})
           /\ Read(m, msg).mirror = Seen(m)
           /\ Read(m, msg).body = HandledBody(m.body, msg)
<1> DEFINE w == msg.type \in {"P_Damage", "P_Kill"}
           l == [Refreshed(m) EXCEPT !.write_player = w]
           n == Handled(l, msg)
           b == HandledBody(m.body, msg)
<1>0. w \in BOOLEAN
  OBVIOUS
<1> HIDE DEF w
<1>1. Replica(l) /\ Looked(m, w, l)
  BY <1>0, LookedReplica
<1>2. Read(m, msg) = n
  <2>1. Flagged(msg.type) = w
    BY DEF Flagged, HandledType, w, Item, Barriers
  <2>2. ~Mirrored(msg.type) /\ msg.type \notin PlainType
    BY EveryType
  <2> QED
    BY <2>1, <2>2 DEF Read, ReadPlayer, PlainType
<1>3. b \in Body
  BY BodyType, HandledBodyType DEF Replica
<1>4. l.body = m.body /\ l.write_player = w /\ l.mirror = Seen(m) /\ l \in Machine
  BY <1>1 DEF Looked, Replica
<1> HIDE DEF l
<1>5. Replica(n) /\ n.body = b /\ n.write_player = w /\ n.mirror = Seen(m)
  <2>1. CASE msg.type \notin {"P_Damage"}
    <3>1. n = [l EXCEPT !.body = b]
      <4>1. CASE msg.type = "S_Rings"
        <5>1. msg.data \in Nat \X {1}
          BY <4>1, MessageFields, ContentOf DEF AnyMessage
        <5> DEFINE x == msg.data[1]
                   r == [m.body EXCEPT !.rings = x]
                   k == [l EXCEPT !.body = r]
        <5>2. r \in Body /\ r.rings = x
          BY <5>1, BodyType DEF Body, Replica
        <5>3. k.body = r
          BY <1>4, <5>2, WithBody DEF OtherBody
        <5>4. n = [k EXCEPT !.body = [k.body EXCEPT !.rings = @ + msg.data[2]]]
          BY <1>4, <4>1 DEF Handled, RingsHandled, AddRings_original, Item, Barriers
        <5>5. [r EXCEPT !.rings = x + msg.data[2]] = b
          BY <4>1 DEF HandledBody, Item, Barriers
        <5>6. n = [k EXCEPT !.body = b]
          BY <5>2, <5>3, <5>4, <5>5
        <5> HIDE DEF b, n, r
        <5> QED
          BY <5>6
      <4>2. CASE msg.type = "P_Kill"
        BY <1>4, <4>2 DEF Handled, DamageHandled, KillPlayer_original, HandledBody, Dead, Item, Barriers
      <4>3. CASE msg.type \in Item
        BY <1>4, <4>3 DEF Handled, ItemBoxHandled, Item_original, HandledBody, Item,
                           Barriers
      <4>4. CASE msg.type = "S_ItemBoxItem"
        BY <1>4, <4>4 DEF Handled, ItemBoxHandled, DisplayItemBoxItem_original, HandledBody,
                           Item, Barriers
      <4> QED
        BY <2>1, <4>1, <4>2, <4>3, <4>4 DEF HandledType
    <3> HIDE DEF n, b
    <3>2. OtherBody(l, b, n)
      BY <1>3, <1>4, <3>1, WithBody
    <3> QED
      BY <1>1, <1>4, <3>2 DEF OtherBody, Kept, Replica, Idle
  <2>2. CASE msg.type = "P_Damage" /\ Invincible(l)
    <3>1. n = l
      BY <2>2 DEF Handled, DamageHandled, Item, Barriers
    <3>2. b = m.body
      BY <1>4, <2>2 DEF HandledBody, Invincible, Item, Barriers
    <3> QED
      BY <1>1, <1>4, <3>1, <3>2
  <2>3. CASE msg.type = "P_Damage" /\ ~Invincible(l)
    <3> DEFINE s == DamagePlayer_original(InDamage(l, TRUE))
    <3>1. n = InDamage(s, FALSE)
      BY <2>3 DEF Handled, DamageHandled, Item, Barriers
    <3>2. b = Wounded(m.body)
      BY <1>4, <2>3 DEF HandledBody, Invincible, Item, Barriers
    <3>3. /\ Kept(l, s) /\ s.body = b /\ s.write_player = w /\ s.mirror = Seen(m)
          /\ s.tcp_packet = l.tcp_packet
      BY <1>4, <3>2, Strike
    <3> HIDE DEF s, n, b
    <3>4. Reset(s, n)
      BY <3>1, <3>3, WithSwitches DEF Kept
    <3> QED
      BY <1>1, <3>3, <3>4 DEF Reset, Kept, Replica, Idle
  <2> QED
    BY <2>1, <2>2, <2>3
<1> QED
  BY <1>2, <1>5 DEF w

-----------------------------------------------------------------------------
(* The result screen *)

\* n is m with at most one message more to tell, of one of the types.
Grown(types, p) == {p} \cup {Append(p, msg) : msg \in Messages(types)}

\* Leaving the player alone, twice or by doing nothing.
LEMMA SameTwice ==
    ASSUME NEW a, NEW b, NEW c, SamePlayer(a, b), SamePlayer(b, c)
    PROVE  SamePlayer(a, c)
BY DEF SamePlayer, OtherPacket, Kept

LEMMA SameItself ==
    ASSUME NEW m \in Machine PROVE SamePlayer(m, m)
BY DEF SamePlayer, OtherPacket, Kept

LEMMA WithChoice ==
    ASSUME NEW m \in Machine, NEW s \in Screen \cup {NoScreen}, NEW u \in BOOLEAN
    PROVE  /\ SamePlayer(m, [m EXCEPT !.screen = s, !.choice = "none"])
           /\ SamePlayer(m, [m EXCEPT !.screen = s, !.choice = "none", !.unled = u])
           /\ SamePlayer(m, [m EXCEPT !.choice = "select"])
           /\ SamePlayer(m, [m EXCEPT !.choice = "continue"])
<1>1. SamePlayer(m, [m EXCEPT !.screen = s, !.choice = "none"])
  BY DEF Machine, SamePlayer, OtherPacket, Kept
<1>2. SamePlayer(m, [m EXCEPT !.screen = s, !.choice = "none", !.unled = u])
  BY DEF Machine, SamePlayer, OtherPacket, Kept
<1>3. SamePlayer(m, [m EXCEPT !.choice = "select"])
  BY DEF Machine, SamePlayer, OtherPacket, Kept
<1>4. SamePlayer(m, [m EXCEPT !.choice = "continue"])
  BY DEF Machine, SamePlayer, OtherPacket, Kept
<1> QED
  BY <1>1, <1>2, <1>3, <1>4

LEMMA WithDeleted ==
    ASSUME NEW m \in Machine
    PROVE  SamePlayer(m, Deleted(m)) /\ SamePlayer(m, [m EXCEPT !.disp_deleted = FALSE])
BY ScreenType DEF Deleted, Machine, SamePlayer, OtherPacket, Kept

LEMMA WithLocal ==
    ASSUME NEW m \in Machine, NEW s \in Screen
    PROVE  SamePlayer(m, [m EXCEPT !.local_data = s])
BY DEF Machine, SamePlayer, OtherPacket, Kept

\* The result screen leaves the player alone.
LEMMA MainSubSame ==
    ASSUME NEW m \in Machine, m.screen # NoScreen
    PROVE  SamePlayer(m, MainSub(m))
<1>1. m.screen \in Screen
  BY DEF Machine
<1>2. CASE m.screen.Action = "initialize"
  <2>1. [m.screen EXCEPT !.Action = "menu"] \in Screen
    BY <1>1 DEF Screen
  <2>2. MainSub(m) = [m EXCEPT !.screen = [m.screen EXCEPT !.Action = "menu"]]
    BY <1>2 DEF MainSub
  <2> QED
    BY <2>1, <2>2, WithScreen
<1>3. CASE m.screen.Action = "continue"
  BY <1>3, WithDeleted DEF MainSub
<1>4. CASE m.screen.Action = "menu" /\ m.choice = "select"
  <2>1. [m.screen EXCEPT !.Selection = 1 - m.screen.Selection] \in Screen
    BY <1>1 DEF Screen
  <2>2. MainSub(m) = [m EXCEPT !.screen = [m.screen EXCEPT !.Selection = 1 - m.screen.Selection],
                               !.choice = "none"]
    BY <1>4 DEF MainSub
  <2>3. SamePlayer(m, [m EXCEPT
            !.screen = [m.screen EXCEPT !.Selection = 1 - m.screen.Selection], !.choice = "none"])
    BY <2>1, WithChoice
  <2> QED
    BY <2>2, <2>3
<1>5. CASE m.screen.Action = "menu" /\ m.choice = "continue"
  <2> DEFINE u == m.unled \/ (~m.mine /\ m.remote_data = Fresh)
             s == [m.screen EXCEPT !.Action = "continue"]
  <2>1. s \in Screen
    BY <1>1 DEF Screen
  <2>2. u \in BOOLEAN
    OBVIOUS
  <2>3. MainSub(m) = [m EXCEPT !.screen = s, !.choice = "none", !.unled = u]
    BY <1>5 DEF MainSub
  <2> HIDE DEF u, s
  <2>4. SamePlayer(m, [m EXCEPT !.screen = s, !.choice = "none", !.unled = u])
    BY <2>1, <2>2, WithChoice
  <2> QED
    BY <2>3, <2>4
<1>6. CASE m.screen.Action = "menu" /\ m.choice \notin {"select", "continue"}
  BY <1>6, SameItself DEF MainSub
<1> QED
  BY <1>1, <1>2, <1>3, <1>4, <1>5, <1>6 DEF Screen

\* A frame of the result screen: the host may tell what changed.
LEMMA ScreenShown ==
    ASSUME NEW m \in Machine
    PROVE  LET n == DispWinnerAndContinue(m)
           IN  \/ SamePlayer(m, n)
               \/ m.mine /\ \E p \in Grown({"S_WinData"}, m.tcp_packet) : OtherPacket(m, p, n)
<1> DEFINE after == MainSub(m)
           n == DispWinnerAndContinue(m)
<1>1. CASE m.screen = NoScreen
  BY <1>1, SameItself DEF DispWinnerAndContinue
<1>2. CASE m.screen # NoScreen /\ m.disp_deleted
  BY <1>2, WithDeleted DEF DispWinnerAndContinue
<1>3. CASE m.screen # NoScreen /\ ~m.disp_deleted
  <2>1. SamePlayer(m, after)
    BY <1>3, MainSubSame
  <2>2. after \in Machine
    BY <2>1 DEF SamePlayer, OtherPacket, Kept
  <2>3. n \in {after, [after EXCEPT !.disp_deleted = FALSE]} \/ (after.screen # NoScreen /\ m.mine /\ n = Told(after)) \/ (after.screen # NoScreen /\ n = Led(after))
    BY <1>3 DEF DispWinnerAndContinue
  <2> HIDE DEF after, n
  <2>4. CASE n \in {after, [after EXCEPT !.disp_deleted = FALSE]}
    <3>1. SamePlayer(after, n)
      BY <2>2, <2>4, SameItself, WithDeleted
    <3>2. SamePlayer(m, n)
      BY <2>1, <3>1, SameTwice
    <3> QED
      BY <3>2 DEF n
  <2>5. CASE after.screen # NoScreen /\ m.mine /\ n = Told(after)
    <3> DEFINE s == after.screen
               l == [after EXCEPT !.local_data = s]
               p == IF after.local_data # s
                    THEN Appended(after.tcp_packet, Message("S_WinData", s), FALSE)
                    ELSE after.tcp_packet
    <3>1. s \in Screen
      BY <2>2, <2>5 DEF Machine
    <3>2. SamePlayer(after, l)
      BY <2>2, <3>1, WithLocal
    <3>3. n = [l EXCEPT !.tcp_packet = p]
      BY <2>5 DEF Told
    <3>4. /\ Message("S_WinData", s) \in TcpMessage
          /\ Message("S_WinData", s) \in Messages({"S_WinData"})
      <4>1. s \in Content("S_WinData") /\ "S_WinData" \in TcpType /\ "S_WinData" \in {"S_WinData"}
        BY <3>1, ContentOf DEF TcpType
      <4> HIDE DEF s
      <4> QED
        BY <4>1, MessageType DEF TcpMessage
    <3>5. after.tcp_packet \in Seq(TcpMessage)
      BY <2>2 DEF Machine
    <3> HIDE DEF s, l
    <3>6. p \in Seq(TcpMessage) /\ p \in Grown({"S_WinData"}, after.tcp_packet)
      BY <3>4, <3>5, AppendedType DEF TcpMessage, Grown
    <3> HIDE DEF p
    <3>7. OtherPacket(l, p, n)
      BY <3>2, <3>3, <3>6, WithPacket DEF SamePlayer, OtherPacket, Kept
    <3>8. OtherPacket(m, p, n) /\ after.tcp_packet = m.tcp_packet
      BY <2>1, <3>2, <3>7 DEF SamePlayer, OtherPacket, Kept
    <3> QED
      BY <2>5, <3>6, <3>8 DEF n
  <2>6. CASE after.screen # NoScreen /\ n = Led(after)
    <3>1. SamePlayer(after, n)
      <4>1. CASE after.remote_data.Action # "initialize"
        <5>1. after.remote_data \in Screen \cup {NoScreen}
          BY <2>2 DEF Machine
        <5> QED
          BY <2>2, <2>6, <4>1, <5>1, WithScreen DEF Led
      <4>2. CASE after.remote_data.Action = "initialize"
        BY <2>2, <2>6, <4>2, SameItself DEF Led
      <4> QED
        BY <4>1, <4>2
    <3>2. SamePlayer(m, n)
      BY <2>1, <3>1, SameTwice
    <3> QED
      BY <3>2 DEF n
  <2> QED
    BY <2>3, <2>4, <2>5, <2>6
<1> QED
  BY <1>1, <1>2, <1>3

\* The end of a round tells who has won, and nothing else.
LEMMA OnWinTells ==
    ASSUME NEW m, Player(m)
    PROVE  \E p \in Grown({"S_Win"}, m.tcp_packet) : OtherPacket(m, p, OnWin(m))
<1> DEFINE p == Appended(m.tcp_packet, Message("S_Win", <<>>), FALSE)
           l == [m EXCEPT !.tcp_packet = p]
           n == OnWin(m)
<1>1. m \in Machine /\ m.tcp_packet \in Seq(TcpMessage)
  BY DEF Player, Machine
<1>2. Message("S_Win", <<>>) \in TcpMessage /\ Message("S_Win", <<>>) \in Messages({"S_Win"})
  <2>1. <<>> \in Content("S_Win") /\ "S_Win" \in TcpType /\ "S_Win" \in {"S_Win"}
    BY ContentOf DEF TcpType
  <2> QED
    BY <2>1, MessageType DEF TcpMessage
<1>3. p \in Seq(TcpMessage) /\ p \in Grown({"S_Win"}, m.tcp_packet)
  BY <1>1, <1>2, AppendedType DEF TcpMessage, Grown
<1>4. n = [l EXCEPT !.screen = Fresh]
  BY DEF OnWin, OnWin_orig, Player
<1> HIDE DEF p
<1>5. OtherPacket(m, p, l)
  BY <1>1, <1>3, WithPacket
<1> HIDE DEF l
<1>6. SamePlayer(l, n)
  BY <1>4, <1>5, ScreenType, WithScreen DEF OtherPacket, Kept
<1>7. OtherPacket(m, p, n)
  BY <1>5, <1>6 DEF SamePlayer, OtherPacket, Kept
<1> QED
  BY <1>3, <1>7

-----------------------------------------------------------------------------
(* The input *)

\* The timers of the stick stay within their frames.
LEMMA NextFrame ==
    ASSUME NEW t \in Frames
    PROVE  (t + 1) % AnalogFrames \in Frames /\ 0 \in Frames
BY AnalogAssumption DEF Frames

\* The fields that OnInput and OnControl replace.
LEMMA WithPad ==
    ASSUME NEW m \in Machine, NEW v \in Pad
    PROVE  SamePlayer(m, [m EXCEPT !.pad = v])
BY DEF Machine, SamePlayer, OtherPacket, Kept

LEMMA WithInputSent ==
    ASSUME NEW m \in Machine, NEW p \in Seq(TcpMessage), NEW u \in Seq(UdpMessage),
           NEW v \in NetInput, NEW w \in Pad, NEW k \in Nat, NEW t \in Frames, NEW a \in BOOLEAN
    PROVE  OtherPacket(m, p, [m EXCEPT !.tcp_packet = p, !.udp_packet = u, !.net_input = v,
                                       !.pad = w, !.sticks = k, !.analog_timer = t,
                                       !.send_angle = a])
BY DEF Machine, OtherPacket, Kept

LEMMA WithAngleSent ==
    ASSUME NEW m \in Machine, NEW u \in Seq(UdpMessage), NEW x \in Stick, NEW y \in Stick,
           NEW k \in Nat, NEW t \in Frames, NEW a \in BOOLEAN
    PROVE  SamePlayer(m, [m EXCEPT !.udp_packet = u, !.net_analog = x, !.AnalogThing = y,
                                   !.angles = k, !.angle_timer = t, !.send_angle = a])
BY DEF Machine, SamePlayer, OtherPacket, Kept

\* OnInput tells of the buttons and of the stick by TCP, and leaves the player alone.
LEMMA OnInputTells ==
    ASSUME NEW m, Player(m)
    PROVE  \E q \in Grown({"I_Buttons"}, m.tcp_packet) :
           \E p \in Grown({"I_Analog"}, q) : OtherPacket(m, p, OnInputOwn(m))
<1> DEFINE buttons == ButtonsChanged(m.pad)
           moved == m.pad.x # m.net_input.x
           timer == (m.analog_timer + 1) % AnalogFrames
           byUdp == moved /\ LargeOrTimer(m, timer)
           byTcp == moved /\ ~byUdp /\ m.pad.x = 0
           sent == IF byUdp \/ byTcp THEN m.sticks + 1 ELSE m.sticks
           stick == Message("I_Analog", [x |-> m.pad.x, number |-> sent])
           button == Message("I_Buttons", m.pad.on)
           q == IF buttons THEN Appended(m.tcp_packet, button, FALSE) ELSE m.tcp_packet
           p == IF byTcp THEN Appended(q, stick, FALSE) ELSE q
           u == IF byUdp THEN Appended(m.udp_packet, stick, FALSE) ELSE m.udp_packet
           on == IF buttons THEN m.pad.on ELSE m.net_input.on
           x == IF byUdp \/ byTcp THEN m.pad.x ELSE m.net_input.x
           v == [m.net_input EXCEPT !.on = on, !.x = x]
           w == [m.pad EXCEPT !.old = m.pad.on]
           t == IF byUdp THEN 0 ELSE IF moved THEN timer ELSE m.analog_timer
           a == m.send_angle \/ byUdp \/ byTcp \/ buttons
           n == [m EXCEPT !.tcp_packet = p, !.udp_packet = u, !.net_input = v, !.pad = w,
                          !.sticks = sent, !.analog_timer = t, !.send_angle = a]
<1>1. /\ m \in Machine /\ m.tcp_packet \in Seq(TcpMessage) /\ m.udp_packet \in Seq(UdpMessage)
      /\ m.pad \in Pad /\ m.net_input \in NetInput /\ m.sticks \in Nat
      /\ m.analog_timer \in Frames /\ m.send_angle \in BOOLEAN
  BY DEF Player, Machine
<1>2. m.pad.x \in Stick /\ m.pad.on \in BOOLEAN
  BY <1>1 DEF Pad
<1>3. sent \in Nat
  BY <1>1
<1>4. /\ stick \in TcpMessage /\ stick \in UdpMessage /\ stick \in Messages({"I_Analog"})
      /\ button \in TcpMessage /\ button \in Messages({"I_Buttons"})
  <2> HIDE DEF sent
  <2>1. [x |-> m.pad.x, number |-> sent] \in Content("I_Analog")
    BY <1>2, <1>3, ContentOf
  <2>2. m.pad.on \in Content("I_Buttons")
    BY <1>2, ContentOf
  <2>3. /\ "I_Analog" \in TcpType /\ "I_Analog" \in UdpType /\ "I_Buttons" \in TcpType
        /\ "I_Analog" \in {"I_Analog"} /\ "I_Buttons" \in {"I_Buttons"}
    BY DEF TcpType, UdpType
  <2> QED
    BY <2>1, <2>2, <2>3, MessageType DEF TcpMessage, UdpMessage
<1>5. v \in NetInput
  <2>1. on \in BOOLEAN /\ x \in Stick
    BY <1>1, <1>2 DEF NetInput
  <2> HIDE DEF on, x
  <2> QED
    BY <1>1, <2>1 DEF NetInput
<1>6. w \in Pad
  BY <1>1, <1>2 DEF Pad
<1>7. t \in Frames
  BY <1>1, NextFrame
<1>8. a \in BOOLEAN
  OBVIOUS
<1>9. OnInputOwn(m) = n
  <2>1. OnInputOwn(m) = [m EXCEPT !.tcp_packet = p, !.udp_packet = u, !.net_input.on = on,
                                  !.net_input.x = x, !.pad.old = m.pad.on, !.sticks = sent,
                                  !.analog_timer = t, !.send_angle = a]
    BY <1>1 DEF OnInputOwn, NetInput
  <2> HIDE DEF p, u, on, x, sent, t, a
  <2> QED
    BY <1>1, <2>1, ZenonT(60) DEF Machine
<1> HIDE DEF stick, button, sent, t, a, v, w, on, x, byUdp, byTcp, buttons
<1>10. q \in Seq(TcpMessage) /\ q \in Grown({"I_Buttons"}, m.tcp_packet)
  <2> DEFINE appended == Appended(m.tcp_packet, button, FALSE)
  <2>1. appended \in Seq(TcpMessage) /\ appended \in {m.tcp_packet, Append(m.tcp_packet, button)}
    BY <1>1, <1>4, AppendedType DEF TcpMessage
  <2> HIDE DEF appended
  <2>2. appended \in Grown({"I_Buttons"}, m.tcp_packet)
    BY <1>4, <2>1 DEF Grown
  <2>3. m.tcp_packet \in Grown({"I_Buttons"}, m.tcp_packet)
    BY DEF Grown
  <2>4. q \in {appended, m.tcp_packet}
    BY DEF appended
  <2> QED
    BY <1>1, <2>1, <2>2, <2>3, <2>4
<1> HIDE DEF q
<1>11. p \in Seq(TcpMessage) /\ p \in Grown({"I_Analog"}, q)
  <2>1. /\ Appended(q, stick, FALSE) \in Seq(TcpMessage)
        /\ Appended(q, stick, FALSE) \in {q, Append(q, stick)}
    BY <1>4, <1>10, AppendedType DEF TcpMessage
  <2>2. p \in Seq(TcpMessage) /\ p \in {q, Append(q, stick)}
    BY <1>10, <2>1
  <2> HIDE DEF p
  <2> QED
    BY <1>4, <2>2 DEF Grown
<1>12. u \in Seq(UdpMessage)
  <2>1. Appended(m.udp_packet, stick, FALSE) \in Seq(UdpMessage)
    BY <1>1, <1>4, AppendedType DEF UdpMessage
  <2> QED
    BY <1>1, <2>1
<1> HIDE DEF p, u
<1>13. OtherPacket(m, p, n)
  BY <1>1, <1>3, <1>5, <1>6, <1>7, <1>8, <1>11, <1>12, WithInputSent
<1> QED
  BY <1>9, <1>10, <1>11, <1>13

\* OnControl sends its angle by UDP, and leaves the player alone.
LEMMA OnControlSame ==
    ASSUME NEW m \in Machine
    PROVE  SamePlayer(m, OnControlOwn(m))
<1>1. /\ m.udp_packet \in Seq(UdpMessage) /\ m.pad \in Pad /\ m.net_analog \in Stick
      /\ m.angles \in Nat /\ m.angle_timer \in Frames /\ m.send_angle \in BOOLEAN
  BY DEF Machine
<1> DEFINE angle == Message("I_AnalogAngle", [thing |-> m.pad.x, number |-> m.angles + 1])
<1>2. m.pad.x \in Stick
  BY <1>1 DEF Pad
<1>3. angle \in UdpMessage
  <2>1. [thing |-> m.pad.x, number |-> m.angles + 1] \in Content("I_AnalogAngle")
    <3>1. m.angles + 1 \in Nat
      BY <1>1
    <3> QED
      BY <1>2, <3>1, ContentOf
  <2>2. "I_AnalogAngle" \in UdpType
    BY DEF UdpType
  <2> QED
    BY <2>1, <2>2, MessageType DEF UdpMessage
<1> HIDE DEF angle
<1>4. PICK sends \in BOOLEAN, timer \in Frames, on \in BOOLEAN :
          OnControlOwn(m) =
              [m EXCEPT !.udp_packet = IF sends THEN Appended(@, angle, FALSE) ELSE @,
                        !.net_analog = IF sends THEN m.pad.x ELSE @,
                        !.AnalogThing = m.pad.x, !.angles = IF sends THEN @ + 1 ELSE @,
                        !.angle_timer = timer, !.send_angle = on]
  <2> DEFINE Of(sends, timer, on) ==
                 [m EXCEPT !.udp_packet = IF sends THEN Appended(@, angle, FALSE) ELSE @,
                           !.net_analog = IF sends THEN m.pad.x ELSE @,
                           !.AnalogThing = m.pad.x, !.angles = IF sends THEN @ + 1 ELSE @,
                           !.angle_timer = timer, !.send_angle = on]
             timer == IF m.send_angle THEN m.angle_timer
                      ELSE (m.angle_timer + 1) % AnalogFrames
             on == m.send_angle \/ timer = 0
  <2>1. timer \in Frames
    BY <1>1, NextFrame
  <2>2. \E sends \in BOOLEAN : OnControlOwn(m) = Of(sends, timer, on /\ ~sends)
    BY DEF OnControlOwn, angle
  <2>3. PICK sends \in BOOLEAN : OnControlOwn(m) = Of(sends, timer, on /\ ~sends)
    BY <2>2
  <2>4. (on /\ ~sends) \in BOOLEAN
    OBVIOUS
  <2> DEFINE rest == on /\ ~sends
  <2> HIDE DEF timer, rest, Of
  <2>5. \E t \in Frames, o \in BOOLEAN : OnControlOwn(m) = Of(sends, t, o)
    <3>1. OnControlOwn(m) = Of(sends, timer, rest)
      BY <2>3 DEF rest
    <3>2. rest \in BOOLEAN
      BY <2>4 DEF rest
    <3> QED
      BY <2>1, <3>1, <3>2
  <2> QED
    BY <2>5 DEF Of
<1> DEFINE u == IF sends THEN Appended(m.udp_packet, angle, FALSE) ELSE m.udp_packet
           x == IF sends THEN m.pad.x ELSE m.net_analog
           k == IF sends THEN m.angles + 1 ELSE m.angles
           n == [m EXCEPT !.udp_packet = u, !.net_analog = x, !.AnalogThing = m.pad.x,
                          !.angles = k, !.angle_timer = timer, !.send_angle = on]
<1>5. u \in Seq(UdpMessage)
  BY <1>1, <1>3, AppendedType DEF UdpMessage
<1>6. x \in Stick /\ k \in Nat
  BY <1>1, <1>2
<1>7. OnControlOwn(m) = n
  BY <1>4
<1> HIDE DEF u, x, k
<1>8. SamePlayer(m, n)
  BY <1>2, <1>5, <1>6, WithAngleSent
<1> QED
  BY <1>7, <1>8

\* OnInput and OnControl at the other machine.
LEMMA OtherInputSame ==
    ASSUME NEW m \in Machine
    PROVE  SamePlayer(m, OnControlOther(OnInputOther(m)))
<1> DEFINE v == [on |-> m.net_input.on, old |-> m.net_input.on, x |-> m.net_input.x]
           l == OnInputOther(m)
           n == OnControlOther(l)
<1>1. v \in Pad
  BY DEF Pad, NetInput, Machine
<1>2. SamePlayer(m, l)
  BY <1>1, WithPad DEF OnInputOther
<1>3. l \in Machine
  BY <1>2 DEF SamePlayer, OtherPacket, Kept
<1> HIDE DEF l
<1>4. PICK x \in Stick \cup {OtherCamera} : n = [l EXCEPT !.AnalogThing = x]
  <2>1. l.net_analog \in Stick /\ 0 \in Stick
    BY <1>3 DEF Machine, Stick
  <2> QED
    BY <2>1 DEF OnControlOther, ControlledRemotely
<1>5. SamePlayer(l, n)
  <2>1. SamePlayer(l, [l EXCEPT !.AnalogThing = x])
    BY <1>3 DEF Machine, SamePlayer, OtherPacket, Kept
  <2> QED
    BY <1>4, <2>1
<1> HIDE DEF n
<1>6. SamePlayer(m, n)
  BY <1>2, <1>5, SameTwice
<1> QED
  BY <1>6 DEF n, l

-----------------------------------------------------------------------------
(* send_player *)

\* A message requested is in the packet, unless the packet, or the other one, has one
\* of its type.
LEMMA RequestedType ==
    ASSUME NEW types, NEW p \in Seq(Messages(types)), NEW msg \in Messages(types), NEW exclude
    PROVE  /\ Requested(p, exclude, msg) \in Seq(Messages(types))
           /\ Requested(p, exclude, msg) \in {p, Append(p, msg)}
           /\ ~HoldsType(exclude, msg.type) /\ ~HoldsType(p, msg.type) =>
                  Requested(p, exclude, msg) = Append(p, msg)
BY AppendedType DEF Requested

\* A packet of messages of some types holds no other.
LEMMA HoldsNoOther ==
    ASSUME NEW types, NEW p \in Seq(Messages(types)), NEW t, t \notin types
    PROVE  ~HoldsType(p, t)
<1> SUFFICES ASSUME HoldsType(p, t) PROVE FALSE
  OBVIOUS
<1>1. PICK i \in DOMAIN p : p[i].type = t
  BY DEF HoldsType
<1>2. p[i] \in Messages(types)
  BY <1>1, ElementOfSeq, LenProperties
<1> QED
  BY <1>1, <1>2, MessageFields

\* The messages that send_player makes of the player.
LEMMA PlayerMessageType ==
    ASSUME NEW b \in Body
    PROVE  /\ PlayerMessage("P_Action", b) = Message("P_Action", b.action)
           /\ b.action \in Content("P_Action")
           /\ PlayerMessage("P_Powerups", b) = Message("P_Powerups", b.powers)
           /\ b.powers \in Content("P_Powerups")
           /\ PlayerMessage("P_Position", b) = Message("P_Position", b.position)
           /\ b.position \in Content("P_Position")
           /\ PlayerMessage("P_Motion", b) = Message("P_Motion", b.motion)
           /\ b.motion \in Content("P_Motion")
BY ContentOf DEF PlayerMessage, Body

\* The messages that add_packet makes of some types.
LEMMA EachMessage ==
    ASSUME NEW b
    PROVE  /\ \A t : [i \in DOMAIN <<t>> |-> PlayerMessage(<<t>>[i], b)] = <<PlayerMessage(t, b)>>
           /\ \A t, u : [i \in DOMAIN <<t, u>> |-> PlayerMessage(<<t, u>>[i], b)]
                            = <<PlayerMessage(t, b), PlayerMessage(u, b)>>
OBVIOUS

\* What send_player tells by TCP: the action if it has changed, perhaps with the position,
\* then the powers if they have.
Compared(p, b, c, q) ==
    \E r \in Grown({"P_Position"}, Append(p, Message("P_Action", b.action))) \cup {p} :
        /\ IF c.action # b.action
           THEN r \in Grown({"P_Position"}, Append(p, Message("P_Action", b.action)))
           ELSE r = p
        /\ IF c.powers # b.powers THEN q = Append(r, Message("P_Powerups", b.powers)) ELSE q = r

OtherSent(m, p, c, n) ==
    /\ Kept(m, n) /\ n.tcp_packet = p /\ n.mirror = c
    /\ n.toggle_hack = m.toggle_hack /\ n.called_damage = m.called_damage
    /\ n.body = m.body

\* What send_player replaces: both packets and the copy.
LEMMA WithSent ==
    ASSUME NEW m \in Machine, NEW p \in Seq(TcpMessage), NEW u \in Seq(UdpMessage),
           NEW c \in Mirror
    PROVE  OtherSent(m, p, c, [m EXCEPT !.tcp_packet = p, !.udp_packet = u, !.mirror = c])
BY DEF Machine, Kept, OtherSent

\* send_player tells what has changed since the last frame, and keeps a copy of what it
\* compared.
LEMMA SendPlayerTells ==
    ASSUME NEW m, Player(m), NEW due_,
           ~HoldsType(m.tcp_packet, "P_Action"), ~HoldsType(m.tcp_packet, "P_Powerups")
    PROVE  LET n == SendPlayer(m, due_)
           IN  /\ Player(n) /\ n.body = m.body /\ n.mirror = Copied(m.body)
               /\ Compared(m.tcp_packet, m.body, m.mirror, n.tcp_packet)
<1> DEFINE all(types) == [i \in DOMAIN types |-> PlayerMessage(types[i], m.body)]
           action == PlayerMessage("P_Action", m.body)
           position == PlayerMessage("P_Position", m.body)
           motion == PlayerMessage("P_Motion", m.body)
           powers == PlayerMessage("P_Powerups", m.body)
           far == FarOrDue(m.mirror.position, m.body.position, due_)
           acts == m.mirror.action # m.body.action
           moves == /\ m.body.action # "object"
                    /\ m.mirror.motion # m.body.motion \/ "speed" \in due_
           gains == m.mirror.powers # m.body.powers
           tcp == m.tcp_packet
           udp == m.udp_packet
           udp1 == IF far THEN RequestedAll(udp, tcp, all(<<"P_Position">>)) ELSE udp
           tcp1 == IF acts THEN RequestedAll(tcp, udp1, all(WithAction)) ELSE tcp
           udp2 == IF moves THEN RequestedAll(udp1, tcp1, all(WithMotion)) ELSE udp1
           tcp2 == IF gains THEN RequestedAll(tcp1, udp2, all(<<"P_Powerups">>)) ELSE tcp1
           n == [m EXCEPT !.tcp_packet = tcp2, !.udp_packet = udp2, !.mirror = Copied(m.body)]
<1>1. /\ m \in Machine /\ m.body \in Body /\ Copied(m.body) \in Mirror
      /\ tcp \in Seq(TcpMessage) /\ udp \in Seq(UdpMessage)
  BY BodyType DEF Player, Machine
<1>2. SendPlayer(m, due_) = n
  BY DEF SendPlayer
<1>3. /\ action \in TcpMessage /\ action.type = "P_Action"
      /\ action = Message("P_Action", m.body.action)
      /\ position \in TcpMessage /\ position \in UdpMessage /\ position \in Messages({"P_Position"})
      /\ position.type = "P_Position"
      /\ motion \in UdpMessage
      /\ powers \in TcpMessage /\ powers.type = "P_Powerups"
      /\ powers = Message("P_Powerups", m.body.powers)
  <2>1. /\ "P_Action" \in TcpType /\ "P_Position" \in TcpType /\ "P_Powerups" \in TcpType
        /\ "P_Position" \in UdpType /\ "P_Motion" \in UdpType /\ "P_Position" \in {"P_Position"}
    BY DEF TcpType, UdpType
  <2>2. action \in TcpMessage /\ action.type = "P_Action"
    BY <1>1, <2>1, PlayerMessageType, MessageType DEF TcpMessage
  <2>3. position \in TcpMessage /\ position \in UdpMessage
    BY <1>1, <2>1, PlayerMessageType, MessageType DEF TcpMessage, UdpMessage
  <2>4. position \in Messages({"P_Position"}) /\ position.type = "P_Position"
    BY <1>1, <2>1, PlayerMessageType, MessageType
  <2>5. motion \in UdpMessage
    BY <1>1, <2>1, PlayerMessageType, MessageType DEF UdpMessage
  <2>6. powers \in TcpMessage /\ powers.type = "P_Powerups"
    BY <1>1, <2>1, PlayerMessageType, MessageType DEF TcpMessage
  <2> QED
    BY <1>1, <2>2, <2>3, <2>4, <2>5, <2>6, PlayerMessageType
<1>4. /\ all(<<"P_Position">>) = <<position>> /\ all(<<"P_Powerups">>) = <<powers>>
      /\ all(WithAction) = <<action, position>> /\ all(WithMotion) = <<motion, position>>
  BY EachMessage DEF WithAction, WithMotion
<1> HIDE DEF all, action, position, motion, powers, far, acts, moves, gains
<1>5. udp1 \in Seq(UdpMessage)
  BY <1>1, <1>3, <1>4, RequestedOne, RequestedType DEF UdpMessage
<1>6. ~HoldsType(udp1, "P_Action")
  BY <1>5, HoldsNoOther DEF UdpMessage, UdpType
<1> HIDE DEF udp1
<1>7. ASSUME acts
      PROVE  /\ tcp1 \in Seq(TcpMessage) /\ tcp1 \in Grown({"P_Position"}, Append(tcp, action))
             /\ ~HoldsType(tcp1, "P_Powerups")
  <2> DEFINE r == Requested(tcp, udp1, action)
  <2>1. r = Append(tcp, action) /\ r \in Seq(TcpMessage)
    BY <1>1, <1>3, <1>6, RequestedType DEF TcpMessage
  <2>2. tcp1 = Requested(r, udp1, position)
    BY <1>4, <1>7, RequestedTwo
  <2> HIDE DEF r, tcp1
  <2>3. tcp1 \in Seq(TcpMessage) /\ tcp1 \in {r, Append(r, position)}
    BY <1>3, <2>1, <2>2, RequestedType DEF TcpMessage
  <2>4. ~HoldsType(r, "P_Powerups")
    BY <1>1, <1>3, <2>1, HoldsAppend
  <2>5. ~HoldsType(Append(r, position), "P_Powerups")
    <3>1. r \in Seq(TcpMessage)
      BY <2>1
    <3> QED
      BY <1>3, <2>4, <3>1, HoldsAppend
  <2> QED
    BY <1>3, <2>1, <2>3, <2>4, <2>5 DEF Grown
<1>8. tcp1 \in Seq(TcpMessage) /\ ~HoldsType(tcp1, "P_Powerups") /\ (~acts => tcp1 = tcp)
  BY <1>1, <1>7
<1> HIDE DEF tcp1
<1>9. udp2 \in Seq(UdpMessage)
  <2> DEFINE r == Requested(udp1, tcp1, motion)
  <2>1. r \in Seq(UdpMessage)
    BY <1>3, <1>5, RequestedType DEF UdpMessage
  <2>2. udp2 = IF moves THEN Requested(r, tcp1, position) ELSE udp1
    BY <1>4, RequestedTwo
  <2> HIDE DEF r, udp2
  <2> QED
    BY <1>3, <1>5, <2>1, <2>2, RequestedType DEF UdpMessage
<1>10. ~HoldsType(udp2, "P_Powerups")
  BY <1>9, HoldsNoOther DEF UdpMessage, UdpType
<1> HIDE DEF udp2
<1>11. /\ tcp2 \in Seq(TcpMessage)
       /\ tcp2 = IF gains THEN Append(tcp1, powers) ELSE tcp1
  <2>1. tcp2 = IF gains THEN Requested(tcp1, udp2, powers) ELSE tcp1
    BY <1>4, RequestedOne
  <2> HIDE DEF tcp2
  <2> QED
    BY <1>3, <1>8, <1>10, <2>1, RequestedType DEF TcpMessage
<1> HIDE DEF tcp2
<1>12. OtherSent(m, tcp2, Copied(m.body), n)
  BY <1>1, <1>9, <1>11, WithSent
<1> HIDE DEF n
<1>13. Player(n)
  BY <1>12 DEF Player, Kept, Idle, OtherSent
<1>14. Compared(tcp, m.body, m.mirror, tcp2)
  <2>1. CASE acts
    BY <1>3, <1>7, <1>11, <2>1 DEF Compared, acts, gains
  <2>2. CASE ~acts
    BY <1>3, <1>8, <1>11, <2>2 DEF Compared, acts, gains
  <2> QED
    BY <2>1, <2>2
<1> QED
  BY <1>2, <1>12, <1>13, <1>14 DEF OtherSent

================================================================================
