------------------------------- MODULE Session -------------------------------
(***************************************************************************)
(* How a match comes about and ends: PacketHandler's connections, the      *)
(* handshake of Program::connect (start_server, start_client), the part of *)
(* OnFrame that calls it, the timeouts of receive_loop and                 *)
(* Program::disconnect.                                                    *)
(*                                                                         *)
(* A frame of the host is up to three steps: OnFrame up to the call of     *)
(* Program::connect, with the accept (HostListen, HostAccept,              *)
(* HostSkipConnect); the blocking receive of the client's version,         *)
(* password and port, with the answer (HostHandshakeGood, -Bad); and the   *)
(* receive_loop (HostRest).  A client blocks in start_client from          *)
(* ClientConnect to the answer.                                            *)
(*                                                                         *)
(* The three screens are all that OnFrame and can_connect tell apart:      *)
(* "away" is CurrentMenu < battle, "start" the 2P menu up to its intro,    *)
(* "lobby" the 2P menu after it.                                           *)
(***************************************************************************)
EXTENDS Integers, Sequences, FiniteSets, FiniteSetsExt

CONSTANTS
    Host,           \* the player that runs with --host
    Client,         \* the players that run with --connect
    Accepted,       \* the clients whose version and password match the host's
    Restless,       \* the players who may leave the 2P menu
    MaxConnects,    \* bound: how often a client connects
    MaxRestarts     \* bound: how often the host's game is closed and started again

Player == {Host} \cup Client

ASSUME PlayerAssumption ==
    /\ Host \notin Client /\ IsFiniteSet(Client)
    /\ Accepted \subseteq Client /\ Restless \subseteq Player
    /\ MaxConnects \in Nat /\ MaxRestarts \in Nat

VARIABLES
    screen,         \* what each game shows
    pc,             \* where each process is in its frame
    hooks,          \* how many more times events::Initialize ran than Deinitialize
    settings,       \* whose settings each game plays by
    bound,          \* host: the listener is open (PacketHandler::bound)
    host,           \* host: PacketHandler::host
    connections,    \* host: PacketHandler::connections_
    keep_alive,     \* host: the nodes PacketBroker watches
    resume,         \* host: this_thing of the frame that called Program::connect
    backlog,        \* TCP connections the host has not accepted yet
    serial,         \* client: the number of its last TCP connection
    answers,        \* client: what is on the way on that connection
    online,         \* client: it has a connection and is past the handshake
    player_num,     \* client: its player number
    own_pad,        \* client: the place its own controller has in ControllerPointers
    rejected,       \* client: Program::rejected
    restarts

hostVars == <<bound, host, connections, keep_alive, resume, restarts>>
clientVars == <<serial, online, player_num, own_pad, rejected>>
vars == <<screen, pc, hooks, settings, hostVars, clientVars, backlog, answers>>

Screen == {"away", "start", "lobby"}
NoPort == [peer |-> Host, serial |-> 0]     \* not received yet

\* An entry of connections_: the node it was given, the TCP connection behind it, and the
\* UDP port of its udp_address.  A client binds its UDP socket anew for each of its
\* connections, so a port is named by the TCP connection on which it is told.
Port == [peer : Client, serial : Nat] \cup {NoPort}
Connection == [node : Nat, peer : Client, serial : Nat, port : Port]

TcpOf(cn) == [peer |-> cn.peer, serial |-> cn.serial]

Mismatch == [ok |-> FALSE, player |-> 0]

-----------------------------------------------------------------------------
(* PacketHandler *)

NodesOf(cs) == {cs[i].node : i \in DOMAIN cs}

\* add_connection would number its entries from its index, counting down from one.
IndexConnection(cs, tcp) ==
    [node |-> Len(cs) - 1, peer |-> tcp.peer, serial |-> tcp.serial, port |-> NoPort]

\* add_connection on the host.
NewConnection(cs, tcp) ==
    [node |-> Len(cs) + 1, peer |-> tcp.peer, serial |-> tcp.serial, port |-> NoPort]

\* find_if by node: the first entry that has it.
FirstOf(cs, node) == Min({i \in DOMAIN cs : cs[i].node = node})

\* set_remote_port would write to the first connection of all.
SetRemotePortOfFront(cs, node, tcp) == [cs EXCEPT ![1].port = tcp]

\* set_remote_port: the first entry with the node gets the port, whoever told it.
SetRemotePort(cs, node, tcp) == [cs EXCEPT ![FirstOf(cs, node)].port = tcp]

RemoveAtIndex(cs, i) == SubSeq(cs, 1, i - 1) \o SubSeq(cs, i + 1, Len(cs))

\* disconnect(node): the last connection goes whatever its node is.
Dropped(cs, node) ==
    IF Len(cs) = 1 THEN <<>>
    ELSE IF node \in NodesOf(cs) THEN RemoveAtIndex(cs, FirstOf(cs, node)) ELSE cs

\* The TCP connection behind an entry is still the client's.
IsCurrent(cn) == serial[cn.peer] = cn.serial /\ pc[cn.peer] # "crashed"

Current(c, s) == \E i \in DOMAIN s : s[i].peer = c /\ s[i].serial = serial[c]

\* The answer would go to the connection that was just accepted.
AnsweredLast(cs, node, answer) == [answers EXCEPT ![cs[Len(cs)].peer] = Append(@, answer)]

\* send_tcp to the first entry with this node.
Answered(cs, node, answer) ==
    LET to == cs[FirstOf(cs, node)]
    IN  IF IsCurrent(to) THEN [answers EXCEPT ![to.peer] = Append(@, answer)] ELSE answers

\* disconnect(): every connection, the listener with the connections it has not
\* accepted, and the UDP socket are closed; host keeps its value.
CloseAll ==
    /\ connections' = <<>>
    /\ backlog' = <<>>
    /\ bound' = FALSE

-----------------------------------------------------------------------------
(* The host *)

CanConnect(screenNow, isConnected) ==
    screenNow # "away" /\ (screenNow = "lobby" \/ isConnected)

ThisThing == host /\ screen[Host] = "lobby"

\* Program::disconnect without its Deinitialize.
HooksKept(n) == hooks

\* Program::disconnect: events::Deinitialize, whether or not the hooks are in place.
\* -1 stands for any number of removals too many.
HooksRemoved(n) == [hooks EXCEPT ![n] = IF @ < 0 THEN @ ELSE @ - 1]

\* OnFrame calls Program::connect, and nobody is waiting to be accepted: start_server
\* opens the listener if it is closed and returns.
HostListen ==
    /\ pc[Host] = "idle"
    /\ connections = <<>> \/ ThisThing
    /\ CanConnect(screen[Host], connections # <<>>)
    /\ backlog = <<>>
    /\ bound' = TRUE
    /\ pc' = [pc EXCEPT ![Host] = IF ThisThing THEN "rest" ELSE "idle"]
    /\ UNCHANGED <<screen, hooks, settings, host, connections, keep_alive, resume,
                   restarts, clientVars, backlog, answers>>

\* OnFrame calls Program::connect and start_server accepts a connection.
HostAccept ==
    /\ pc[Host] = "idle"
    /\ connections = <<>> \/ ThisThing
    /\ CanConnect(screen[Host], connections # <<>>)
    /\ backlog # <<>>
    /\ host' = TRUE
    /\ connections' = Append(connections, NewConnection(connections, Head(backlog)))
    /\ backlog' = Tail(backlog)
    /\ resume' = ThisThing
    /\ pc' = [pc EXCEPT ![Host] = "handshake"]
    /\ UNCHANGED <<screen, hooks, settings, bound, keep_alive, restarts, clientVars, answers>>

\* OnFrame with a connection and away from the lobby: straight to the receive_loop.
HostSkipConnect ==
    /\ pc[Host] = "idle"
    /\ connections # <<>> /\ ~ThisThing
    /\ pc' = [pc EXCEPT ![Host] = "rest"]
    /\ UNCHANGED <<screen, hooks, settings, hostVars, clientVars, backlog, answers>>

AfterConnect == [pc EXCEPT ![Host] = IF resume THEN "rest" ELSE "idle"]

\* N_SetPlayer: connection_count().
PlayerNumber(cs) == Len(cs)

\* The host would take anybody's version and password.
AnyCredentials(c) == TRUE

\* The version is the host's, and so is the password when the host has one.
Credentials(c) == c \in Accepted

\* The rest of start_server and of Program::connect when it succeeds.
HostHandshakeGood ==
    /\ pc[Host] = "handshake"
    /\ LET new == connections[Len(connections)]
           known == SetRemotePort(connections, new.node, TcpOf(new))
       IN  /\ Credentials(new.peer)
           /\ connections' = known
           /\ answers' = Answered(known, new.node, [ok |-> TRUE, player |-> PlayerNumber(known)])
           /\ keep_alive' = keep_alive \cup NodesOf(known)
    /\ hooks' = [hooks EXCEPT ![Host] = IF Len(connections) = 1 THEN @ + 1 ELSE @]
    /\ pc' = AfterConnect
    /\ UNCHANGED <<screen, settings, bound, host, resume, restarts, clientVars, backlog>>

\* A mismatch: the client is told and everybody is disconnected.
HostHandshakeBad ==
    /\ pc[Host] = "handshake"
    /\ LET new == connections[Len(connections)]
       IN  /\ ~Credentials(new.peer)
           /\ answers' = Answered(connections, new.node, Mismatch)
    /\ CloseAll
    /\ pc' = AfterConnect
    /\ UNCHANGED <<screen, hooks, settings, host, keep_alive, resume, restarts, clientVars>>

\* Program::disconnect on the host.
HostDisconnect ==
    /\ CloseAll
    /\ hooks' = HooksRemoved(Host)
    /\ keep_alive' = {}

\* The rest of OnFrame when the game has left the menu.
HostLeaves ==
    /\ pc[Host] = "rest"
    /\ ~CanConnect(screen[Host], connections # <<>>)
    /\ HostDisconnect
    /\ pc' = [pc EXCEPT ![Host] = "idle"]
    /\ UNCHANGED <<screen, settings, host, resume, restarts, clientVars, answers>>

\* The rest of OnFrame: receive_loop drops the nodes in gone, and the program
\* disconnects when that is as many as there were connections - none, for one.  Any node
\* that is watched may have been silent for too long: its keep-alives are lost, its
\* client waits for the others, or its port was written over and nothing it sends is
\* taken.
HostRest(gone) ==
    /\ pc[Host] = "rest"
    /\ CanConnect(screen[Host], connections # <<>>)
    /\ gone \subseteq keep_alive
    /\ pc' = [pc EXCEPT ![Host] = "idle"]
    /\ IF Cardinality(gone) >= Len(connections)
       THEN HostDisconnect
       ELSE /\ connections' =
                   FoldSet(LAMBDA n, cs : Dropped(cs, n), connections, gone)
            /\ keep_alive' = keep_alive \ gone
            /\ UNCHANGED <<bound, backlog, hooks>>
    /\ UNCHANGED <<screen, settings, host, resume, restarts, clientVars, answers>>

\* The host's game is closed and started again.
HostRestart ==
    /\ restarts < MaxRestarts
    /\ restarts' = restarts + 1
    /\ CloseAll
    /\ host' = FALSE
    /\ keep_alive' = {}
    /\ resume' = FALSE
    /\ pc' = [pc EXCEPT ![Host] = "idle"]
    /\ screen' = [screen EXCEPT ![Host] = "away"]
    /\ hooks' = [hooks EXCEPT ![Host] = 0]
    /\ UNCHANGED <<settings, clientVars, answers>>

-----------------------------------------------------------------------------
(* A client *)

\* OnFrame, not connected: start_client connects to the open listener, sends its
\* version, password and port, and blocks until it is answered.
ClientConnect(c) ==
    /\ pc[c] = "idle" /\ ~online[c]
    /\ CanConnect(screen[c], FALSE)
    /\ ~rejected[c]
    /\ bound
    /\ serial[c] < MaxConnects
    /\ serial' = [serial EXCEPT ![c] = @ + 1]
    /\ backlog' = Append(backlog, [peer |-> c, serial |-> serial[c] + 1])
    /\ answers' = [answers EXCEPT ![c] = <<>>]
    /\ pc' = [pc EXCEPT ![c] = "handshake"]
    /\ UNCHANGED <<screen, hooks, settings, hostVars, online, player_num, own_pad, rejected>>

\* OnFrame, not connected, outside the lobby: the client may try again.
ClientForgets(c) ==
    /\ pc[c] = "idle" /\ ~online[c]
    /\ ~CanConnect(screen[c], FALSE)
    /\ rejected[c]
    /\ rejected' = [rejected EXCEPT ![c] = FALSE]
    /\ UNCHANGED <<screen, pc, hooks, settings, hostVars, serial, online, player_num,
                   own_pad, backlog, answers>>

\* swap_input: two places of ControllerPointers change their controllers.
Swapped(pad, from, to) == IF pad = from THEN to ELSE IF pad = to THEN from ELSE pad

\* set_player_number would swap from the old number, even when there is none.
SwappedFromNone(pad, old, number) == Swapped(pad, old, number)

\* set_player_number: the controllers of the old number, or of 0, and of the new one.
SwappedTo(pad, old, number) == Swapped(pad, IF old < 0 THEN 0 ELSE old, number)

\* The end of a successful handshake: the host's settings, the player number, the hooks.
ClientAccepted(c) ==
    /\ pc[c] = "handshake"
    /\ answers[c] # <<>> /\ Head(answers[c]).ok
    /\ answers' = [answers EXCEPT ![c] = Tail(@)]
    /\ online' = [online EXCEPT ![c] = TRUE]
    /\ player_num' = [player_num EXCEPT ![c] = Head(answers[c]).player]
    /\ own_pad' = [own_pad EXCEPT ![c] = SwappedTo(@, player_num[c], Head(answers[c]).player)]
    /\ settings' = [settings EXCEPT ![c] = Host]
    /\ hooks' = [hooks EXCEPT ![c] = @ + 1]
    /\ pc' = [pc EXCEPT ![c] = "idle"]
    /\ UNCHANGED <<screen, hostVars, serial, rejected, backlog>>

\* The client is among those the host broadcasts to, outside the host's handshakes.
HearsBroadcasts(c) ==
    /\ pc[Host] # "handshake"
    /\ Current(c, connections)

\* N_VersionMismatch or N_PasswordMismatch, or a message of the match instead of an
\* answer: the client disconnects and stops trying.
ClientRejected(c) ==
    /\ pc[c] = "handshake"
    /\ \/ answers[c] # <<>> /\ ~Head(answers[c]).ok
       \/ answers[c] = <<>> /\ HearsBroadcasts(c)
    /\ answers' = [answers EXCEPT ![c] = <<>>]
    /\ rejected' = [rejected EXCEPT ![c] = TRUE]
    /\ pc' = [pc EXCEPT ![c] = "idle"]
    /\ UNCHANGED <<screen, hooks, settings, hostVars, serial, online, player_num, own_pad,
                   backlog>>

\* The host closed the connection without an answer: receive_tcp throws, and nothing
\* between it and the game catches.
ClientAborts(c) ==
    /\ pc[c] = "handshake"
    /\ answers[c] = <<>>
    /\ ~Current(c, connections) /\ ~Current(c, backlog)
    /\ pc' = [pc EXCEPT ![c] = "crashed"]
    /\ UNCHANGED <<screen, hooks, settings, hostVars, clientVars, backlog, answers>>

\* A handshake's answer that reaches a client past its own: read throws it away.
ClientIgnores(c) ==
    /\ pc[c] = "idle" /\ online[c]
    /\ answers[c] # <<>>
    /\ answers' = [answers EXCEPT ![c] = Tail(@)]
    /\ UNCHANGED <<screen, pc, hooks, settings, hostVars, clientVars, backlog>>

\* Program::disconnect would leave the host's settings in force.
SettingsKept(c) == settings

\* Program::disconnect on a client: its own settings again.
SettingsRestored(c) == [settings EXCEPT ![c] = c]

\* Program::disconnect: the game has left the menu, or nothing of the host has arrived
\* for too long, whether the host is gone, blocked or its keep-alives are lost.
ClientDisconnect(c) ==
    /\ pc[c] = "idle" /\ online[c]
    /\ online' = [online EXCEPT ![c] = FALSE]
    /\ player_num' = [player_num EXCEPT ![c] = -1]
    /\ settings' = SettingsRestored(c)
    /\ hooks' = HooksRemoved(c)
    /\ answers' = [answers EXCEPT ![c] = <<>>]
    /\ UNCHANGED <<screen, pc, hostVars, serial, own_pad, rejected, backlog>>

-----------------------------------------------------------------------------
\* Between two frames, the player moves through the menus.
Navigate(n) ==
    /\ pc[n] = "idle"
    /\ \E s \in Screen :
           /\ <<screen[n], s>> \in {<<"away", "start">>, <<"start", "lobby">>}
                                   \cup IF n \in Restless
                                        THEN {<<"lobby", "start">>, <<"start", "away">>,
                                              <<"lobby", "away">>} ELSE {}
           /\ screen' = [screen EXCEPT ![n] = s]
    /\ UNCHANGED <<pc, hooks, settings, hostVars, clientVars, backlog, answers>>

Init ==
    /\ screen = [n \in Player |-> "away"]
    /\ pc = [n \in Player |-> "idle"]
    /\ hooks = [n \in Player |-> 0]
    /\ settings = [n \in Player |-> n]
    /\ bound = FALSE /\ host = FALSE /\ connections = <<>> /\ keep_alive = {}
    /\ resume = FALSE /\ restarts = 0
    /\ backlog = <<>>
    /\ serial = [c \in Client |-> 0]
    /\ answers = [c \in Client |-> <<>>]
    /\ online = [c \in Client |-> FALSE]
    /\ player_num = [c \in Client |-> -1]
    /\ own_pad = [c \in Client |-> 0]
    /\ rejected = [c \in Client |-> FALSE]

HostStep ==
    \/ HostListen \/ HostAccept \/ HostSkipConnect
    \/ HostHandshakeGood \/ HostHandshakeBad
    \/ HostLeaves
    \/ \E gone \in SUBSET keep_alive : HostRest(gone)
    \/ HostRestart

ClientStep(c) ==
    \/ ClientConnect(c) \/ ClientForgets(c)
    \/ ClientAccepted(c) \/ ClientRejected(c) \/ ClientAborts(c)
    \/ ClientIgnores(c) \/ ClientDisconnect(c)

Next ==
    \/ HostStep
    \/ \E c \in Client : ClientStep(c)
    \/ \E n \in Player : Navigate(n)

Spec == Init /\ [][Next]_vars

-----------------------------------------------------------------------------
(* Properties *)

\* The type invariant.
TypeOK ==
    /\ screen \in [Player -> Screen]
    /\ pc \in [Player -> {"idle", "handshake", "rest", "crashed"}]
    /\ hooks \in [Player -> Int]
    /\ settings \in [Player -> Player]
    /\ bound \in BOOLEAN /\ host \in BOOLEAN /\ resume \in BOOLEAN
    /\ connections \in Seq(Connection)
    /\ keep_alive \subseteq Nat
    /\ restarts \in 0..MaxRestarts
    /\ backlog \in Seq([peer : Client, serial : Nat])
    /\ serial \in [Client -> 0..MaxConnects]
    /\ answers \in [Client -> Seq([ok : BOOLEAN, player : Nat])]
    /\ online \in [Client -> BOOLEAN]
    /\ player_num \in [Client -> Int]
    /\ own_pad \in [Client -> Nat]
    /\ rejected \in [Client -> BOOLEAN]

\* The number a message carries tells who sent it (Networking.h:41-42): no two of the
\* host's connections have the same node.
NodesAreUnique ==
    \A i, j \in DOMAIN connections :
        connections[i].node = connections[j].node => i = j

\* Whoever comes and goes: a client that is past its handshake and the host know it by
\* the same number, and no two players of the session have the same one.
InSession(i) ==
    online[connections[i].peer] /\ connections[i].serial = serial[connections[i].peer]

IdentitiesAgree ==
    \A i \in DOMAIN connections :
        InSession(i) =>
            /\ player_num[connections[i].peer] = connections[i].node
            /\ player_num[connections[i].peer] > 0
            /\ \A j \in DOMAIN connections :
                   (InSession(j) /\ i # j) =>
                       player_num[connections[i].peer] # player_num[connections[j].peer]

\* Whoever told its port when a node was given out twice: a datagram that receive_udp
\* finds an entry for is read as one of the player that sent it.
DatagramsAgree ==
    \A i \in DOMAIN connections :
        LET from == connections[i].port
        IN  (from # NoPort /\ online[from.peer] /\ from.serial = serial[from.peer]) =>
                player_num[from.peer] = connections[i].node

\* A client plays by the host's settings exactly as long as it is in the host's
\* session, however the session ends, and by its own at any other time.
SettingsFollowTheSession ==
    \A c \in Client : settings[c] = IF online[c] THEN Host ELSE c

\* The hooks of a client are in place exactly while it is in a session: none is
\* installed twice, and none is removed that was not installed.
HooksFollowTheSession ==
    \A c \in Client : hooks[c] = IF online[c] THEN 1 ELSE 0

\* In the first session of a client, the character of its number is steered by its own
\* controller (PacketBroker.cpp:506-518).  In later ones it need not be: initialize
\* forgets the number and leaves the controllers where they are.
OwnPadTheFirstTime ==
    \A c \in Client : (online[c] /\ serial[c] = 1) => own_pad[c] = player_num[c]

\* Only a client with the host's version and password ever gets into a session,
\* whoever's answer reaches it.
OnlyAcceptedPlay == \A c \in Client : online[c] => c \in Accepted

\* "Enter the 2P BATTLE menu. The music should change to reflect hosting status."
\* (README.md:22): a frame in which the host has its listener open, has no connection
\* and shows the lobby leaves the listener open, so that somebody can connect.
HostKeepsListening ==
    [][(/\ pc[Host] = "rest" /\ pc'[Host] = "idle" /\ restarts' = restarts
        /\ screen[Host] = "lobby" /\ bound /\ connections = <<>>) => bound']_vars

=============================================================================
