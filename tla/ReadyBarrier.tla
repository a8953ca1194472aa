----------------------------- MODULE ReadyBarrier -----------------------------
(***************************************************************************)
(* The ready barrier of PacketBroker (wait_for_players, send_ready,        *)
(* send_ready_and_wait, the N_Ready case of read, the relaying and the     *)
(* timeouts of receive_loop) and the hooks built on it: SetCurrentLevel,   *)
(* SetNextLevel_Hook, Menu_Battle_hook, srand_hook, OnGameState and        *)
(* PoseEffect2PStartMan_Delete.                                            *)
(*                                                                         *)
(* One server and its clients are connected by TCP: one FIFO channel per   *)
(* client and direction.  Every process is a single thread, which calls    *)
(* receive_loop once per frame and in the loop of wait_for_players.  A     *)
(* receive_loop that finds several packets is several Receive steps of the *)
(* process: how many packets one call finds depends on the network only,   *)
(* so the steps in between are behaviours of the code as well.             *)
(*                                                                         *)
(* A synchronization point's data is known by the process that chose it    *)
(* and the point it chose it at, [by, round]: the properties only ask      *)
(* whose value a player ends up with, and how old it is.                   *)
(***************************************************************************)
EXTENDS Integers, Sequences, FiniteSets

CONSTANTS
    Server,     \* the hosting player, node 0
    Client,     \* the players connected to it
    Mortal,     \* the clients whose connection may time out
    Script      \* the synchronization points the game goes through, in order

Node == {Server} \cup Client

\* Data the client's game takes from the server instead of its own choice: the
\* original function runs on the client only when the wait fails.
Deferred == {"S_Stage", "S_Seed"}
\* Data the client's game sets as well and the server's packet overwrites.
Immediate == {"S_NextStage", "P_Character"}
\* Points that synchronize the time only.
Bare == {"S_GameState", "S_RoundStart"}

Payload == Deferred \cup Immediate
MessageID == Payload \cup Bare

ASSUME ClientAssumption == Server \notin Client /\ IsFiniteSet(Client)
ASSUME MortalAssumption == Mortal \subseteq Client
ASSUME ScriptAssumption == Script \in Seq(MessageID)

VARIABLES
    pc,             \* "game", in the loop of wait_for_players, or no longer connected
    step,           \* how many synchronization points the process has gone past
    wait_requests,  \* PacketBroker::wait_requests, per process: the count of each id
    value,          \* the data of each id the process's game holds
    connections,    \* the clients the server's PacketHandler is connected to
    toServer,       \* TCP, client to server: the packets on the way
    toClient        \* TCP, server to client

vars == <<pc, step, wait_requests, value, connections, toServer, toClient>>

NoRequest == -1     \* no entry in wait_requests
Round == 0..Len(Script)
Value == [by : Node, round : Round]

\* A packet with an N_Ready for id.  The server puts the data of a Payload id in
\* front of it, and an N_Node in front of a packet it relays: node is the real
\* sender.  round is the point the packet was sent at.
Packet == [node : Node, id : MessageID, round : Round]

-----------------------------------------------------------------------------
NextId(n) == Script[step[n] + 1]

Own(n) == [by |-> n, round |-> step[n] + 1]

ReadyPacket(n) == [node |-> n, id |-> NextId(n), round |-> step[n] + 1]

\* wait_for_players: find the request or insert an empty one.
Opened(requests, id) ==
    IF requests[id] = NoRequest THEN [requests EXCEPT ![id] = 0] ELSE requests

\* The client would count the N_Ready of any sender.
ClientCountedAnySender(requests, m) ==
    IF requests[m.id] # NoRequest
    THEN [requests EXCEPT ![m.id] = @ + 1] ELSE requests

\* N_Ready at a client: only the server's counts, and only for an open request.
ClientCounted(requests, m) ==
    IF m.node = Server /\ requests[m.id] # NoRequest
    THEN [requests EXCEPT ![m.id] = @ + 1] ELSE requests

\* The server would count for an open request only.
ServerCountedIfOpen(requests, m) ==
    IF requests[m.id] # NoRequest
    THEN [requests EXCEPT ![m.id] = @ + 1] ELSE requests

\* N_Ready at the server: it counts, and opens the request when it comes early.
ServerCounted(requests, m) ==
    [requests EXCEPT ![m.id] = IF @ = NoRequest THEN 1 ELSE @ + 1]

\* The request would keep its entry, and its count.
NotErased(requests, id) == requests

\* wait_for_players erases the request it waited for.
Erased(requests, id) == [requests EXCEPT ![id] = NoRequest]

\* PacketBroker::initialize clears every request (Program::disconnect).
NoRequests == [id \in MessageID |-> NoRequest]

-----------------------------------------------------------------------------
Init ==
    /\ pc = [n \in Node |-> "game"]
    /\ step = [n \in Node |-> 0]
    /\ wait_requests = [n \in Node |-> NoRequests]
    /\ value = [n \in Node |-> [id \in Payload |-> [by |-> n, round |-> 0]]]
    /\ connections = Client
    /\ toServer = [c \in Client |-> <<>>]
    /\ toClient = [c \in Client |-> <<>>]

\* The server's game reaches a synchronization point: the original function runs,
\* then wait_for_players begins.
ServerEnter ==
    /\ pc[Server] = "game"
    /\ step[Server] < Len(Script)
    /\ pc' = [pc EXCEPT ![Server] = "wait"]
    /\ wait_requests' = [wait_requests EXCEPT ![Server] = Opened(@, NextId(Server))]
    /\ value' = IF NextId(Server) \in Payload
                THEN [value EXCEPT ![Server][NextId(Server)] = Own(Server)] ELSE value
    /\ UNCHANGED <<step, connections, toServer, toClient>>

\* A client's game reaches it: send_ready_and_wait sends N_Ready and then waits.
\* What is sent on a connection the server has closed is lost.
ClientEnter(c) ==
    /\ pc[c] = "game"
    /\ step[c] < Len(Script)
    /\ pc' = [pc EXCEPT ![c] = "wait"]
    /\ wait_requests' = [wait_requests EXCEPT ![c] = Opened(@, NextId(c))]
    /\ value' = IF NextId(c) \in Immediate
                THEN [value EXCEPT ![c][NextId(c)] = Own(c)] ELSE value
    /\ toServer' = IF c \in connections
                   THEN [toServer EXCEPT ![c] = Append(@, ReadyPacket(c))] ELSE toServer
    /\ UNCHANGED <<step, connections, toClient>>

\* receive_loop at the server reads a packet of c and relays it to the others.
ServerReceive(c) ==
    /\ pc[Server] # "offline"
    /\ c \in connections
    /\ toServer[c] # <<>>
    /\ LET m == Head(toServer[c])
           relayTo == connections \ {c}
       IN  /\ wait_requests' = [wait_requests EXCEPT ![Server] = ServerCounted(@, m)]
           /\ toClient' = [d \in Client |-> IF d \in relayTo THEN Append(toClient[d], m)
                                            ELSE toClient[d]]
    /\ toServer' = [toServer EXCEPT ![c] = Tail(@)]
    /\ UNCHANGED <<pc, step, value, connections>>

\* receive_loop at a client reads a packet: the data, whatever the client is doing,
\* then the N_Ready.
ClientReceive(c) ==
    /\ pc[c] # "offline"
    /\ toClient[c] # <<>>
    /\ LET m == Head(toClient[c])
       IN  /\ value' = IF m.node = Server /\ m.id \in Payload
                       THEN [value EXCEPT ![c][m.id] = [by |-> Server, round |-> m.round]]
                       ELSE value
           /\ wait_requests' = [wait_requests EXCEPT ![c] = ClientCounted(@, m)]
    /\ toClient' = [toClient EXCEPT ![c] = Tail(@)]
    /\ UNCHANGED <<pc, step, connections, toServer>>

\* The loop of wait_for_players would end one player early.
AllButOneReady == wait_requests[Server][NextId(Server)] + 1 >= Cardinality(connections)

\* The loop of wait_for_players ends: as many N_Ready as there are connections now.
EnoughReady == wait_requests[Server][NextId(Server)] >= Cardinality(connections)

\* The wait succeeds at the server, which sends the data and its own N_Ready.
ServerPass ==
    /\ pc[Server] = "wait"
    /\ EnoughReady
    /\ pc' = [pc EXCEPT ![Server] = "game"]
    /\ step' = [step EXCEPT ![Server] = @ + 1]
    /\ wait_requests' = [wait_requests EXCEPT ![Server] = Erased(@, NextId(Server))]
    /\ toClient' = [c \in Client |-> IF c \in connections
                                     THEN Append(toClient[c], ReadyPacket(Server))
                                     ELSE toClient[c]]
    /\ UNCHANGED <<value, connections, toServer>>

\* The wait succeeds at a client, which has one connection.
ClientPass(c) ==
    /\ pc[c] = "wait"
    /\ wait_requests[c][NextId(c)] >= 1
    /\ pc' = [pc EXCEPT ![c] = "game"]
    /\ step' = [step EXCEPT ![c] = @ + 1]
    /\ wait_requests' = [wait_requests EXCEPT ![c] = Erased(@, NextId(c))]
    /\ UNCHANGED <<value, connections, toServer, toClient>>

\* The requests of a server that would take a client it drops off the count.
Discounted(requests, n) ==
    IF step[Server] < Len(Script) THEN [requests EXCEPT ![NextId(Server)] = @ - n] ELSE requests

\* The server's requests when it drops some of its clients: they do not change.
AfterDrop(requests, n) == requests

\* The end of receive_loop at the server: the clients in gone have been silent for
\* longer than the timeout.  When they are all it has, the program disconnects.
ServerTimeout(gone) ==
    /\ pc[Server] # "offline"
    /\ gone \subseteq connections
    /\ connections' = connections \ gone
    /\ toServer' = [c \in Client |-> IF c \in gone THEN <<>> ELSE toServer[c]]
    /\ IF gone = connections
       THEN /\ pc' = [pc EXCEPT ![Server] = "offline"]
            /\ wait_requests' = [wait_requests EXCEPT ![Server] = NoRequests]
       ELSE /\ wait_requests' =
                   [wait_requests EXCEPT ![Server] = AfterDrop(@, Cardinality(gone))]
            /\ UNCHANGED pc
    /\ UNCHANGED <<step, value, toClient>>

\* The same at a client, whose only connection is the server.  A wait that fails
\* lets the client's own choice of Deferred data through.
ClientTimeout(c) ==
    /\ pc[c] # "offline"
    /\ pc' = [pc EXCEPT ![c] = "offline"]
    /\ wait_requests' = [wait_requests EXCEPT ![c] = NoRequests]
    /\ value' = IF pc[c] = "wait" /\ NextId(c) \in Deferred
                THEN [value EXCEPT ![c][NextId(c)] = Own(c)] ELSE value
    /\ toClient' = [toClient EXCEPT ![c] = <<>>]
    /\ UNCHANGED <<step, connections, toServer>>

\* The game is over: the script has been played or the session has ended.
Finished(n) == pc[n] = "offline" \/ (pc[n] = "game" /\ step[n] = Len(Script))

Done == (\A n \in Node : Finished(n)) /\ UNCHANGED vars

Next ==
    \/ ServerEnter
    \/ ServerPass
    \/ \E c \in Client : ClientEnter(c) \/ ClientPass(c)
    \/ \E c \in Client : ServerReceive(c) \/ ClientReceive(c)
    \/ \E gone \in (SUBSET Mortal) \ {{}} : ServerTimeout(gone)
    \/ \E c \in Mortal : ClientTimeout(c)
    \/ Done

\* Every game keeps running and every process keeps calling receive_loop, in
\* OnFrame and in wait_for_players.  Nothing forces a connection to time out.
Fairness ==
    /\ WF_vars(ServerEnter)
    /\ WF_vars(ServerPass)
    /\ \A c \in Client : /\ WF_vars(ClientEnter(c))
                         /\ WF_vars(ClientPass(c))
                         /\ WF_vars(ServerReceive(c))
                         /\ WF_vars(ClientReceive(c))

Spec == Init /\ [][Next]_vars /\ Fairness

-----------------------------------------------------------------------------
(* Properties *)

\* The type invariant: counts never go below zero, nobody goes past the script.
TypeOK ==
    /\ pc \in [Node -> {"game", "wait", "offline"}]
    /\ step \in [Node -> Round]
    /\ \A n \in Node : pc[n] = "wait" => step[n] < Len(Script)
    /\ wait_requests \in [Node -> [MessageID -> Nat \cup {NoRequest}]]
    /\ value \in [Node -> [Payload -> Value]]
    /\ connections \subseteq Client
    /\ toServer \in [Client -> Seq(Packet)]
    /\ toClient \in [Client -> Seq(Packet)]

\* n is blocked at the point that comes after the first k.
WaitsAt(n, k) == pc[n] = "wait" /\ step[n] = k

\* The clients whose N_Ready for the server's next point the server has read.
Counted == {c \in Client : WaitsAt(c, step[Server]) /\ toServer[c] = <<>>}

\* The bare integer that wait_for_players compares with the number of connections
\* counts players: it is the number of clients that are blocked at the server's next
\* point and whose N_Ready has been read, and no other request is left over from an
\* earlier point (PacketBroker.cpp:301-310, 416, 432).
CountIsExact ==
    /\ step[Server] < Len(Script) =>
           LET count == wait_requests[Server][NextId(Server)]
           IN  /\ count = NoRequest => Counted = {} /\ pc[Server] # "wait"
               /\ count # NoRequest => count = Cardinality(Counted)
    /\ \A id \in MessageID :
           wait_requests[Server][id] # NoRequest =>
               step[Server] < Len(Script) /\ id = NextId(Server)

\* "All players ready. Resuming game." (PacketBroker.cpp:431): when the server goes
\* past a point, every client it is connected to is blocked at that point.
AllReady ==
    [][step'[Server] # step[Server] =>
           \A c \in connections : WaitsAt(c, step[Server])]_vars

\* Making the server wait for the clients ensures the data arrives at the right time
\* (OnStageChange.cpp:93-96): a client's game never gets a point's data while it is
\* anywhere but blocked at that point.
DataArrivesAtWaiter ==
    [][\A c \in Client : \A id \in Payload :
           (value'[c][id] # value[c][id] /\ value'[c][id].by = Server) =>
               /\ pc[c] = "wait" /\ NextId(c) = id
               /\ value'[c][id].round = step[c] + 1]_vars

\* A client that has gone past a point plays on with the data the server chose at
\* that very point: stage, characters and seed are the same for everybody.
Agreement ==
    \A c \in Client :
        (pc[c] = "game" /\ step[c] > 0 /\ Script[step[c]] \in Payload) =>
            value[c][Script[step[c]]] = [by |-> Server, round |-> step[c]]

\* Whoever times out: a connected client is never past a point the server has not
\* gone past, and the data it goes on with is the server's, of that point or a later
\* one of the same id, never an older one or its own.
NeverAhead ==
    \A c \in Client :
        /\ step[c] <= step[Server]
        /\ (pc[c] = "game" /\ step[c] > 0 /\ Script[step[c]] \in Payload) =>
               LET v == value[c][Script[step[c]]]
               IN  v.by = Server /\ v.round >= step[c]

\* While no connection times out, no wait lasts forever: every player gets through
\* the whole script, whatever the order the ready packets come in.
EverybodyFinishes == <>(\A n \in Node : pc[n] = "game" /\ step[n] = Len(Script))

\* The barrier does what SyncPoint promises.
Sync == INSTANCE SyncPoint WITH
    Rounds <- Len(Script),
    entered <- [n \in Node |-> IF pc[n] = "wait" THEN step[n] + 1 ELSE step[n]],
    left <- step

\* Nobody goes past a synchronization point before everybody has reached it: the
\* barrier is an implementation of SyncPoint.
Implements == Sync!Spec

=============================================================================
