----------------------------- MODULE Replication -----------------------------
(***************************************************************************)
(* The replication of the game's variables by PacketBroker: send_system    *)
(* and send_menu compare them with a shadow, local, and queue what differs *)
(* in the TCP packet of the frame, OnInput sends the packet, read writes   *)
(* what arrives to the variable and to the shadow, if the game is in a     *)
(* state in which it is wanted, and the host relays it.                    *)
(*                                                                         *)
(* The variables stand for their kinds: TimeStopped, PauseSelection and    *)
(* GameState are changed by both players, SpecialAttacks is one variable   *)
(* for each player, BattleOptions and StageSelection2P are sent by the     *)
(* host only, the latter only in its sub menu.  The barrier is reduced to  *)
(* what ReadyBarrier proves of it.                                         *)
(***************************************************************************)
EXTENDS Integers, SequencesExt

CONSTANTS
    Players,        \* how many play, the host and those who only watch included
    Message,        \* the messages that are used
    Value,          \* the values of the variables other than GameState
    MaxWrites,      \* bound: changes of variables by the players' own games, in total
    MaxMoves,       \* bound: changes of GameState within the rounds, in total
    MaxRounds       \* bound: rounds

ASSUME PlayersAssumption == Players \in Nat /\ Players >= 2
ASSUME MessageAssumption ==
    Message \subseteq {"GameState", "PauseSelection", "TimeStopped", "SpecialAttacks",
                       "BattleOptions", "StageSelection2P"}
ASSUME ValueAssumption == 0 \in Value /\ Value \subseteq Nat
ASSUME BoundsAssumption == MaxWrites \in Nat /\ MaxMoves \in Nat /\ MaxRounds \in Nat

Player == 0..(Players - 1)      \* the player numbers: what pnum is for everyone
Host == 0
Client == Player \ {Host}

\* Those who play, not watch: pnum 0 and 1.
Sender == {0, 1}

SystemMessage == {"GameState", "PauseSelection", "TimeStopped", "SpecialAttacks"}
MenuMessage == {"BattleOptions", "StageSelection2P"}
SubMenus == {"s_battlemode", "s_stagesel"}

\* GameState, as the enumeration of the game numbers it.
Inactive == 0
Loading == 1
LoadFinished == 7
Exit_1 == 8
NormalRestart == 13
NormalExit == 14
Ingame == 16
Pause == 17

GameState == {Inactive, Loading, Exit_1, NormalExit, Ingame, Pause}

VARIABLES
    value,          \* the variables in the memory of each player's game
    local,          \* PacketBroker::local of each player: what was last sent or received
    subMenu,        \* CurrentSubMenu of the host
    localSubMenu,   \* local.menu.SubMenu of the host
    tcp_packet,     \* the changes each player has queued
    toHost,         \* the TCP stream from each client to the host
    toClient,       \* the TCP stream from the host to each client
    waiting,        \* who is blocked in wait_for_players
    ready,          \* how many N_Ready each player has counted
    rounds,         \* how often each player has left the menu
    ghost,          \* what the properties have to remember of each player
    used            \* how many writes and moves the games have made

streams == <<toHost, toClient>>
vars == <<value, local, subMenu, localSubMenu, tcp_packet, streams, waiting, ready,
          rounds, ghost, used>>

-----------------------------------------------------------------------------
(* What is sent and what is taken *)

\* The variable that message m of player pnum is about.
Target(m, pnum) ==
    IF m # "SpecialAttacks" THEN m
    ELSE IF pnum = 0 THEN "P1SpecialAttacks" ELSE "P2SpecialAttacks"

Memory == {Target(m, p) : m \in Message \cup {"GameState"}, p \in Sender}

\* round_started; the pose at the start of a round counts as loading.
RoundStarted(memory) == memory["GameState"] > LoadFinished

InMenu(memory) == memory["GameState"] = Inactive

Differs(p, m) == local[p][Target(m, p)] # value[p][Target(m, p)]

\* send_menu would send the selection only when it has changed.
NeverFirstEntry == FALSE

\* send_menu: the host has entered another sub menu since it looked last.
FirstMenuEntry == localSubMenu # subMenu

\* send_system: what player p finds changed.
WantedInRound(p, m) ==
    /\ RoundStarted(value[p])
    /\ Differs(p, m)
    /\ m = "PauseSelection" => value[p]["GameState"] = Pause

\* send_menu would let every player send.
WantedFromAnyMenu(p, m) ==
    /\ InMenu(value[p])
    /\ Differs(p, m)

\* send_menu: only the host sends; a selection only in its sub menu, and always when the
\* sub menu has just been entered.
WantedInMenu(p, m) ==
    /\ p = Host
    /\ InMenu(value[p])
    /\ IF m = "StageSelection2P"
       THEN subMenu = "s_stagesel" /\ (FirstMenuEntry \/ Differs(p, m))
       ELSE Differs(p, m)

Wanted(p) ==
    {m \in Message : IF m \in SystemMessage THEN WantedInRound(p, m) ELSE WantedInMenu(p, m)}

\* request would add a message twice.
NothingQueued(p) == {}

\* PacketEx::contains: the messages the packet has already.
Queued(p) == {tcp_packet[p][i].type : i \in DOMAIN tcp_packet[p]}

\* receive_system, receive_menu: whether a change is taken in this state of the game.
Takes(memory, change) ==
    IF change.type \in MenuMessage THEN InMenu(memory)
    ELSE /\ RoundStarted(memory)
         /\ change.type = "GameState" =>
                memory["GameState"] >= NormalRestart /\ change.data > LoadFinished

\* receive_system would set the variable and leave the shadow alone.
StoreValueOnly(state, k, data) == [state EXCEPT !.value[k] = data]

\* A change that is taken is written to the game and to the shadow.
Store(state, k, data) == [state EXCEPT !.value[k] = data, !.local[k] = data]

\* read of player p: it takes or skips a change of player pnum.
AfterChange(p, pnum, state, change) ==
    LET k == Target(change.type, pnum)
    IN  IF Takes(state.value, change)
        THEN [Store(state, k, change.data) EXCEPT
                 !.skipped = @ \ {k},
                 !.touched = @ \ {k},
                 !.stale = @ \/ change.round # rounds[p]]
        ELSE [state EXCEPT !.skipped = @ \cup {k}]

\* read: the changes of a packet, one after the other.
AfterReading(p, packet) ==
    FoldLeft(LAMBDA state, change : AfterChange(p, packet.pnum, state, change),
             [value |-> value[p], local |-> local[p], skipped |-> ghost[p].skipped,
              touched |-> ghost[p].touched, stale |-> ghost[p].stale],
             packet.changes)

-----------------------------------------------------------------------------
NReady(p) == [pnum |-> p, ready |-> TRUE, changes |-> <<>>]
Changes(p) == [pnum |-> p, ready |-> FALSE, changes |-> tcp_packet[p]]

\* The menus of the players may differ when they connect; PacketBroker::initialize has
\* cleared the shadows, whatever the games hold.
Init ==
    /\ value \in [Player -> {f \in [Memory -> Value] :
                                \A k \in Memory \ MenuMessage : f[k] = 0}]
    /\ local = [p \in Player |-> [k \in Memory |-> 0]]
    /\ subMenu = "s_battlemode"
    /\ localSubMenu = "s_battlemode"
    /\ tcp_packet = [p \in Player |-> <<>>]
    /\ toHost = [c \in Client |-> <<>>]
    /\ toClient = [c \in Client |-> <<>>]
    /\ waiting = [p \in Player |-> FALSE]
    /\ ready = [p \in Player |-> 0]
    /\ rounds = [p \in Player |-> 0]
    /\ ghost = [p \in Player |-> [sent |-> [k \in Memory |-> 0], skipped |-> {},
                                  touched |-> {}, stale |-> FALSE]]
    /\ used = [writes |-> 0, moves |-> 0]

\* When the game of a player changes a variable by itself.
MayWrite(p, k) ==
    CASE k \in MenuMessage -> InMenu(value[p])
      [] k = "PauseSelection" -> value[p]["GameState"] = Pause
      [] k = "TimeStopped" -> RoundStarted(value[p])
      [] k = Target("SpecialAttacks", p) -> RoundStarted(value[p])
      [] OTHER -> FALSE

\* The game changes a variable.
Write(p, k, v) ==
    /\ p \in Sender /\ ~waiting[p] /\ used.writes < MaxWrites
    /\ MayWrite(p, k) /\ v # value[p][k]
    /\ value' = [value EXCEPT ![p][k] = v]
    /\ ghost' = [ghost EXCEPT ![p].touched = @ \cup {k}]
    /\ used' = [used EXCEPT !.writes = @ + 1]
    /\ UNCHANGED <<local, subMenu, localSubMenu, tcp_packet, streams, waiting, ready, rounds>>

\* The host goes to another sub menu.
EnterSubMenu(s) ==
    /\ InMenu(value[Host]) /\ ~waiting[Host] /\ used.writes < MaxWrites
    /\ s # subMenu
    /\ subMenu' = s
    /\ used' = [used EXCEPT !.writes = @ + 1]
    /\ UNCHANGED <<value, local, localSubMenu, tcp_packet, streams, waiting, ready, rounds, ghost>>

\* The game pauses, goes on, ends the round.
GameMoves ==
    {<<Ingame, Pause>>, <<Pause, Ingame>>, <<Ingame, NormalExit>>, <<Pause, Exit_1>>,
     <<NormalExit, Inactive>>, <<Exit_1, Inactive>>}

Move(p, s) ==
    /\ p \in Sender \/ s = Inactive
    /\ ~waiting[p]
    /\ s # Inactive => used.moves < MaxMoves
    /\ <<value[p]["GameState"], s>> \in GameMoves
    /\ value' = [value EXCEPT ![p]["GameState"] = s]
    /\ used' = [used EXCEPT !.moves = IF s = Inactive THEN @ ELSE @ + 1]
    /\ UNCHANGED <<local, subMenu, localSubMenu, tcp_packet, streams, waiting, ready, rounds, ghost>>

\* send_ready_and_wait, before leaving the menu and before a round begins.  OnInput has
\* sent what the last frame had queued before the game runs.
Arrive(p) ==
    /\ ~waiting[p] /\ tcp_packet[p] = <<>>
    /\ \/ value[p]["GameState"] = Inactive /\ rounds[p] < MaxRounds
       \/ value[p]["GameState"] = Loading
    /\ waiting' = [waiting EXCEPT ![p] = TRUE]
    /\ toHost' = IF p = Host THEN toHost ELSE [toHost EXCEPT ![p] = Append(@, NReady(p))]
    /\ UNCHANGED <<value, local, subMenu, localSubMenu, tcp_packet, toClient, ready, rounds, ghost, used>>

\* wait_for_players would not make the host wait.
HostGoesOn(p) == IF p = Host THEN 0 ELSE 1

\* wait_for_players: the host waits for every client, a client for the host.
Awaited(p) == IF p = Host THEN Cardinality(Client) ELSE 1

\* The wait is over: the host tells the clients, and the game goes on.
Pass(p) ==
    /\ waiting[p] /\ ready[p] >= Awaited(p)
    /\ waiting' = [waiting EXCEPT ![p] = FALSE]
    /\ ready' = [ready EXCEPT ![p] = 0]
    /\ toClient' = IF p = Host THEN [c \in Client |-> Append(toClient[c], NReady(p))] ELSE toClient
    /\ IF InMenu(value[p])
       THEN /\ value' = [value EXCEPT ![p]["GameState"] = Loading]
            /\ rounds' = [rounds EXCEPT ![p] = @ + 1]
       ELSE /\ value' = [value EXCEPT ![p]["GameState"] = Ingame]
            /\ UNCHANGED rounds
    /\ UNCHANGED <<local, subMenu, localSubMenu, tcp_packet, toHost, ghost, used>>

\* request would note the value as sent although the packet has the message already.
NotedRegardless(p) == Wanted(p)

\* request: a message that the packet has already is left for the next frame, and only
\* what is added to the packet is noted in the shadow.
Noted(p) == Wanted(p) \ Queued(p)

\* add_packet of message m, when it is requested.
Request(p, m) ==
    IF m \in Wanted(p) \ Queued(p)
    THEN <<[type |-> m, data |-> value[p][Target(m, p)], round |-> rounds[p]]>> ELSE <<>>

\* OnFrame: send_system and send_menu of a frame, in which there may be nothing to send.
Send(p) ==
    LET noted == {Target(m, p) : m \in Noted(p)}
    IN  /\ p \in Sender /\ ~waiting[p]
        /\ tcp_packet' = [tcp_packet EXCEPT ![p] =
               @ \o Request(p, "GameState") \o Request(p, "PauseSelection")
                 \o Request(p, "TimeStopped") \o Request(p, "SpecialAttacks")
                 \o Request(p, "BattleOptions") \o Request(p, "StageSelection2P")]
        /\ local' = [local EXCEPT ![p] = [k \in Memory |-> IF k \in noted THEN value[p][k] ELSE @[k]]]
        /\ localSubMenu' = IF p = Host /\ InMenu(value[p]) THEN subMenu ELSE localSubMenu
        /\ ghost' = [ghost EXCEPT
               ![p].sent = [k \in Memory |-> IF k \in noted THEN value[p][k] ELSE @[k]],
               ![p].skipped = @ \ noted]
        /\ UNCHANGED <<value, subMenu, streams, waiting, ready, rounds, used>>

\* OnInput: finalize sends the packet, the host's to everyone.
Finalize(p) ==
    /\ ~waiting[p] /\ tcp_packet[p] # <<>>
    /\ tcp_packet' = [tcp_packet EXCEPT ![p] = <<>>]
    /\ IF p = Host
       THEN /\ toClient' = [c \in Client |-> Append(toClient[c], Changes(p))]
            /\ UNCHANGED toHost
       ELSE /\ toHost' = [toHost EXCEPT ![p] = Append(@, Changes(p))]
            /\ UNCHANGED toClient
    /\ UNCHANGED <<value, local, subMenu, localSubMenu, waiting, ready, rounds, ghost, used>>

\* read of player p.
Read(p, packet) ==
    LET after == AfterReading(p, packet)
    IN  /\ value' = [value EXCEPT ![p] = after.value]
        /\ local' = [local EXCEPT ![p] = after.local]
        /\ ghost' = [ghost EXCEPT ![p].skipped = after.skipped, ![p].touched = after.touched,
                                  ![p].stale = after.stale]
        /\ ready' = [ready EXCEPT ![p] = IF packet.ready THEN @ + 1 ELSE @]

\* receive_loop would relay nothing.
NoRelay(c) == {}

\* receive_loop would send a packet back to where it came from as well.
RelayToAll(c) == Client

\* receive_loop: whom the host relays a packet of client c to.
RelayTo(c) == Client \ {c}

\* receive_loop of the host.  A relayed N_Ready means nothing to a client.
ReceiveFromClient(c) ==
    /\ toHost[c] # <<>>
    /\ Read(Host, Head(toHost[c]))
    /\ toHost' = [toHost EXCEPT ![c] = Tail(@)]
    /\ toClient' = [d \in Client |->
           IF d \in RelayTo(c) /\ ~Head(toHost[c]).ready
           THEN Append(toClient[d], Head(toHost[c])) ELSE toClient[d]]
    /\ UNCHANGED <<subMenu, localSubMenu, tcp_packet, waiting, rounds, used>>

\* receive_loop of a client.
ReceiveFromHost(c) ==
    /\ toClient[c] # <<>>
    /\ Read(c, Head(toClient[c]))
    /\ toClient' = [toClient EXCEPT ![c] = Tail(@)]
    /\ UNCHANGED <<subMenu, localSubMenu, tcp_packet, toHost, waiting, rounds, used>>

Next ==
    \/ \E p \in Player, k \in Memory, v \in Value : Write(p, k, v)
    \/ \E s \in SubMenus : EnterSubMenu(s)
    \/ \E p \in Player, s \in GameState : Move(p, s)
    \/ \E p \in Player : Arrive(p) \/ Pass(p) \/ Send(p) \/ Finalize(p)
    \/ \E c \in Client : ReceiveFromClient(c) \/ ReceiveFromHost(c)

\* Frames go on, also while a game is blocked in the wait; what the players do is up to them.
Fairness ==
    /\ \A p \in Player : WF_vars(Pass(p)) /\ WF_vars(Send(p)) /\ WF_vars(Finalize(p))
    /\ \A c \in Client : WF_vars(ReceiveFromClient(c)) /\ WF_vars(ReceiveFromHost(c))

Spec == Init /\ [][Next]_vars /\ Fairness

-----------------------------------------------------------------------------
(* Properties *)

Change == [type : Message, data : Value \cup GameState, round : 0..MaxRounds]
Packet == [pnum : Player, ready : BOOLEAN, changes : Seq(Change)]

\* The type invariant.  A packet has no message twice.
TypeOK ==
    /\ value \in [Player -> [Memory -> Value \cup GameState]]
    /\ local \in [Player -> [Memory -> Value \cup GameState]]
    /\ subMenu \in SubMenus /\ localSubMenu \in SubMenus
    /\ \A p \in Player : /\ tcp_packet[p] \in Seq(Change)
                         /\ \A i, j \in DOMAIN tcp_packet[p] :
                                tcp_packet[p][i].type = tcp_packet[p][j].type => i = j
    /\ toHost \in [Client -> Seq(Packet)] /\ toClient \in [Client -> Seq(Packet)]
    /\ waiting \in [Player -> BOOLEAN]
    /\ \A p \in Player : ready[p] \in 0..Awaited(p)
    /\ rounds \in [Player -> 0..MaxRounds]

\* Nothing is on its way, and nobody who is not blocked has anything to send.
Settled ==
    /\ \A c \in Client : toHost[c] = <<>> /\ toClient[c] = <<>>
    /\ \A p \in Player : tcp_packet[p] = <<>>
    /\ \A p \in Sender : Wanted(p) # {} => waiting[p]

\* Player p holds of k what it last sent or received.
UpToDate(p, k) == value[p][k] = local[p][k] /\ k \notin ghost[p].skipped

Shared == Message \cap {"GameState", "PauseSelection", "TimeStopped"}

\* When nothing is under way any more, the two players agree on what both of them may
\* change, or their changes have crossed and each holds the other's last one.
AgreeOrSwapped ==
    Settled => \A k \in Shared :
        (\A p \in Sender : UpToDate(p, k)) =>
            \/ value[0][k] = value[1][k]
            \/ value[0][k] = ghost[1].sent[k] /\ value[1][k] = ghost[0].sent[k]

\* When nothing is under way and the two players agree, those who watch agree with them,
\* however the host's own changes and those it relayed were interleaved.
WatchersFollow ==
    Settled => \A k \in Shared \ {"GameState"} :
        ((\A p \in Sender : UpToDate(p, k)) /\ value[0][k] = value[1][k]) =>
            \A p \in Player : k \notin ghost[p].skipped => value[p][k] = value[0][k]

\* What only player p decides: its own special attacks, and the host's menu.
Owned(p) ==
    {k \in Memory : \/ p \in Sender /\ k = Target("SpecialAttacks", p)
                    \/ p = Host /\ k \in MenuMessage}

\* Whatever is relayed, late or repeated in another player's packet: a step that is not
\* one of the games' own never changes a variable at the player who decides about it.
OwnersDecide ==
    [][used' = used =>
           \A p \in Player : \A k \in Owned(p) : value'[p][k] = value[p][k]]_vars

\* "Always send information about the menu you enter, regardless of detected change."
\* (PacketBroker.cpp:817): when nothing is under way and the host is in the sub menu, its
\* selection is everybody's, whatever they had before, unless their game was elsewhere
\* when it came or changed it since.
SelectionIsShown ==
    (Settled /\ InMenu(value[Host]) /\ ~waiting[Host] /\ subMenu = "s_stagesel"
             /\ "StageSelection2P" \in Message) =>
        \A c \in Client :
            \/ "StageSelection2P" \in ghost[c].skipped \cup ghost[c].touched
            \/ value[c]["StageSelection2P"] = value[Host]["StageSelection2P"]

\* Nobody takes a change that was made in an earlier round or an earlier visit of the menu.
NothingStale == \A p \in Player : ~ghost[p].stale

\* The players stop telling each other what they have been told: when the games stop
\* changing, the messages end.
Settles == <>[]Settled

\* "implement hooks to track changes to critical gameplay data and synchronize that data
\* over the internet" (README.md:6): when nothing is under way, the two players agree.
PlayersAgree ==
    Settled => \A k \in Shared :
        (\A p \in Sender : UpToDate(p, k)) => value[0][k] = value[1][k]

=============================================================================
