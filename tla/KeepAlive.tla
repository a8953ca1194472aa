------------------------------- MODULE KeepAlive -------------------------------
(***************************************************************************)
(* The ready barrier in time: the keep-alives of send_system, the silence  *)
(* that receive_loop measures on each connection, and processes that stop. *)
(* A tick is KEEPALIVE_INTERVAL.  A game that runs sends a keep-alive in   *)
(* every tick, by UDP: it may be lost.  A game that is blocked in          *)
(* wait_for_players sends none, as nobody calls send_system and finalize.  *)
(* The timeouts of ReadyBarrier, which come at any time there, come here   *)
(* when a connection has been silent for connection_timeout.               *)
(***************************************************************************)
EXTENDS ReadyBarrier

CONSTANT
    Timeout     \* connection_timeout, in ticks

ASSUME TimeoutAssumption == Timeout \in Nat \ {0}

VARIABLES
    alive,          \* the processes that have not crashed or been closed
    quietClient,    \* keep_alive at the server: how long each client has been silent
    quietServer     \* keep_alive at each client: how long the server has been silent

timed == <<alive, quietClient, quietServer>>
timedVars == <<vars, timed>>

Silent == 0..Timeout

TimedInit ==
    /\ Init
    /\ alive = Node
    /\ quietClient = [c \in Client |-> 0]
    /\ quietServer = [c \in Client |-> 0]

\* The game calls send_system in every frame.
Sends(n) == n \in alive /\ pc[n] = "game"

\* Only OnFrame would look at the clocks.
ListensInFrame(n) == n \in alive /\ pc[n] = "game"

\* The process calls receive_loop, in OnFrame or in the loop of wait_for_players.
Listens(n) == n \in alive /\ pc[n] # "offline"

\* The server's own keep-alives reach a client, and those it relays, which count as its
\* own (keep_alive[node], not real_node).
ServerHeard(c) == Sends(Server) \/ (Listens(Server) /\ \E d \in connections \ {c} : Sends(d))

\* The connections a process takes for dead.
SilentClients == {c \in connections : quietClient[c] = Timeout}
Expired(n) ==
    /\ Listens(n)
    /\ IF n = Server THEN SilentClients # {} ELSE quietServer[n] = Timeout

Longer(quiet) == IF quiet = Timeout THEN quiet ELSE quiet + 1

\* Time goes by and some of the keep-alives arrive.  A process whose receive_loop runs
\* looks at its clocks more often than that.
Tick ==
    /\ \A n \in Node : ~Expired(n)
    /\ \E heard \in SUBSET {c \in connections : Sends(c)} :
           quietClient' = [c \in Client |->
                              IF ~Listens(Server) \/ c \notin connections \/ c \in heard THEN 0
                              ELSE Longer(quietClient[c])]
    /\ \E reached \in SUBSET {c \in connections : ServerHeard(c)} :
           quietServer' = [c \in Client |-> IF ~Listens(c) \/ c \in reached THEN 0
                                            ELSE Longer(quietServer[c])]
    /\ UNCHANGED <<vars, alive>>

\* A player closes the game, or it crashes: nobody is told.
Crash(n) ==
    /\ n \in Mortal \cup {Server}
    /\ alive = Node
    /\ alive' = alive \ {n}
    /\ UNCHANGED <<vars, quietClient, quietServer>>

Runs(n, step_of_n) == n \in alive /\ step_of_n /\ UNCHANGED timed

TimedNext ==
    \/ Runs(Server, ServerEnter) \/ Runs(Server, ServerPass)
    \/ \E c \in Client :
        \/ Runs(c, ClientEnter(c)) \/ Runs(c, ClientPass(c)) \/ Runs(c, ClientReceive(c))
        \/ Runs(Server, ServerReceive(c))
        \/ Runs(c, Expired(c) /\ ClientTimeout(c))
    \/ Runs(Server, Expired(Server) /\ ServerTimeout(SilentClients))
    \/ Tick
    \/ \E n \in Node : Crash(n)

\* The processes that live keep running, and time goes by.
TimedFairness ==
    /\ WF_timedVars(Runs(Server, ServerEnter) \/ Runs(Server, ServerPass))
    /\ WF_timedVars(Runs(Server, Expired(Server) /\ ServerTimeout(SilentClients)))
    /\ \A c \in Client :
        /\ WF_timedVars(Runs(c, ClientEnter(c)) \/ Runs(c, ClientPass(c)))
        /\ WF_timedVars(Runs(c, ClientReceive(c)))
        /\ WF_timedVars(Runs(Server, ServerReceive(c)))
        /\ WF_timedVars(Runs(c, Expired(c) /\ ClientTimeout(c)))
    /\ WF_timedVars(Tick)

TimedSpec == TimedInit /\ [][TimedNext]_timedVars /\ TimedFairness

-----------------------------------------------------------------------------
(* Properties *)

\* Whoever crashes, whatever is lost: nobody waits forever.  A player either gets
\* through the script or is told by silence that the session is over
\* (PacketBroker.cpp:186-203, 416-427).
NobodyWaitsForever == <>[](\A n \in alive : Finished(n))

=============================================================================
