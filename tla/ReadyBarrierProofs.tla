-------------------------- MODULE ReadyBarrierProofs --------------------------
(***************************************************************************)
(* What holds of the ready barrier for every set of clients and every      *)
(* script: first as long as no connection times out (Mortal = {}), then    *)
(* whoever times out, and last in time (KeepAlive).                        *)
(***************************************************************************)
EXTENDS KeepAlive, FiniteSetTheorems, TLAPS

\* The server's own packets among those on the way to c.
FromServer(c) == {i \in DOMAIN toClient[c] : toClient[c][i].node = Server}

\* The session is whole.
AllConnected ==
    /\ connections = Client
    /\ \A n \in Node : pc[n] # "offline"

\* c has gone past as many points as the server, or it is blocked at the one the
\* server has just left.
InStep(c) ==
    \/ step[c] = step[Server]
    \/ step[c] + 1 = step[Server] /\ pc[c] = "wait" /\ toServer[c] = <<>>

\* A packet on the way to the server is the N_Ready of the wait c is in.
ReadyOnTheWay(c) ==
    toServer[c] # <<>> =>
        WaitsAt(c, step[Server]) /\ toServer[c] = <<ReadyPacket(c)>>

\* At most one packet of the server's is on the way to c, and it is the one that ends
\* the wait c is in.
ReleaseOnTheWay(c) ==
    \A i \in FromServer(c) :
        /\ step[c] + 1 = step[Server]
        /\ pc[c] = "wait"
        /\ wait_requests[c][NextId(c)] = 0
        /\ toClient[c][i] = [node |-> Server, id |-> NextId(c), round |-> step[Server]]
        /\ \A j \in FromServer(c) : i = j

\* A client has the one request of the wait it is in; when it is satisfied the server
\* has left that point and its data has arrived.
ClientRequest(c) ==
    /\ \A id \in MessageID :
           wait_requests[c][id] # NoRequest => pc[c] = "wait" /\ id = NextId(c)
    /\ pc[c] = "wait" =>
           /\ wait_requests[c][NextId(c)] # NoRequest
           /\ wait_requests[c][NextId(c)] # 0 =>
                  /\ step[c] + 1 = step[Server]
                  /\ NextId(c) \in Payload =>
                         value[c][NextId(c)] = [by |-> Server, round |-> step[c] + 1]

AgreementFor(c) ==
    (pc[c] = "game" /\ step[c] > 0 /\ Script[step[c]] \in Payload) =>
        value[c][Script[step[c]]] = [by |-> Server, round |-> step[c]]

\* The inductive invariant.
IInv ==
    /\ TypeOK
    /\ AllConnected
    /\ CountIsExact
    /\ \A c \in Client : /\ InStep(c)
                         /\ ReadyOnTheWay(c)
                         /\ ReleaseOnTheWay(c)
                         /\ ClientRequest(c)
                         /\ AgreementFor(c)

-----------------------------------------------------------------------------
(* Type correctness: with or without timeouts *)

LEMMA ScriptFacts ==
    /\ Len(Script) \in Nat
    /\ \A k \in 0..(Len(Script) - 1) : Script[k + 1] \in MessageID
BY ScriptAssumption

LEMMA NextFacts ==
    ASSUME TypeOK, NEW n \in Node, step[n] < Len(Script)
    PROVE  /\ NextId(n) \in MessageID
           /\ step[n] \in Nat /\ step[n] + 1 \in Round
           /\ ReadyPacket(n) \in Packet
           /\ Own(n) \in Value
<1>1. step[n] \in Round
  BY DEF TypeOK
<1>2. step[n] + 1 \in Round /\ step[n] \in Nat /\ step[n] \in 0..(Len(Script) - 1)
  BY <1>1, ScriptFacts DEF Round
<1>3. NextId(n) \in MessageID
  BY <1>2, ScriptFacts DEF NextId
<1> QED
  BY <1>2, <1>3 DEF ReadyPacket, Own, Packet, Value

\* The initial state has the right types.
LEMMA TypeInit == Init => TypeOK
<1> SUFFICES ASSUME Init PROVE TypeOK
  OBVIOUS
<1>1. 0 \in Round
  BY ScriptFacts DEF Round
<1>2. wait_requests \in [Node -> [MessageID -> Nat \cup {NoRequest}]]
  BY DEF Init, NoRequests
<1>3. value \in [Node -> [Payload -> Value]]
  BY <1>1 DEF Init, Value
<1> QED
  BY <1>1, <1>2, <1>3 DEF Init, TypeOK

\* Every step preserves the types.
LEMMA TypeStep == TypeOK /\ [Next]_vars => TypeOK'
<1> SUFFICES ASSUME TypeOK, [Next]_vars PROVE TypeOK'
  OBVIOUS
<1> USE DEF TypeOK
<1>0. Server \in Node /\ Client \subseteq Node
  BY DEF Node
<1>1. CASE ServerEnter
  <2>1. NextId(Server) \in MessageID /\ Own(Server) \in Value
    BY <1>0, <1>1, NextFacts DEF ServerEnter
  <2>2. wait_requests' \in [Node -> [MessageID -> Nat \cup {NoRequest}]]
    BY <1>0, <1>1, <2>1 DEF ServerEnter, Opened
  <2>3. value' \in [Node -> [Payload -> Value]]
    BY <1>0, <1>1, <2>1 DEF ServerEnter
  <2> QED
    BY <1>0, <1>1, <2>2, <2>3 DEF ServerEnter
<1>2. CASE ServerPass
  <2>1. step[Server] < Len(Script)
    BY <1>0, <1>2 DEF ServerPass
  <2>2. /\ NextId(Server) \in MessageID /\ ReadyPacket(Server) \in Packet
        /\ step[Server] + 1 \in Round
    BY <1>0, <2>1, NextFacts
  <2>3. wait_requests' \in [Node -> [MessageID -> Nat \cup {NoRequest}]]
    BY <1>0, <1>2, <2>2 DEF ServerPass, Erased
  <2>4. toClient' \in [Client -> Seq(Packet)]
    BY <1>2, <2>2 DEF ServerPass
  <2>5. pc' \in [Node -> {"game", "wait", "offline"}] /\ step' \in [Node -> Round]
    BY <1>2, <2>2 DEF ServerPass
  <2>6. \A n \in Node : pc'[n] = "wait" => step'[n] < Len(Script)
    BY <1>2 DEF ServerPass
  <2> QED
    BY <1>2, <2>3, <2>4, <2>5, <2>6 DEF ServerPass
<1>3. ASSUME NEW c \in Client, ClientEnter(c) PROVE TypeOK'
  <2>1. NextId(c) \in MessageID /\ Own(c) \in Value /\ ReadyPacket(c) \in Packet
    BY <1>0, <1>3, NextFacts DEF ClientEnter
  <2>2. wait_requests' \in [Node -> [MessageID -> Nat \cup {NoRequest}]]
    BY <1>0, <1>3, <2>1 DEF ClientEnter, Opened
  <2>3. value' \in [Node -> [Payload -> Value]]
    BY <1>0, <1>3, <2>1 DEF ClientEnter, Payload
  <2>4. toServer' \in [Client -> Seq(Packet)]
    BY <1>3, <2>1 DEF ClientEnter
  <2> QED
    BY <1>0, <1>3, <2>2, <2>3, <2>4 DEF ClientEnter
<1>4. ASSUME NEW c \in Client, ClientPass(c) PROVE TypeOK'
  <2>1. step[c] < Len(Script)
    BY <1>0, <1>4 DEF ClientPass
  <2>2. NextId(c) \in MessageID /\ step[c] + 1 \in Round
    BY <1>0, <2>1, NextFacts
  <2>3. wait_requests' \in [Node -> [MessageID -> Nat \cup {NoRequest}]]
    BY <1>0, <1>4, <2>2 DEF ClientPass, Erased
  <2>4. pc' \in [Node -> {"game", "wait", "offline"}] /\ step' \in [Node -> Round]
    BY <1>4, <2>2 DEF ClientPass
  <2>5. \A n \in Node : pc'[n] = "wait" => step'[n] < Len(Script)
    BY <1>4 DEF ClientPass
  <2> QED
    BY <1>4, <2>3, <2>4, <2>5 DEF ClientPass
<1>5. ASSUME NEW c \in Client, ServerReceive(c) PROVE TypeOK'
  <2>1. Head(toServer[c]) \in Packet /\ Tail(toServer[c]) \in Seq(Packet)
    BY <1>5 DEF ServerReceive
  <2>2. Head(toServer[c]).id \in MessageID
    BY <2>1 DEF Packet
  <2>3. wait_requests' \in [Node -> [MessageID -> Nat \cup {NoRequest}]]
    BY <1>0, <1>5, <2>2 DEF ServerReceive, ServerCounted
  <2>4. toClient' \in [Client -> Seq(Packet)]
    BY <1>5, <2>1 DEF ServerReceive
  <2>5. toServer' \in [Client -> Seq(Packet)]
    BY <1>5, <2>1 DEF ServerReceive
  <2> QED
    BY <1>5, <2>3, <2>4, <2>5 DEF ServerReceive
<1>6. ASSUME NEW c \in Client, ClientReceive(c) PROVE TypeOK'
  <2>1. Head(toClient[c]) \in Packet /\ Tail(toClient[c]) \in Seq(Packet)
    BY <1>6 DEF ClientReceive
  <2>2. Head(toClient[c]).id \in MessageID /\ Head(toClient[c]).round \in Round
    BY <2>1 DEF Packet
  <2>3. wait_requests' \in [Node -> [MessageID -> Nat \cup {NoRequest}]]
    BY <1>0, <1>6, <2>2 DEF ClientReceive, ClientCounted
  <2>4. value' \in [Node -> [Payload -> Value]]
    BY <1>0, <1>6, <2>2 DEF ClientReceive, Value
  <2>5. toClient' \in [Client -> Seq(Packet)]
    BY <1>6, <2>1 DEF ClientReceive
  <2> QED
    BY <1>6, <2>3, <2>4, <2>5 DEF ClientReceive
<1>7. ASSUME NEW gone \in (SUBSET Mortal) \ {{}}, ServerTimeout(gone) PROVE TypeOK'
  <2>1. wait_requests' \in [Node -> [MessageID -> Nat \cup {NoRequest}]]
    <3>1. NoRequests \in [MessageID -> Nat \cup {NoRequest}]
      BY DEF NoRequests
    <3>2. wait_requests' \in {wait_requests, [wait_requests EXCEPT ![Server] = NoRequests]}
      BY <1>0, <1>7 DEF ServerTimeout, AfterDrop
    <3> QED
      BY <1>0, <3>1, <3>2
  <2>2. toServer' \in [Client -> Seq(Packet)]
    BY <1>7 DEF ServerTimeout
  <2>3. pc' \in [Node -> {"game", "wait", "offline"}]
    BY <1>7 DEF ServerTimeout
  <2>4. \A n \in Node : pc'[n] = "wait" => step'[n] < Len(Script)
    BY <1>7 DEF ServerTimeout
  <2> QED
    BY <1>7, <2>1, <2>2, <2>3, <2>4 DEF ServerTimeout
<1>8. ASSUME NEW c \in Mortal, ClientTimeout(c) PROVE TypeOK'
  <2>0. c \in Client /\ c \in Node
    BY <1>0, MortalAssumption
  <2>1. wait_requests' \in [Node -> [MessageID -> Nat \cup {NoRequest}]]
    BY <1>8 DEF ClientTimeout, NoRequests
  <2>2. value' \in [Node -> [Payload -> Value]]
    <3>1. CASE pc[c] = "wait"
      <4>1. NextId(c) \in MessageID /\ Own(c) \in Value
        BY <2>0, <3>1, NextFacts
      <4> QED
        BY <1>8, <2>0, <4>1 DEF ClientTimeout
    <3>2. CASE pc[c] # "wait"
      BY <1>8, <3>2 DEF ClientTimeout
    <3> QED
      BY <3>1, <3>2
  <2>3. toClient' \in [Client -> Seq(Packet)]
    BY <1>8, <2>0 DEF ClientTimeout
  <2>4. /\ pc' \in [Node -> {"game", "wait", "offline"}]
        /\ \A n \in Node : pc'[n] = "wait" => step'[n] < Len(Script)
    BY <1>8 DEF ClientTimeout
  <2> QED
    BY <1>8, <2>1, <2>2, <2>3, <2>4 DEF ClientTimeout
<1>9. CASE Done
  BY <1>9 DEF Done, vars
<1>10. CASE UNCHANGED vars
  BY <1>10 DEF vars
<1> QED
  BY <1>1, <1>2, <1>3, <1>4, <1>5, <1>6, <1>7, <1>8, <1>9, <1>10 DEF Next

\* The counts, the channels and the data have their types, whoever times out.
THEOREM TypeCorrect == Spec => []TypeOK
BY TypeInit, TypeStep, PTL DEF Spec

-----------------------------------------------------------------------------
(* The inductive invariant: nobody times out *)

LEMMA CountedFinite == IsFiniteSet(Counted) /\ Counted \subseteq Client
BY ClientAssumption, FS_Subset DEF Counted

LEMMA InvInit == Init => IInv
<1> SUFFICES ASSUME Init PROVE IInv
  OBVIOUS
<1>0. Server \in Node /\ Client \subseteq Node
  BY DEF Node
<1>1. TypeOK
  BY TypeInit
<1>2. AllConnected
  BY DEF Init, AllConnected
<1>3. CountIsExact
  <2>1. Counted = {}
    BY <1>0 DEF Init, Counted, WaitsAt
  <2>2. \A id \in MessageID : wait_requests[Server][id] = NoRequest
    BY <1>0 DEF Init, NoRequests
  <2>3. pc[Server] # "wait"
    BY <1>0 DEF Init
  <2>4. step[Server] < Len(Script) => NextId(Server) \in MessageID
    BY <1>0, <1>1, NextFacts
  <2> QED
    BY <2>1, <2>2, <2>3, <2>4 DEF CountIsExact, NoRequest
<1>4. ASSUME NEW c \in Client
      PROVE  InStep(c) /\ ReadyOnTheWay(c) /\ ReleaseOnTheWay(c) /\ ClientRequest(c)
             /\ AgreementFor(c)
  <2>1. step[c] = 0 /\ step[Server] = 0 /\ pc[c] = "game"
    BY <1>0 DEF Init
  <2>2. toServer[c] = <<>> /\ toClient[c] = <<>>
    BY DEF Init
  <2>3. \A id \in MessageID : wait_requests[c][id] = NoRequest
    BY <1>0 DEF Init, NoRequests
  <2> QED
    BY <2>1, <2>2, <2>3
    DEF InStep, ReadyOnTheWay, ReleaseOnTheWay, FromServer, ClientRequest, AgreementFor
<1> QED
  BY <1>1, <1>2, <1>3, <1>4 DEF IInv

LEMMA ClientParts ==
    ASSUME IInv, NEW c \in Client
    PROVE  InStep(c) /\ ReadyOnTheWay(c) /\ ReleaseOnTheWay(c) /\ ClientRequest(c)
           /\ AgreementFor(c)
BY DEF IInv

\* What the invariant says of one client, in the terms the steps need.
LEMMA ClientFacts ==
    ASSUME IInv, NEW c \in Client
    PROVE  /\ c \in Node /\ Server \in Node /\ c # Server
           /\ step[c] \in Nat /\ step[Server] \in Nat
           /\ pc[c] = "game" => /\ step[c] = step[Server]
                                /\ toServer[c] = <<>>
                                /\ FromServer(c) = {}
                                /\ \A id \in MessageID : wait_requests[c][id] = NoRequest
           /\ step[c] = step[Server] => FromServer(c) = {}
<1>1. c \in Node /\ Server \in Node /\ c # Server
  BY ClientAssumption DEF Node
<1>2. step[c] \in Nat /\ step[Server] \in Nat
  BY <1>1, ScriptFacts DEF IInv, TypeOK, Round
<1>3. step[c] = step[Server] => FromServer(c) = {}
  <2>1. ASSUME step[c] = step[Server], NEW i \in FromServer(c) PROVE FALSE
    <3>1. step[c] + 1 = step[Server]
      BY <2>1, ClientParts DEF ReleaseOnTheWay
    <3> QED
      BY <1>2, <2>1, <3>1
  <2> QED
    BY <2>1
<1>4. pc[c] = "game" => /\ step[c] = step[Server] /\ toServer[c] = <<>>
                        /\ \A id \in MessageID : wait_requests[c][id] = NoRequest
  BY DEF IInv, InStep, ReadyOnTheWay, WaitsAt, ClientRequest
<1> QED
  BY <1>1, <1>2, <1>3, <1>4

\* What the invariant says of a client holds after a step that leaves everything it
\* talks about alone.
LEMMA ClientFrame ==
    ASSUME IInv, NEW c \in Client,
           step'[c] = step[c], step'[Server] = step[Server], pc'[c] = pc[c],
           wait_requests'[c] = wait_requests[c], value'[c] = value[c],
           toServer'[c] = toServer[c], toClient'[c] = toClient[c]
    PROVE  (InStep(c) /\ ReadyOnTheWay(c) /\ ReleaseOnTheWay(c) /\ ClientRequest(c)
            /\ AgreementFor(c))'
<1>1. NextId(c)' = NextId(c) /\ ReadyPacket(c)' = ReadyPacket(c)
  BY DEF NextId, ReadyPacket
<1>2. FromServer(c)' = FromServer(c)
  BY DEF FromServer
<1>3. InStep(c)' /\ ReadyOnTheWay(c)' /\ AgreementFor(c)'
  BY <1>1 DEF IInv, InStep, ReadyOnTheWay, WaitsAt, AgreementFor
<1>4. ReleaseOnTheWay(c)'
  BY <1>1, <1>2 DEF IInv, ReleaseOnTheWay
<1>5. ClientRequest(c)'
  BY <1>1 DEF IInv, ClientRequest
<1> QED
  BY <1>3, <1>4, <1>5

\* The count stays exact through a step that leaves the server alone and takes no
\* client into or out of Counted.
LEMMA CountFrame ==
    ASSUME IInv, step'[Server] = step[Server], pc'[Server] = pc[Server],
           wait_requests'[Server] = wait_requests[Server], Counted' = Counted
    PROVE  CountIsExact'
<1>1. NextId(Server)' = NextId(Server)
  BY DEF NextId
<1> QED
  BY <1>1 DEF IInv, CountIsExact

\* The server reaches a point: the request it opens is empty exactly when no client's
\* N_Ready has come early.
LEMMA ServerEnterStep == IInv /\ TypeOK' /\ ServerEnter => IInv'
<1> SUFFICES ASSUME IInv, TypeOK', ServerEnter PROVE IInv'
  OBVIOUS
<1>0. Server \in Node /\ TypeOK
  BY DEF Node, IInv
<1>1. AllConnected'
  BY <1>0 DEF IInv, AllConnected, ServerEnter, TypeOK
<1>2. \A c \in Client : pc'[c] = pc[c] /\ wait_requests'[c] = wait_requests[c]
                        /\ value'[c] = value[c]
  BY <1>0, ClientAssumption DEF ServerEnter, TypeOK, Node
<1>3. CountIsExact'
  <2>1. Counted' = Counted
    BY <1>2 DEF Counted, WaitsAt, ServerEnter
  <2>2. NextId(Server)' = NextId(Server) /\ NextId(Server) \in MessageID
    BY <1>0, NextFacts DEF NextId, ServerEnter
  <2>3. wait_requests'[Server] = Opened(wait_requests[Server], NextId(Server))
    BY <1>0 DEF ServerEnter, TypeOK
  <2>4. /\ wait_requests[Server] \in [MessageID -> Nat \cup {NoRequest}]
        /\ step'[Server] = step[Server] /\ step[Server] < Len(Script)
    BY <1>0 DEF ServerEnter, TypeOK
  <2>5. /\ wait_requests'[Server][NextId(Server)] # NoRequest
        /\ wait_requests[Server][NextId(Server)] # NoRequest =>
               wait_requests'[Server][NextId(Server)] = wait_requests[Server][NextId(Server)]
        /\ wait_requests[Server][NextId(Server)] = NoRequest =>
               wait_requests'[Server][NextId(Server)] = 0
    BY <2>2, <2>3, <2>4 DEF Opened, NoRequest
  <2>6. wait_requests'[Server][NextId(Server)] = Cardinality(Counted)
    BY <2>4, <2>5, FS_EmptySet DEF IInv, CountIsExact
  <2>7. \A id \in MessageID : wait_requests'[Server][id] # NoRequest => id = NextId(Server)
    BY <2>2, <2>3, <2>4 DEF IInv, CountIsExact, Opened
  <2> QED
    BY <2>1, <2>2, <2>4, <2>5, <2>6, <2>7 DEF CountIsExact
<1>4. ASSUME NEW c \in Client
      PROVE  (InStep(c) /\ ReadyOnTheWay(c) /\ ReleaseOnTheWay(c) /\ ClientRequest(c)
              /\ AgreementFor(c))'
  BY <1>2, ClientFrame DEF ServerEnter
<1> QED
  BY <1>1, <1>3, <1>4 DEF IInv

\* When the server leaves its point, every client is blocked there.
LEMMA AllCounted == IInv /\ ServerPass => Counted = Client
<1> SUFFICES ASSUME IInv, ServerPass PROVE Counted = Client
  OBVIOUS
<1>1. /\ Server \in Node /\ step[Server] < Len(Script)
      /\ NextId(Server) \in MessageID
  BY NextFacts DEF Node, ServerPass, IInv, TypeOK
<1>2. wait_requests[Server][NextId(Server)] = Cardinality(Counted)
  BY <1>1 DEF IInv, CountIsExact, ServerPass
<1>3. Cardinality(Counted) >= Cardinality(Client)
  BY <1>2 DEF ServerPass, EnoughReady, IInv, AllConnected
<1>4. Cardinality(Counted) \in Nat /\ Cardinality(Client) \in Nat
  BY ClientAssumption, CountedFinite, FS_CardinalityType
<1> QED
  BY <1>3, <1>4, ClientAssumption, CountedFinite, FS_Subset

\* The server leaves its point and sends the one packet that ends each client's wait.
LEMMA ServerPassStep == IInv /\ TypeOK' /\ ServerPass => IInv'
<1> SUFFICES ASSUME IInv, TypeOK', ServerPass PROVE IInv'
  OBVIOUS
<1>0. /\ Server \in Node /\ TypeOK /\ step[Server] \in Nat
      /\ step[Server] < Len(Script) /\ NextId(Server) \in MessageID
  BY NextFacts DEF Node, ServerPass, IInv, TypeOK
<1>1. Counted = Client
  BY AllCounted
<1>2. \A c \in Client : /\ pc'[c] = pc[c] /\ wait_requests'[c] = wait_requests[c]
                        /\ step'[c] = step[c] /\ c # Server
  BY <1>0, ClientAssumption DEF ServerPass, TypeOK, Node
<1>3. step'[Server] = step[Server] + 1 /\ pc'[Server] = "game"
  BY <1>0 DEF ServerPass, TypeOK
<1>4. \A c \in Client : pc[c] = "wait" /\ step[c] = step[Server] /\ toServer[c] = <<>>
  BY <1>1 DEF Counted, WaitsAt
<1>5. AllConnected'
  BY <1>0 DEF IInv, AllConnected, ServerPass, TypeOK
<1>6. CountIsExact'
  <2>1. Counted' = {}
    BY <1>0, <1>2, <1>3, <1>4 DEF Counted, WaitsAt
  <2>2. wait_requests'[Server] = Erased(wait_requests[Server], NextId(Server))
    BY <1>0 DEF ServerPass, TypeOK
  <2>3. \A id \in MessageID : wait_requests'[Server][id] = NoRequest
    BY <1>0, <2>2 DEF IInv, CountIsExact, Erased, TypeOK
  <2>4. step'[Server] < Len(Script) => NextId(Server)' \in MessageID
    <3>1. NextId(Server)' = Script[step[Server] + 1 + 1]
      BY <1>3 DEF NextId
    <3>2. step[Server] + 1 < Len(Script) => step[Server] + 1 \in 0..(Len(Script) - 1)
      BY <1>0, ScriptFacts
    <3> QED
      BY <1>3, <3>1, <3>2, ScriptFacts
  <2> QED
    BY <1>3, <2>1, <2>3, <2>4 DEF CountIsExact
<1>7. ASSUME NEW c \in Client
      PROVE  (InStep(c) /\ ReadyOnTheWay(c) /\ ReleaseOnTheWay(c) /\ ClientRequest(c)
              /\ AgreementFor(c))'
  <2>0. /\ c \in Node /\ FromServer(c) = {} /\ step[c] \in Nat
        /\ pc[c] = "wait" /\ step[c] = step[Server] /\ toServer[c] = <<>>
        /\ pc'[c] = "wait" /\ step'[c] = step[c]
    BY <1>2, <1>4, ClientFacts
  <2>1. NextId(c)' = NextId(c) /\ NextId(c) = NextId(Server)
    BY <2>0 DEF NextId
  <2>2. wait_requests[c][NextId(c)] = 0 /\ wait_requests'[c] = wait_requests[c]
    <3>1. wait_requests[c][NextId(c)] # 0 => step[c] + 1 = step[Server]
      BY <2>0, ClientParts DEF ClientRequest
    <3> QED
      BY <1>2, <2>0, <3>1
  <2>3. toServer'[c] = <<>> /\ value'[c] = value[c]
    BY <2>0 DEF ServerPass
  <2>4. /\ toClient[c] \in Seq(Packet)
        /\ toClient'[c] = Append(toClient[c], ReadyPacket(Server))
    BY <1>0 DEF ServerPass, IInv, AllConnected, TypeOK
  <2>5. FromServer(c)' = {Len(toClient[c]) + 1}
    BY <2>0, <2>4 DEF FromServer, ReadyPacket
  <2>6. ReleaseOnTheWay(c)'
    <3>1. toClient'[c][Len(toClient[c]) + 1] = ReadyPacket(Server)
      BY <2>4
    <3>2. ReadyPacket(Server) =
             [node |-> Server, id |-> NextId(c)', round |-> step'[Server]]
      BY <1>3, <2>1 DEF ReadyPacket
    <3> QED
      BY <1>3, <2>0, <2>1, <2>2, <2>5, <3>1, <3>2 DEF ReleaseOnTheWay
  <2>7. ClientRequest(c)'
    BY <2>0, <2>1, <2>2 DEF IInv, ClientRequest
  <2> QED
    BY <1>3, <2>0, <2>3, <2>6, <2>7 DEF InStep, ReadyOnTheWay, AgreementFor
<1> QED
  BY <1>5, <1>6, <1>7 DEF IInv

\* A client reaches its point and sends its N_Ready: not counted yet.
LEMMA ClientEnterStep ==
    ASSUME IInv, TypeOK', NEW d \in Client, ClientEnter(d)
    PROVE  IInv'
<1>0. /\ d \in Node /\ d # Server /\ TypeOK /\ step[d] \in Nat
      /\ step[d] = step[Server] /\ toServer[d] = <<>> /\ FromServer(d) = {}
      /\ \A id \in MessageID : wait_requests[d][id] = NoRequest
      /\ NextId(d) \in MessageID
  BY ClientFacts, NextFacts DEF ClientEnter, IInv
<1>1. /\ pc'[d] = "wait" /\ step' = step
      /\ toServer'[d] = <<ReadyPacket(d)>> /\ toClient' = toClient
  BY <1>0 DEF ClientEnter, IInv, AllConnected, TypeOK
<1>2. \A n \in Node \ {d} : /\ pc'[n] = pc[n] /\ wait_requests'[n] = wait_requests[n]
                            /\ value'[n] = value[n]
  BY <1>0 DEF ClientEnter, TypeOK
<1>3. \A c \in Client \ {d} : toServer'[c] = toServer[c]
  BY DEF ClientEnter, IInv, TypeOK
<1>4. AllConnected'
  BY <1>1, <1>2 DEF IInv, AllConnected, ClientEnter
<1>5. CountIsExact'
  <2>1. d \notin Counted /\ d \notin Counted'
    <3>1. <<ReadyPacket(d)>> # <<>>
      OBVIOUS
    <3> QED
      BY <1>1, <3>1 DEF Counted, WaitsAt, ClientEnter
  <2>2. Counted' = Counted
    BY <1>1, <1>2, <1>3, <2>1 DEF Counted, WaitsAt, Node
  <2> QED
    BY <1>0, <1>1, <1>2, <2>2, CountFrame DEF Node
<1>6. (InStep(d) /\ ReadyOnTheWay(d) /\ ReleaseOnTheWay(d) /\ ClientRequest(d)
       /\ AgreementFor(d))'
  <2>1. NextId(d)' = NextId(d) /\ ReadyPacket(d)' = ReadyPacket(d)
    BY <1>1 DEF NextId, ReadyPacket
  <2>2. FromServer(d)' = {}
    BY <1>0, <1>1 DEF FromServer
  <2>3. wait_requests'[d] = [wait_requests[d] EXCEPT ![NextId(d)] = 0]
    BY <1>0 DEF ClientEnter, Opened, TypeOK
  <2>4. ClientRequest(d)'
    BY <1>0, <1>1, <2>1, <2>3 DEF ClientRequest, TypeOK, NoRequest
  <2> QED
    BY <1>0, <1>1, <2>1, <2>2, <2>4
    DEF InStep, ReadyOnTheWay, WaitsAt, ReleaseOnTheWay, AgreementFor
<1>7. ASSUME NEW c \in Client \ {d}
      PROVE  (InStep(c) /\ ReadyOnTheWay(c) /\ ReleaseOnTheWay(c) /\ ClientRequest(c)
              /\ AgreementFor(c))'
  BY <1>1, <1>2, <1>3, ClientFrame DEF Node
<1> QED
  BY <1>4, <1>5, <1>6, <1>7 DEF IInv

\* A client leaves its point: the server has, and the data is there.
LEMMA ClientPassStep ==
    ASSUME IInv, TypeOK', NEW d \in Client, ClientPass(d)
    PROVE  IInv'
<1>0. /\ d \in Node /\ d # Server /\ TypeOK /\ step[d] \in Nat /\ step[Server] \in Nat
      /\ NextId(d) \in MessageID /\ pc[d] = "wait"
  BY ClientFacts, NextFacts DEF ClientPass, IInv, TypeOK
<1>1. wait_requests[d][NextId(d)] # 0 /\ wait_requests[d][NextId(d)] # NoRequest
  BY <1>0 DEF ClientPass, NoRequest, TypeOK
<1>2. /\ step[d] + 1 = step[Server] /\ toServer[d] = <<>> /\ FromServer(d) = {}
      /\ NextId(d) \in Payload =>
             value[d][NextId(d)] = [by |-> Server, round |-> step[d] + 1]
  <2>1. /\ step[d] + 1 = step[Server]
        /\ NextId(d) \in Payload =>
               value[d][NextId(d)] = [by |-> Server, round |-> step[d] + 1]
    BY <1>0, <1>1, ClientParts DEF ClientRequest
  <2>2. toServer[d] = <<>>
    BY <1>0, <2>1, ClientParts DEF InStep
  <2>3. ASSUME NEW i \in FromServer(d) PROVE FALSE
    BY <1>1, ClientParts DEF ReleaseOnTheWay
  <2> QED
    BY <2>1, <2>2, <2>3
<1>3. /\ pc'[d] = "game" /\ step'[d] = step[Server]
      /\ toServer' = toServer /\ toClient' = toClient /\ value' = value
  BY <1>0, <1>2 DEF ClientPass, TypeOK
<1>4. \A n \in Node \ {d} : /\ pc'[n] = pc[n] /\ wait_requests'[n] = wait_requests[n]
                            /\ step'[n] = step[n]
  BY <1>0 DEF ClientPass, TypeOK
<1>5. Server \in Node \ {d} /\ Client \ {d} \subseteq Node \ {d}
  BY <1>0 DEF Node
<1>6. AllConnected'
  BY <1>3, <1>4 DEF IInv, AllConnected, ClientPass
<1>7. CountIsExact'
  <2>1. d \notin Counted /\ d \notin Counted'
    BY <1>0, <1>2, <1>3 DEF Counted, WaitsAt
  <2>2. Counted' = Counted
    BY <1>3, <1>4, <1>5, <2>1 DEF Counted, WaitsAt
  <2> QED
    BY <1>4, <1>5, <2>2, CountFrame
<1>8. (InStep(d) /\ ReadyOnTheWay(d) /\ ReleaseOnTheWay(d) /\ ClientRequest(d)
       /\ AgreementFor(d))'
  <2>1. \A id \in MessageID : wait_requests'[d][id] = NoRequest
    <3>1. \A id \in MessageID : wait_requests[d][id] # NoRequest => id = NextId(d)
      BY <1>0 DEF IInv, ClientRequest
    <3>2. /\ wait_requests' = [wait_requests EXCEPT ![d] = Erased(wait_requests[d], NextId(d))]
          /\ wait_requests \in [Node -> [MessageID -> Nat \cup {NoRequest}]]
      BY DEF ClientPass, IInv, TypeOK
    <3>3. wait_requests'[d] = [wait_requests[d] EXCEPT ![NextId(d)] = NoRequest]
      BY <1>0, <3>2 DEF Erased
    <3> QED
      BY <1>0, <3>1, <3>2, <3>3
  <2>2. FromServer(d)' = {}
    BY <1>2, <1>3 DEF FromServer
  <2>3. AgreementFor(d)'
    BY <1>0, <1>2, <1>3 DEF AgreementFor, NextId
  <2>4. ClientRequest(d)'
    BY <1>3, <2>1 DEF ClientRequest
  <2> QED
    BY <1>2, <1>3, <1>4, <1>5, <2>2, <2>3, <2>4 DEF InStep, ReadyOnTheWay, ReleaseOnTheWay
<1>9. ASSUME NEW c \in Client \ {d}
      PROVE  (InStep(c) /\ ReadyOnTheWay(c) /\ ReleaseOnTheWay(c) /\ ClientRequest(c)
              /\ AgreementFor(c))'
  BY <1>3, <1>4, <1>5, ClientFrame
<1> QED
  BY <1>6, <1>7, <1>8, <1>9 DEF IInv

\* The server counts one more client; what it relays is not its own packet.
LEMMA ServerReceiveStep ==
    ASSUME IInv, TypeOK', NEW d \in Client, ServerReceive(d)
    PROVE  IInv'
<1>0. /\ d \in Node /\ d # Server /\ TypeOK /\ Server \in Node /\ step[Server] \in Nat
      /\ toServer[d] # <<>>
  BY ClientFacts DEF ServerReceive, IInv
<1>1. /\ pc[d] = "wait" /\ step[d] = step[Server] /\ toServer[d] = <<ReadyPacket(d)>>
      /\ Head(toServer[d]) = ReadyPacket(d) /\ Tail(toServer[d]) = <<>>
  <2>1. pc[d] = "wait" /\ step[d] = step[Server] /\ toServer[d] = <<ReadyPacket(d)>>
    BY <1>0, ClientParts DEF ReadyOnTheWay, WaitsAt
  <2> QED
    BY <2>1
<1>2. /\ step[Server] < Len(Script) /\ NextId(d) = NextId(Server)
      /\ NextId(Server) \in MessageID
  BY <1>0, <1>1, NextFacts DEF TypeOK, NextId
<1>3. /\ pc' = pc /\ step' = step /\ value' = value /\ connections' = connections
      /\ toServer'[d] = <<>> /\ \A c \in Client \ {d} : toServer'[c] = toServer[c]
      /\ wait_requests'[Server] = ServerCounted(wait_requests[Server], ReadyPacket(d))
      /\ \A c \in Client : wait_requests'[c] = wait_requests[c]
      /\ \A c \in Client : toClient'[c] = toClient[c]
                           \/ toClient'[c] = Append(toClient[c], ReadyPacket(d))
  BY <1>0, <1>1, ClientAssumption DEF ServerReceive, TypeOK, Node
<1>4. AllConnected'
  BY <1>3 DEF IInv, AllConnected
<1>5. CountIsExact'
  <2>1. Counted' = Counted \cup {d} /\ d \notin Counted
    BY <1>0, <1>1, <1>3 DEF Counted, WaitsAt
  <2>2. Cardinality(Counted') = Cardinality(Counted) + 1 /\ Cardinality(Counted) \in Nat
    BY <2>1, CountedFinite, FS_AddElement, FS_CardinalityType
  <2>3. NextId(Server)' = NextId(Server) /\ ReadyPacket(d).id = NextId(Server)
    BY <1>2, <1>3 DEF NextId, ReadyPacket
  <2>4. /\ wait_requests[Server] \in [MessageID -> Nat \cup {NoRequest}]
        /\ \A id \in MessageID \ {NextId(Server)} :
               wait_requests'[Server][id] = wait_requests[Server][id]
        /\ wait_requests'[Server][NextId(Server)] =
               IF wait_requests[Server][NextId(Server)] = NoRequest THEN 1
               ELSE wait_requests[Server][NextId(Server)] + 1
    BY <1>0, <1>2, <1>3, <2>3 DEF ServerCounted, TypeOK
  <2>5. wait_requests'[Server][NextId(Server)] = Cardinality(Counted)'
    <3>1. CASE wait_requests[Server][NextId(Server)] = NoRequest
      <4>1. Counted = {} /\ Cardinality({}) = 0
        BY <1>2, <3>1, FS_EmptySet DEF IInv, CountIsExact
      <4> QED
        BY <2>2, <2>4, <3>1, <4>1
    <3>2. CASE wait_requests[Server][NextId(Server)] # NoRequest
      BY <1>2, <2>2, <2>4, <3>2 DEF IInv, CountIsExact
    <3> QED
      BY <3>1, <3>2
  <2>6. wait_requests'[Server][NextId(Server)] # NoRequest
    BY <2>2, <2>5 DEF NoRequest
  <2>7. \A id \in MessageID : wait_requests'[Server][id] # NoRequest => id = NextId(Server)
    BY <2>4 DEF IInv, CountIsExact
  <2> QED
    BY <1>2, <1>3, <2>3, <2>5, <2>6, <2>7 DEF CountIsExact
<1>6. ASSUME NEW c \in Client
      PROVE  (InStep(c) /\ ReadyOnTheWay(c) /\ ReleaseOnTheWay(c) /\ ClientRequest(c)
              /\ AgreementFor(c))'
  <2>1. /\ NextId(c)' = NextId(c) /\ ReadyPacket(c)' = ReadyPacket(c)
        /\ wait_requests'[c] = wait_requests[c]
    BY <1>3 DEF NextId, ReadyPacket
  <2>2. toServer'[c] = <<>> \/ toServer'[c] = toServer[c]
    BY <1>3
  <2>3. InStep(c)' /\ ReadyOnTheWay(c)'
    BY <1>3, <2>1, <2>2 DEF IInv, InStep, ReadyOnTheWay, WaitsAt
  <2>4. /\ FromServer(c)' = FromServer(c)
        /\ \A i \in FromServer(c) : toClient'[c][i] = toClient[c][i]
    <3>1. toClient[c] \in Seq(Packet)
      BY <1>0 DEF TypeOK
    <3>2. CASE toClient'[c] = toClient[c]
      BY <3>2 DEF FromServer
    <3>3. CASE toClient'[c] = Append(toClient[c], ReadyPacket(d))
      <4>1. ReadyPacket(d).node # Server
        BY <1>0 DEF ReadyPacket
      <4> QED
        BY <3>1, <3>3, <4>1 DEF FromServer
    <3> QED
      BY <1>3, <3>2, <3>3
  <2>5. ReleaseOnTheWay(c)'
    BY <1>3, <2>1, <2>4 DEF IInv, ReleaseOnTheWay
  <2>6. ClientRequest(c)' /\ AgreementFor(c)'
    BY <1>3, <2>1 DEF IInv, ClientRequest, AgreementFor
  <2> QED
    BY <2>3, <2>5, <2>6
<1> QED
  BY <1>4, <1>5, <1>6 DEF IInv

\* A client reads a relayed N_Ready, which changes nothing, or the server's packet,
\* which is the one that ends its wait.
LEMMA ClientReceiveStep ==
    ASSUME IInv, TypeOK', NEW d \in Client, ClientReceive(d)
    PROVE  IInv'
<1> DEFINE m == Head(toClient[d])
<1>0. /\ d \in Node /\ d # Server /\ TypeOK /\ Server \in Node
      /\ step[d] \in Nat /\ step[Server] \in Nat
      /\ toClient[d] # <<>> /\ toClient[d] \in Seq(Packet)
  BY ClientFacts DEF ClientReceive, IInv, TypeOK
<1>1. /\ pc' = pc /\ step' = step /\ toServer' = toServer /\ connections' = connections
      /\ toClient'[d] = Tail(toClient[d])
      /\ \A c \in Client \ {d} : toClient'[c] = toClient[c]
      /\ \A n \in Node \ {d} : wait_requests'[n] = wait_requests[n] /\ value'[n] = value[n]
      /\ wait_requests'[d] = ClientCounted(wait_requests[d], m)
  BY <1>0 DEF ClientReceive, TypeOK
<1>2. Server \in Node \ {d} /\ Client \ {d} \subseteq Node \ {d}
  BY <1>0 DEF Node
<1>3. AllConnected'
  BY <1>1 DEF IInv, AllConnected
<1>4. CountIsExact'
  <2>1. Counted' = Counted
    BY <1>1 DEF Counted, WaitsAt
  <2> QED
    BY <1>1, <1>2, <2>1, CountFrame
<1>5. /\ \A i \in FromServer(d)' : /\ i + 1 \in FromServer(d) /\ i \in Nat /\ i # 0
                                   /\ toClient'[d][i] = toClient[d][i + 1]
      /\ m.node = Server => 1 \in FromServer(d) /\ toClient[d][1] = m
  BY <1>0, <1>1 DEF FromServer
<1>6. NextId(d)' = NextId(d) /\ ReadyPacket(d)' = ReadyPacket(d)
  BY <1>1 DEF NextId, ReadyPacket
<1>7. InStep(d)' /\ ReadyOnTheWay(d)'
  BY <1>1, <1>6 DEF IInv, InStep, ReadyOnTheWay, WaitsAt
<1>8. (ReleaseOnTheWay(d) /\ ClientRequest(d) /\ AgreementFor(d))'
  <2>1. CASE m.node # Server
    <3>1. wait_requests'[d] = wait_requests[d] /\ value' = value
      BY <1>1, <2>1 DEF ClientCounted, ClientReceive
    <3>2. ReleaseOnTheWay(d)'
      <4>1. ASSUME NEW i \in FromServer(d)', NEW j \in FromServer(d)' PROVE i = j
        <5>1. i + 1 = j + 1
          <6>1. i + 1 \in FromServer(d) /\ j + 1 \in FromServer(d)
            BY <1>5, <4>1
          <6> QED
            BY <6>1, ClientParts DEF ReleaseOnTheWay
        <5> QED
          BY <1>5, <5>1
      <4> QED
        <5>1. ASSUME NEW i \in FromServer(d)'
              PROVE  /\ step[d] + 1 = step[Server] /\ pc[d] = "wait"
                     /\ wait_requests[d][NextId(d)] = 0
                     /\ toClient'[d][i] =
                            [node |-> Server, id |-> NextId(d), round |-> step[Server]]
          <6>1. i + 1 \in FromServer(d) /\ toClient'[d][i] = toClient[d][i + 1]
            BY <1>5, <5>1
          <6> QED
            BY <6>1, ClientParts DEF ReleaseOnTheWay
        <5> QED
          BY <1>1, <1>6, <3>1, <4>1, <5>1 DEF ReleaseOnTheWay
    <3> QED
      BY <1>1, <1>6, <3>1, <3>2 DEF IInv, ClientRequest, AgreementFor
  <2>2. CASE m.node = Server
    <3>1. /\ step[d] + 1 = step[Server] /\ pc[d] = "wait"
          /\ wait_requests[d][NextId(d)] = 0
          /\ m = [node |-> Server, id |-> NextId(d), round |-> step[Server]]
          /\ \A j \in FromServer(d) : j = 1
      BY <1>5, <2>2 DEF IInv, ReleaseOnTheWay
    <3>2. NextId(d) \in MessageID
      BY <1>0, <3>1, NextFacts DEF TypeOK
    <3>3. FromServer(d)' = {}
      BY <1>5, <3>1
    <3>4. /\ wait_requests'[d] = [wait_requests[d] EXCEPT ![NextId(d)] = 1]
          /\ wait_requests[d] \in [MessageID -> Nat \cup {NoRequest}]
      <4>1. m.id = NextId(d)
        BY <3>1
      <4>2. wait_requests[d] \in [MessageID -> Nat \cup {NoRequest}]
        BY <1>0 DEF TypeOK
      <4>3. wait_requests[d][NextId(d)] # NoRequest
        BY <3>1 DEF NoRequest
      <4> HIDE DEF m
      <4> QED
        BY <1>1, <2>2, <3>1, <3>2, <4>1, <4>2, <4>3 DEF ClientCounted
    <3>5. NextId(d) \in Payload =>
             value'[d][NextId(d)] = [by |-> Server, round |-> step[d] + 1]
      BY <1>0, <3>1 DEF ClientReceive, TypeOK
    <3>6. ClientRequest(d)'
      BY <1>1, <1>6, <3>1, <3>2, <3>4, <3>5 DEF IInv, ClientRequest, NoRequest
    <3>7. AgreementFor(d)'
      BY <1>1, <3>1 DEF AgreementFor
    <3> QED
      BY <3>3, <3>6, <3>7 DEF ReleaseOnTheWay
  <2> QED
    BY <2>1, <2>2
<1>9. ASSUME NEW c \in Client \ {d}
      PROVE  (InStep(c) /\ ReadyOnTheWay(c) /\ ReleaseOnTheWay(c) /\ ClientRequest(c)
              /\ AgreementFor(c))'
  BY <1>1, <1>2, ClientFrame
<1> QED
  BY <1>3, <1>4, <1>7, <1>8, <1>9 DEF IInv

LEMMA InvStep ==
    ASSUME Mortal = {}, IInv, [Next]_vars
    PROVE  IInv'
<1>0. TypeOK'
  BY TypeStep DEF IInv
<1>1. CASE ServerEnter
  BY <1>0, <1>1, ServerEnterStep
<1>2. CASE ServerPass
  BY <1>0, <1>2, ServerPassStep
<1>3. CASE \E c \in Client : ClientEnter(c) \/ ClientPass(c)
  BY <1>0, <1>3, ClientEnterStep, ClientPassStep
<1>4. CASE \E c \in Client : ServerReceive(c) \/ ClientReceive(c)
  BY <1>0, <1>4, ServerReceiveStep, ClientReceiveStep
<1>5. CASE \E gone \in (SUBSET Mortal) \ {{}} : ServerTimeout(gone)
  BY <1>5
<1>6. CASE UNCHANGED vars
  <2>1. CountIsExact'
    BY <1>6, CountFrame DEF vars, Counted, WaitsAt
  <2>2. AllConnected'
    BY <1>6 DEF vars, IInv, AllConnected
  <2>3. ASSUME NEW c \in Client
        PROVE  (InStep(c) /\ ReadyOnTheWay(c) /\ ReleaseOnTheWay(c) /\ ClientRequest(c)
                /\ AgreementFor(c))'
    BY <1>6, ClientFrame DEF vars
  <2> QED
    BY <1>0, <2>1, <2>2, <2>3 DEF IInv
<1> QED
  BY <1>1, <1>2, <1>3, <1>4, <1>5, <1>6 DEF Next, Done

LEMMA Safety == Mortal = {} => (Spec => [](CountIsExact /\ Agreement))
<1> SUFFICES ASSUME Mortal = {} PROVE Spec => [](CountIsExact /\ Agreement)
  OBVIOUS
<1>1. IInv /\ [Next]_vars => IInv'
  BY InvStep
<1>2. IInv => CountIsExact /\ Agreement
  BY DEF IInv, AgreementFor, Agreement
<1> QED
  BY InvInit, <1>1, <1>2, PTL DEF Spec

\* Nobody times out: the server's count of ready players is the number of those who wait
\* at its point.
THEOREM CountIsExactHolds == Mortal = {} => (Spec => []CountIsExact)
BY Safety, PTL

\* Nobody times out: everybody plays on with the server's data of the point.
THEOREM AgreementHolds == Mortal = {} => (Spec => []Agreement)
BY Safety, PTL

-----------------------------------------------------------------------------
(* What a step may not do, and the refinement *)

\* Who changes step, and how.
LEMMA StepChanges ==
    ASSUME Mortal = {}, IInv, [Next]_vars
    PROVE  \/ step' = step
           \/ ServerPass /\ step' = [step EXCEPT ![Server] = @ + 1]
           \/ \E c \in Client : ClientPass(c) /\ step' = [step EXCEPT ![c] = @ + 1]
<1>1. CASE ServerEnter
  BY <1>1 DEF ServerEnter
<1>2. CASE ServerPass
  BY <1>2 DEF ServerPass
<1>3. ASSUME NEW c \in Client, ClientEnter(c) \/ ServerReceive(c) \/ ClientReceive(c)
      PROVE  step' = step
  BY <1>3 DEF ClientEnter, ServerReceive, ClientReceive
<1>4. ASSUME NEW c \in Client, ClientPass(c)
      PROVE  step' = [step EXCEPT ![c] = @ + 1]
  BY <1>4 DEF ClientPass
<1>5. CASE \E gone \in (SUBSET Mortal) \ {{}} : ServerTimeout(gone)
  BY <1>5 DEF ServerTimeout
<1>6. CASE Done \/ UNCHANGED vars
  BY <1>6 DEF Done, vars
<1> QED
  BY <1>1, <1>2, <1>3, <1>4, <1>5, <1>6 DEF Next

LEMMA AllReadyStep ==
    ASSUME Mortal = {}, IInv, [Next]_vars
    PROVE  step'[Server] # step[Server] =>
               \A c \in connections : WaitsAt(c, step[Server])
<1>1. ASSUME ServerPass PROVE \A c \in connections : WaitsAt(c, step[Server])
  BY <1>1, AllCounted DEF Counted, IInv, AllConnected
<1>2. ASSUME NEW c \in Client, step' = [step EXCEPT ![c] = @ + 1]
      PROVE  step'[Server] = step[Server]
  BY <1>2, ClientAssumption DEF IInv, TypeOK, Node
<1> QED
  BY <1>1, <1>2, StepChanges

\* Nobody times out: the server goes past a point only when all its clients are there.
THEOREM AllReadyHolds == Mortal = {} => (Spec => AllReady)
<1> SUFFICES ASSUME Mortal = {} PROVE Spec => AllReady
  OBVIOUS
<1>1. IInv /\ [Next]_vars => IInv'
  BY InvStep
<1>2. IInv /\ [Next]_vars =>
          [step'[Server] # step[Server] =>
               \A c \in connections : WaitsAt(c, step[Server])]_vars
  BY AllReadyStep
<1> QED
  BY InvInit, <1>1, <1>2, PTL DEF Spec, AllReady

LEMMA DataStep ==
    ASSUME Mortal = {}, IInv, [Next]_vars, NEW c \in Client, NEW id \in Payload,
           value'[c][id] # value[c][id], value'[c][id].by = Server
    PROVE  pc[c] = "wait" /\ NextId(c) = id /\ value'[c][id].round = step[c] + 1
<1>0. /\ c \in Node /\ c # Server /\ Server \in Node
      /\ value \in [Node -> [Payload -> Value]] /\ toClient[c] \in Seq(Packet)
  BY ClientFacts DEF IInv, TypeOK
<1>1. CASE ClientReceive(c)
  <2> DEFINE m == Head(toClient[c])
  <2>1. /\ m.node = Server /\ m.id = id
        /\ value'[c][id] = [by |-> Server, round |-> m.round]
    BY <1>0, <1>1 DEF ClientReceive
  <2>2. toClient[c] # <<>> /\ 1 \in FromServer(c) /\ toClient[c][1] = m
    BY <1>0, <1>1, <2>1 DEF ClientReceive, FromServer
  <2>3. /\ step[c] + 1 = step[Server] /\ pc[c] = "wait"
        /\ m = [node |-> Server, id |-> NextId(c), round |-> step[Server]]
    BY <2>2, ClientParts DEF ReleaseOnTheWay
  <2> QED
    BY <2>1, <2>3
<1>2. ASSUME NEW d \in Client, d # c, ClientReceive(d) PROVE FALSE
  BY <1>0, <1>2 DEF ClientReceive
<1>3. ASSUME ClientEnter(c) PROVE FALSE
  <2>1. value'[c][id] = value[c][id] \/ value'[c][id] = Own(c)
    BY <1>0, <1>3 DEF ClientEnter
  <2> QED
    BY <1>0, <2>1 DEF Own
<1>4. ASSUME NEW d \in Client, d # c, ClientEnter(d) PROVE FALSE
  BY <1>0, <1>4 DEF ClientEnter
<1>5. ASSUME ServerEnter PROVE FALSE
  BY <1>0, <1>5 DEF ServerEnter
<1>6. ASSUME NEW d \in Client, ClientPass(d) \/ ServerReceive(d) PROVE FALSE
  BY <1>6 DEF ClientPass, ServerReceive
<1>7. ASSUME ServerPass \/ Done \/ UNCHANGED vars PROVE FALSE
  BY <1>7 DEF ServerPass, Done, vars
<1>8. ASSUME NEW gone \in (SUBSET Mortal) \ {{}}, ServerTimeout(gone) PROVE FALSE
  BY <1>8 DEF ServerTimeout
<1> QED
  BY <1>1, <1>2, <1>3, <1>4, <1>5, <1>6, <1>7, <1>8 DEF Next

\* Nobody times out: a client gets a point's data only while it is blocked there.
THEOREM DataArrivesAtWaiterHolds == Mortal = {} => (Spec => DataArrivesAtWaiter)
<1> SUFFICES ASSUME Mortal = {} PROVE Spec => DataArrivesAtWaiter
  OBVIOUS
<1>1. IInv /\ [Next]_vars => IInv'
  BY InvStep
<1>2. IInv /\ [Next]_vars =>
          [\A c \in Client : \A id \in Payload :
               (value'[c][id] # value[c][id] /\ value'[c][id].by = Server) =>
                   /\ pc[c] = "wait" /\ NextId(c) = id
                   /\ value'[c][id].round = step[c] + 1]_vars
  BY DataStep
<1> QED
  BY InvInit, <1>1, <1>2, PTL DEF Spec, DataArrivesAtWaiter

\* The refinement mapping of ReadyBarrier!Sync.
Entered == [n \in Node |-> IF pc[n] = "wait" THEN step[n] + 1 ELSE step[n]]

LEMMA SyncInit == Init => Sync!Init
BY DEF Init, Sync!Init

\* Everybody has reached the point the slowest player is blocked at.
LEMMA EnteredFacts ==
    ASSUME IInv
    PROVE  /\ \A n \in Node : step[n] \in Nat /\ Entered[n] \in Nat
           /\ \A n \in Node : step[n] <= step[Server]
           /\ \A n \in Node : Entered[n] >= step[Server]
<1>1. \A n \in Node : step[n] \in Nat
  BY ScriptFacts DEF IInv, TypeOK, Round
<1>2. ASSUME NEW n \in Node
      PROVE  Entered[n] \in Nat /\ step[n] <= step[Server] /\ Entered[n] >= step[Server]
  <2>1. CASE n = Server
    BY <1>1, <2>1 DEF Entered, Node
  <2>2. CASE n \in Client
    <3>1. step[n] = step[Server] \/ (step[n] + 1 = step[Server] /\ pc[n] = "wait")
      BY <2>2, ClientParts DEF InStep
    <3>2. step[n] \in Nat /\ step[Server] \in Nat
      BY <1>1 DEF Node
    <3>3. Entered[n] = IF pc[n] = "wait" THEN step[n] + 1 ELSE step[n]
      BY DEF Entered
    <3> QED
      BY <3>1, <3>2, <3>3
  <2> QED
    BY <2>1, <2>2 DEF Node
<1> QED
  BY <1>1, <1>2

\* A player reaches a point.
LEMMA EnterRefines ==
    ASSUME IInv, NEW n \in Node, pc[n] = "game", step[n] < Len(Script),
           pc' = [pc EXCEPT ![n] = "wait"], step' = step
    PROVE  Sync!Enter(n)
<1>1. Entered' = [Entered EXCEPT ![n] = @ + 1]
  BY DEF Entered, IInv, TypeOK
<1>2. Entered[n] = step[n]
  BY DEF Entered
<1> QED
  BY <1>1, <1>2 DEF Sync!Enter, Entered

\* A player leaves a point that everybody has reached.
LEMMA LeaveRefines ==
    ASSUME IInv, NEW n \in Node, pc[n] = "wait", \A k \in Node : step[n] + 1 <= Entered[k],
           pc' = [pc EXCEPT ![n] = "game"], step' = [step EXCEPT ![n] = @ + 1]
    PROVE  Sync!Leave(n)
<1>1. step \in [Node -> Round] /\ pc \in [Node -> {"game", "wait", "offline"}]
  BY DEF IInv, TypeOK
<1>2. Entered' = Entered
  BY <1>1 DEF Entered
<1>3. Entered[n] = step[n] + 1 /\ step[n] < Entered[n]
  BY EnteredFacts DEF Entered
<1> QED
  BY <1>2, <1>3 DEF Sync!Leave, Entered

LEMMA SyncStep ==
    ASSUME Mortal = {}, IInv, [Next]_vars
    PROVE  [Sync!Next]_(Sync!syncVars)
<1>0. Server \in Node /\ Client \subseteq Node
  BY DEF Node
<1>1. CASE ServerEnter
  BY <1>0, <1>1, EnterRefines DEF ServerEnter, Sync!Next
<1>2. ASSUME NEW c \in Client, ClientEnter(c) PROVE Sync!Next
  BY <1>0, <1>2, EnterRefines DEF ClientEnter, Sync!Next
<1>3. CASE ServerPass
  <2>1. \A c \in Client : pc[c] = "wait" /\ step[c] = step[Server]
    BY <1>3, AllCounted DEF Counted, WaitsAt
  <2>2. \A k \in Node : step[Server] + 1 <= Entered[k]
    <3>1. \A k \in Node : pc[k] = "wait" /\ step[k] = step[Server]
      BY <1>3, <2>1 DEF Node, ServerPass
    <3> QED
      BY <1>0, <3>1, EnteredFacts DEF Entered
  <2> QED
    BY <1>0, <1>3, <2>2, LeaveRefines DEF ServerPass, Sync!Next
<1>4. ASSUME NEW c \in Client, ClientPass(c) PROVE Sync!Next
  <2>1. step[c] < Len(Script) /\ pc[c] = "wait"
    BY <1>0, <1>4 DEF ClientPass, IInv, TypeOK
  <2>2. wait_requests[c][NextId(c)] # 0
    <3>1. NextId(c) \in MessageID
      BY <1>0, <2>1, NextFacts DEF IInv
    <3> QED
      BY <1>0, <1>4, <3>1 DEF ClientPass, IInv, TypeOK
  <2>3. step[c] + 1 = step[Server]
    BY <2>1, <2>2, ClientParts DEF ClientRequest
  <2>4. \A k \in Node : step[c] + 1 <= Entered[k]
    BY <2>3, EnteredFacts
  <2> QED
    BY <1>0, <1>4, <2>1, <2>4, LeaveRefines DEF ClientPass, Sync!Next
<1>5. ASSUME pc' = pc, step' = step PROVE UNCHANGED Sync!syncVars
  BY <1>5 DEF Sync!syncVars
<1>6. ASSUME NEW c \in Client, ServerReceive(c) \/ ClientReceive(c)
      PROVE  UNCHANGED Sync!syncVars
  BY <1>5, <1>6 DEF ServerReceive, ClientReceive
<1>7. CASE \E gone \in (SUBSET Mortal) \ {{}} : ServerTimeout(gone)
  BY <1>7
<1>8. CASE Done \/ UNCHANGED vars
  BY <1>5, <1>8 DEF Done, vars
<1> QED
  BY <1>1, <1>2, <1>3, <1>4, <1>6, <1>7, <1>8 DEF Next

\* Nobody times out: the ready barrier implements the synchronization point.
THEOREM Refinement == Mortal = {} => (Spec => Implements)
<1> SUFFICES ASSUME Mortal = {} PROVE Spec => Implements
  OBVIOUS
<1>1. IInv /\ [Next]_vars => IInv'
  BY InvStep
<1>2. IInv /\ [Next]_vars => [Sync!Next]_(Sync!syncVars)
  BY SyncStep
<1> QED
  BY InvInit, SyncInit, <1>1, <1>2, PTL DEF Spec, Implements, Sync!Spec

-----------------------------------------------------------------------------
(* Whoever times out *)

\* The rounds of the server's packets on the way to c come after c's step, and in
\* order, up to the server's step.
InOrder(c) ==
    /\ \A i \in FromServer(c) :
           toClient[c][i].round > step[c] /\ toClient[c][i].round <= step[Server]
    /\ \A i, j \in FromServer(c) : i < j => toClient[c][i].round < toClient[c][j].round

\* What c has sent carries its own node: nobody takes a relayed packet for the server's.
Signed(c) == \A i \in DOMAIN toServer[c] : toServer[c][i].node = c

\* c has the one request of the wait it is in.
OneRequest(c) ==
    \A id \in MessageID :
        wait_requests[c][id] # NoRequest => pc[c] = "wait" /\ id = NextId(c)

\* The wait c is in is over, but for the check of the loop's condition.
Satisfied(c) == pc[c] = "wait" /\ wait_requests[c][NextId(c)] >= 1

\* By then the server has left that point, its data has come, and what comes next is
\* of a later point.
Released(c) ==
    Satisfied(c) =>
        /\ step[c] + 1 <= step[Server]
        /\ \A i \in FromServer(c) : toClient[c][i].round > step[c] + 1
        /\ NextId(c) \in Payload => /\ value[c][NextId(c)].by = Server
                                    /\ value[c][NextId(c)].round >= step[c] + 1

\* NeverAhead, of one client.
NotAhead(c) ==
    /\ step[c] <= step[Server]
    /\ (pc[c] = "game" /\ step[c] > 0 /\ Script[step[c]] \in Payload) =>
           /\ value[c][Script[step[c]]].by = Server
           /\ value[c][Script[step[c]]].round >= step[c]

ClientInv(c) == InOrder(c) /\ Signed(c) /\ OneRequest(c) /\ Released(c) /\ NotAhead(c)

\* The inductive invariant.
TimeoutInv == TypeOK /\ \A c \in Client : ClientInv(c)

-----------------------------------------------------------------------------

LEMMA NodeFacts ==
    ASSUME TypeOK, NEW c \in Client
    PROVE  /\ c \in Node /\ Server \in Node /\ c # Server
           /\ step[c] \in Nat /\ step[Server] \in Nat
<1>1. c \in Node /\ Server \in Node /\ c # Server
  BY ClientAssumption DEF Node
<1> QED
  BY <1>1, ScriptFacts DEF TypeOK, Round

LEMMA RoundFacts ==
    ASSUME TypeOK, NEW c \in Client, NEW i \in FromServer(c)
    PROVE  toClient[c][i].round \in Nat
<1>1. toClient[c] \in Seq(Packet) /\ i \in DOMAIN toClient[c]
  BY DEF TypeOK, FromServer
<1>2. toClient[c][i] \in Packet
  BY <1>1
<1> QED
  BY <1>2, ScriptFacts DEF Packet, Round

LEMMA TimeoutInit == Init => TimeoutInv
<1> SUFFICES ASSUME Init PROVE TimeoutInv
  OBVIOUS
<1>1. TypeOK
  BY TypeInit
<1>2. ASSUME NEW c \in Client PROVE ClientInv(c)
  <2>1. /\ step[c] = 0 /\ step[Server] = 0 /\ pc[c] = "game"
        /\ toServer[c] = <<>> /\ toClient[c] = <<>>
        /\ \A id \in MessageID : wait_requests[c][id] = NoRequest
    BY <1>1, NodeFacts DEF Init, NoRequests
  <2>2. DOMAIN toServer[c] = {} /\ FromServer(c) = {}
    BY <2>1 DEF FromServer
  <2> QED
    BY <2>1, <2>2
    DEF ClientInv, InOrder, Signed, OneRequest, Satisfied, Released, NotAhead
<1> QED
  BY <1>1, <1>2 DEF TimeoutInv

\* A step of somebody else: what it may do to the client's channels and to the
\* server's step.
LEMMA ElsewhereStep ==
    ASSUME TypeOK, TypeOK', NEW c \in Client, ClientInv(c),
           pc'[c] = pc[c], step'[c] = step[c], value'[c] = value[c],
           wait_requests'[c] = wait_requests[c],
           step[Server] <= step'[Server],
           Signed(c)', InOrder(c)',
           Satisfied(c) => \A i \in FromServer(c)' : toClient'[c][i].round > step[c] + 1
    PROVE  ClientInv(c)'
<1>1. NextId(c)' = NextId(c) /\ Satisfied(c)' = Satisfied(c)
  BY DEF NextId, Satisfied
<1>2. /\ step[c] \in Nat /\ step[Server] \in Nat /\ step'[Server] \in Nat
  BY NodeFacts, ScriptFacts DEF TypeOK, Round, Node
<1>3. OneRequest(c)'
  BY <1>1 DEF ClientInv, OneRequest
<1>4. Released(c)'
  BY <1>1, <1>2 DEF ClientInv, Released
<1>5. NotAhead(c)'
  BY <1>2 DEF ClientInv, NotAhead
<1> QED
  BY <1>3, <1>4, <1>5 DEF ClientInv

\* A step of somebody else that sends the client nothing.
LEMMA QuietStep ==
    ASSUME TypeOK, TypeOK', NEW c \in Client, ClientInv(c),
           pc'[c] = pc[c], step'[c] = step[c], value'[c] = value[c],
           wait_requests'[c] = wait_requests[c],
           step'[Server] = step[Server],
           toClient'[c] = toClient[c],
           \/ toServer'[c] \in {toServer[c], <<>>}
           \/ toServer[c] # <<>> /\ toServer'[c] = Tail(toServer[c])
    PROVE  ClientInv(c)'
<1>1. FromServer(c)' = FromServer(c)
  BY DEF FromServer
<1>2. InOrder(c)'
  BY <1>1 DEF ClientInv, InOrder
<1>3. Signed(c)'
  <2>1. toServer[c] \in Seq(Packet)
    BY DEF TypeOK
  <2>2. CASE toServer'[c] = toServer[c]
    BY <2>2 DEF ClientInv, Signed
  <2>3. CASE toServer[c] # <<>> /\ toServer'[c] = Tail(toServer[c])
    BY <2>1, <2>3 DEF ClientInv, Signed
  <2>4. CASE toServer'[c] = <<>>
    BY <2>4 DEF Signed
  <2> QED
    BY <2>2, <2>3, <2>4
<1>4. step[Server] <= step'[Server]
  BY NodeFacts
<1> QED
  BY <1>1, <1>2, <1>3, <1>4, ElsewhereStep DEF ClientInv, Released

\* A packet that is not the server's does not matter to the order.
LEMMA RelayedPacket ==
    ASSUME TypeOK, NEW c \in Client, NEW m \in Packet, m.node # Server,
           toClient'[c] = Append(toClient[c], m)
    PROVE  /\ FromServer(c)' = FromServer(c)
           /\ \A i \in FromServer(c) : toClient'[c][i] = toClient[c][i]
<1>1. toClient[c] \in Seq(Packet)
  BY DEF TypeOK
<1>2. /\ DOMAIN toClient'[c] = 1..(Len(toClient[c]) + 1)
      /\ DOMAIN toClient[c] = 1..Len(toClient[c])
      /\ Len(toClient[c]) \in Nat
      /\ toClient'[c][Len(toClient[c]) + 1] = m
      /\ \A i \in 1..Len(toClient[c]) : toClient'[c][i] = toClient[c][i]
  BY <1>1
<1> QED
  BY <1>2 DEF FromServer

\* The server goes past its point: its packet is the last and of the highest round.
LEMMA PassInv ==
    ASSUME TimeoutInv, TypeOK', ServerPass, NEW c \in Client
    PROVE  ClientInv(c)'
<1>0. /\ TypeOK /\ ClientInv(c) /\ c \in Node /\ c # Server /\ Server \in Node
      /\ step[c] \in Nat /\ step[Server] \in Nat
  BY NodeFacts DEF TimeoutInv
<1>1. /\ pc'[c] = pc[c] /\ step'[c] = step[c] /\ value'[c] = value[c]
      /\ wait_requests'[c] = wait_requests[c] /\ toServer' = toServer
      /\ step'[Server] = step[Server] + 1
  BY <1>0 DEF ServerPass, TypeOK
<1>2. CASE c \notin connections
  <2>1. toClient'[c] = toClient[c] /\ FromServer(c)' = FromServer(c)
    BY <1>2 DEF ServerPass, FromServer
  <2>2. \A i \in FromServer(c) : toClient[c][i].round \in Nat
    BY <1>0, RoundFacts
  <2>3. InOrder(c)'
    BY <1>0, <1>1, <2>1, <2>2 DEF ClientInv, InOrder
  <2>4. Signed(c)'
    BY <1>0, <1>1 DEF ClientInv, Signed
  <2>5. step[Server] <= step'[Server]
    BY <1>0, <1>1
  <2> QED
    BY <1>0, <1>1, <2>1, <2>3, <2>4, <2>5, ElsewhereStep DEF ClientInv, Released
<1>3. CASE c \in connections
  <2> DEFINE k == Len(toClient[c])
             m == ReadyPacket(Server)
  <2>1. /\ toClient'[c] = Append(toClient[c], m) /\ toClient[c] \in Seq(Packet)
        /\ m.node = Server /\ m.round = step[Server] + 1
    BY <1>0, <1>3 DEF ServerPass, TypeOK, ReadyPacket
  <2>2. /\ k \in Nat /\ toClient'[c][k + 1] = m
        /\ DOMAIN toClient'[c] = 1..(k + 1) /\ DOMAIN toClient[c] = 1..k
        /\ \A i \in 1..k : toClient'[c][i] = toClient[c][i]
    <3> HIDE DEF m
    <3> QED
      BY <2>1
  <2>3. FromServer(c) \subseteq 1..k
    BY <2>2 DEF FromServer
  <2>4. \A i \in FromServer(c)' : i = k + 1 \/ i \in FromServer(c)
    BY <2>2 DEF FromServer
  <2>5. /\ \A i \in FromServer(c) : /\ toClient[c][i].round \in Nat
                                    /\ toClient[c][i].round > step[c]
                                    /\ toClient[c][i].round <= step[Server]
        /\ step[c] <= step[Server]
    BY <1>0, RoundFacts DEF ClientInv, InOrder, NotAhead
  <2>6. InOrder(c)'
    <3>1. ASSUME NEW i \in FromServer(c)'
          PROVE  toClient'[c][i].round > step'[c] /\ toClient'[c][i].round <= step'[Server]
      <4>1. step'[c] = step[c] /\ step'[Server] = step[Server] + 1
        BY <1>0, <1>1
      <4>2. step[c] \in Nat /\ step[Server] \in Nat
        BY <1>0
      <4>3. CASE i = k + 1
        BY <2>1, <2>2, <2>5, <4>1, <4>2, <4>3
      <4>4. CASE i \in FromServer(c)
        <5>1. toClient'[c][i] = toClient[c][i]
          BY <2>2, <2>3, <4>4
        <5>2. /\ toClient[c][i].round \in Nat
              /\ toClient[c][i].round > step[c] /\ toClient[c][i].round <= step[Server]
          BY <2>5, <4>4
        <5> QED BY <4>1, <4>2, <5>1, <5>2
      <4> QED BY <2>4, <3>1, <4>3, <4>4
    <3>2. ASSUME NEW i \in FromServer(c)', NEW j \in FromServer(c)', i < j
          PROVE  toClient'[c][i].round < toClient'[c][j].round
      <4>1. i \in FromServer(c)
        BY <2>2, <2>3, <2>4, <3>2
      <4>2. CASE j = k + 1
        BY <1>0, <2>1, <2>2, <2>3, <2>5, <4>1, <4>2
      <4>3. CASE j \in FromServer(c)
        BY <1>0, <2>2, <2>3, <3>2, <4>1, <4>3 DEF ClientInv, InOrder
      <4> QED
        BY <2>4, <4>2, <4>3
    <3> QED
      BY <3>1, <3>2 DEF InOrder
  <2>7. Satisfied(c) => \A i \in FromServer(c)' : toClient'[c][i].round > step[c] + 1
    <3>1. Satisfied(c) => /\ step[c] + 1 <= step[Server]
                          /\ \A i \in FromServer(c) : toClient[c][i].round > step[c] + 1
      BY <1>0 DEF ClientInv, Released
    <3> QED
      BY <1>0, <2>1, <2>2, <2>3, <2>4, <3>1
  <2>8. Signed(c)' /\ step[Server] <= step'[Server]
    BY <1>0, <1>1 DEF ClientInv, Signed
  <2> QED
    BY <1>0, <1>1, <2>6, <2>7, <2>8, ElsewhereStep
<1> QED
  BY <1>2, <1>3

\* The server relays a packet that another client has signed.
LEMMA RelayInv ==
    ASSUME TimeoutInv, TypeOK', NEW d \in Client, ServerReceive(d), NEW c \in Client
    PROVE  ClientInv(c)'
<1> DEFINE m == Head(toServer[d])
<1>0. /\ TypeOK /\ ClientInv(c) /\ ClientInv(d) /\ c \in Node /\ c # Server
      /\ Server \in Node /\ d \in Node /\ d # Server
      /\ step[Server] \in Nat /\ toServer[d] \in Seq(Packet) /\ toServer[d] # <<>>
  BY NodeFacts DEF TimeoutInv, ServerReceive, TypeOK
<1>1. /\ pc'[c] = pc[c] /\ step' = step /\ value'[c] = value[c]
      /\ wait_requests'[c] = wait_requests[c]
  BY <1>0 DEF ServerReceive, TypeOK
<1>2. m \in Packet /\ m.node = d
  <2>1. m = toServer[d][1] /\ 1 \in DOMAIN toServer[d] /\ m \in Packet
    BY <1>0
  <2> QED
    BY <1>0, <2>1 DEF ClientInv, Signed
<1>3. toServer'[c] = toServer[c] \/ (c = d /\ toServer'[c] = Tail(toServer[c]))
  BY <1>0 DEF ServerReceive, TypeOK
<1>4. toClient'[c] = toClient[c] \/ toClient'[c] = Append(toClient[c], m)
  BY <1>0 DEF ServerReceive, TypeOK
<1>5. CASE toClient'[c] = toClient[c]
  BY <1>0, <1>1, <1>3, <1>5, QuietStep
<1>6. CASE toClient'[c] = Append(toClient[c], m)
  <2>1. /\ FromServer(c)' = FromServer(c)
        /\ \A i \in FromServer(c) : toClient'[c][i] = toClient[c][i]
    BY <1>0, <1>2, <1>6, RelayedPacket
  <2>2. InOrder(c)'
    BY <1>0, <1>1, <2>1 DEF ClientInv, InOrder
  <2>3. Signed(c)'
    <3>1. CASE toServer'[c] = toServer[c]
      BY <1>0, <3>1 DEF ClientInv, Signed
    <3>2. CASE c = d /\ toServer'[c] = Tail(toServer[c])
      BY <1>0, <3>2 DEF ClientInv, Signed
    <3> QED
      BY <1>3, <3>1, <3>2
  <2>4. Satisfied(c) => \A i \in FromServer(c)' : toClient'[c][i].round > step[c] + 1
    BY <1>0, <2>1 DEF ClientInv, Released
  <2> QED
    BY <1>0, <1>1, <2>2, <2>3, <2>4, ElsewhereStep
<1> QED
  BY <1>4, <1>5, <1>6

\* A client reads a packet: a relayed one changes nothing; the server's may end the
\* wait the client is in, which it then does with the data of that point or a later one.
LEMMA ReceiveInv ==
    ASSUME TimeoutInv, TypeOK', NEW c \in Client, ClientReceive(c)
    PROVE  ClientInv(c)'
<1> DEFINE m == Head(toClient[c])
<1>0. /\ TypeOK /\ ClientInv(c) /\ c \in Node /\ c # Server
      /\ Server \in Node /\ step[c] \in Nat /\ step[Server] \in Nat
      /\ toClient[c] \in Seq(Packet) /\ toClient[c] # <<>>
  BY NodeFacts DEF TimeoutInv, ClientReceive, TypeOK
<1>1. /\ pc' = pc /\ step' = step /\ toServer' = toServer
      /\ toClient'[c] = Tail(toClient[c])
      /\ wait_requests'[c] = ClientCounted(wait_requests[c], m)
      /\ m.node = Server /\ m.id \in Payload =>
             value'[c] = [value[c] EXCEPT ![m.id] = [by |-> Server, round |-> m.round]]
      /\ ~(m.node = Server /\ m.id \in Payload) => value' = value
      /\ NextId(c)' = NextId(c)
  BY <1>0 DEF ClientReceive, TypeOK, NextId
<1>2. /\ m \in Packet /\ m = toClient[c][1] /\ 1 \in DOMAIN toClient[c]
      /\ \A i \in FromServer(c)' : /\ i + 1 \in FromServer(c) /\ i \in Nat /\ i # 0
                                   /\ toClient'[c][i] = toClient[c][i + 1]
  BY <1>0, <1>1 DEF FromServer
<1>3. InOrder(c)' /\ Signed(c)'
  <2>1. ASSUME NEW i \in FromServer(c)'
        PROVE  toClient'[c][i].round > step[c] /\ toClient'[c][i].round <= step[Server]
    BY <1>0, <1>2, <2>1 DEF ClientInv, InOrder
  <2>2. ASSUME NEW i \in FromServer(c)', NEW j \in FromServer(c)', i < j
        PROVE  toClient'[c][i].round < toClient'[c][j].round
    <3>1. /\ i + 1 \in FromServer(c) /\ j + 1 \in FromServer(c) /\ i + 1 < j + 1
          /\ toClient'[c][i] = toClient[c][i + 1] /\ toClient'[c][j] = toClient[c][j + 1]
      BY <1>2, <2>2
    <3> QED
      BY <1>0, <3>1 DEF ClientInv, InOrder
  <2>3. InOrder(c)'
    BY <1>1, <2>1, <2>2 DEF InOrder
  <2> QED
    BY <1>0, <1>1, <2>3 DEF ClientInv, Signed
<1>4. CASE m.node # Server
  <2>1. wait_requests'[c] = wait_requests[c] /\ value' = value
    BY <1>1, <1>4 DEF ClientCounted
  <2>2. Satisfied(c) => \A i \in FromServer(c)' : toClient'[c][i].round > step[c] + 1
    BY <1>0, <1>2 DEF ClientInv, Released
  <2>3. step[Server] <= step'[Server]
    BY <1>0, <1>1
  <2> HIDE DEF m
  <2> QED
    BY <1>0, <1>1, <1>3, <2>1, <2>2, <2>3, ElsewhereStep
<1>5. CASE m.node = Server
  <2>1. /\ 1 \in FromServer(c) /\ m.round \in Nat
        /\ m.round > step[c] /\ m.round <= step[Server]
        /\ m.id \in MessageID
    <3>1. 1 \in FromServer(c)
      BY <1>2, <1>5 DEF FromServer
    <3>2. m.round \in Nat
      BY <1>0, <1>2, <3>1, RoundFacts
    <3> QED
      BY <1>0, <1>2, <3>1, <3>2 DEF ClientInv, InOrder, Packet
  <2>2. \A i \in FromServer(c)' : toClient'[c][i].round > m.round /\ toClient'[c][i].round \in Nat
    <3>1. ASSUME NEW i \in FromServer(c)'
          PROVE  toClient'[c][i].round > m.round /\ toClient'[c][i].round \in Nat
      <4>1. /\ i + 1 \in FromServer(c) /\ 1 < i + 1
            /\ toClient'[c][i] = toClient[c][i + 1]
        BY <1>2, <3>1
      <4>2. toClient[c][1].round < toClient[c][i + 1].round
        BY <1>0, <2>1, <4>1 DEF ClientInv, InOrder
      <4>3. toClient[c][i + 1].round \in Nat
        BY <1>0, <4>1, RoundFacts
      <4> QED
        BY <1>2, <2>1, <4>1, <4>2, <4>3
    <3> QED
      BY <3>1
  <2>3. wait_requests[c] \in [MessageID -> Nat \cup {NoRequest}]
    BY <1>0 DEF TypeOK
  <2>4. OneRequest(c)'
    BY <1>0, <1>1, <2>1, <2>3 DEF ClientInv, OneRequest, ClientCounted
  <2>5. Released(c)'
    <3> SUFFICES ASSUME Satisfied(c)'
                 PROVE  /\ step[c] + 1 <= step[Server]
                        /\ \A i \in FromServer(c)' : toClient'[c][i].round > step[c] + 1
                        /\ NextId(c) \in Payload =>
                               /\ value'[c][NextId(c)].by = Server
                               /\ value'[c][NextId(c)].round >= step[c] + 1
      BY <1>1 DEF Released
    <3>1. /\ step[c] + 1 <= step[Server]
          /\ \A i \in FromServer(c)' : toClient'[c][i].round > step[c] + 1
      BY <1>0, <2>1, <2>2
    <3>2. pc[c] = "wait" /\ NextId(c) \in MessageID
      BY <1>0, <1>1, NextFacts DEF Satisfied, TypeOK
    <3>3. value[c] \in [Payload -> Value]
      BY <1>0 DEF TypeOK
    <3>4. CASE NextId(c) = m.id
      <4>1. NextId(c) \in Payload =>
               value'[c][NextId(c)] = [by |-> Server, round |-> m.round]
        <5> HIDE DEF m
        <5> QED
          BY <1>1, <1>5, <3>3, <3>4
      <4> QED
        BY <1>0, <2>1, <3>1, <4>1
    <3>5. CASE NextId(c) # m.id
      <4>1. wait_requests'[c][NextId(c)] = wait_requests[c][NextId(c)]
        <5> HIDE DEF m
        <5> QED
          BY <1>1, <2>1, <2>3, <3>2, <3>5 DEF ClientCounted
      <4>2. Satisfied(c)
        BY <1>1, <3>2, <4>1 DEF Satisfied
      <4>3. NextId(c) \in Payload => value'[c][NextId(c)] = value[c][NextId(c)]
        <5> HIDE DEF m
        <5> QED
          BY <1>1, <3>3, <3>5
      <4> QED
        BY <1>0, <3>1, <4>2, <4>3 DEF ClientInv, Released
    <3> QED
      BY <3>4, <3>5
  <2>6. NotAhead(c)'
    <3> SUFFICES ASSUME pc[c] = "game", step[c] > 0, Script[step[c]] \in Payload
                 PROVE  /\ value'[c][Script[step[c]]].by = Server
                        /\ value'[c][Script[step[c]]].round >= step[c]
      BY <1>0, <1>1 DEF ClientInv, NotAhead
    <3>1. value[c] \in [Payload -> Value]
      BY <1>0 DEF TypeOK
    <3>2. \/ value'[c][Script[step[c]]] = value[c][Script[step[c]]]
          \/ value'[c][Script[step[c]]] = [by |-> Server, round |-> m.round]
      <4> HIDE DEF m
      <4> QED
        BY <1>1, <1>5, <3>1
    <3> QED
      BY <1>0, <2>1, <3>2 DEF ClientInv, NotAhead
  <2> QED
    BY <1>3, <2>4, <2>5, <2>6 DEF ClientInv
<1> QED
  BY <1>4, <1>5

\* A client's own steps.
LEMMA EnterInv ==
    ASSUME TimeoutInv, TypeOK', NEW c \in Client, ClientEnter(c)
    PROVE  ClientInv(c)'
<1>0. /\ TypeOK /\ ClientInv(c) /\ c \in Node /\ c # Server
      /\ Server \in Node /\ step[c] \in Nat /\ step[Server] \in Nat
      /\ NextId(c) \in MessageID
  BY NodeFacts, NextFacts DEF TimeoutInv, ClientEnter
<1>1. /\ pc'[c] = "wait" /\ step' = step /\ toClient' = toClient
      /\ wait_requests'[c] = Opened(wait_requests[c], NextId(c))
      /\ NextId(c)' = NextId(c) /\ pc[c] = "game"
  BY <1>0 DEF ClientEnter, TypeOK, NextId
<1>2. \A id \in MessageID : wait_requests[c][id] = NoRequest
  BY <1>0, <1>1 DEF ClientInv, OneRequest
<1>3. OneRequest(c)' /\ wait_requests'[c][NextId(c)] = 0
  BY <1>0, <1>1, <1>2 DEF OneRequest, Opened, NoRequest, TypeOK
<1>4. Signed(c)'
  <2>1. toServer'[c] = toServer[c] \/ toServer'[c] = Append(toServer[c], ReadyPacket(c))
    BY DEF ClientEnter, TypeOK
  <2>2. CASE toServer'[c] = Append(toServer[c], ReadyPacket(c))
    <3>1. /\ toServer[c] \in Seq(Packet) /\ ReadyPacket(c) \in Packet
          /\ ReadyPacket(c).node = c
      BY <1>0, NextFacts DEF TypeOK, ReadyPacket, ClientEnter
    <3>2. \A i \in DOMAIN toServer'[c] :
              \/ i \in DOMAIN toServer[c] /\ toServer'[c][i] = toServer[c][i]
              \/ toServer'[c][i] = ReadyPacket(c)
      BY <2>2, <3>1
    <3> QED
      BY <1>0, <3>1, <3>2 DEF ClientInv, Signed
  <2> QED
    BY <1>0, <2>1, <2>2 DEF ClientInv, Signed
<1>5. InOrder(c)'
  BY <1>0, <1>1 DEF ClientInv, InOrder, FromServer
<1>6. Released(c)' /\ NotAhead(c)'
  BY <1>0, <1>1, <1>3 DEF ClientInv, Released, Satisfied, NotAhead
<1> QED
  BY <1>3, <1>4, <1>5, <1>6 DEF ClientInv

LEMMA LeaveInv ==
    ASSUME TimeoutInv, TypeOK', NEW c \in Client, ClientPass(c)
    PROVE  ClientInv(c)'
<1>0. /\ TypeOK /\ ClientInv(c) /\ c \in Node /\ c # Server
      /\ Server \in Node /\ step[c] \in Nat /\ step[Server] \in Nat
      /\ NextId(c) \in MessageID /\ Satisfied(c)
  BY NodeFacts, NextFacts DEF TimeoutInv, ClientPass, TypeOK, Satisfied
<1>1. /\ pc'[c] = "game" /\ step'[c] = step[c] + 1 /\ step'[Server] = step[Server]
      /\ toClient' = toClient /\ toServer' = toServer /\ value' = value
      /\ wait_requests'[c] = Erased(wait_requests[c], NextId(c))
  BY <1>0 DEF ClientPass, TypeOK
<1>2. /\ step[c] + 1 <= step[Server]
      /\ \A i \in FromServer(c) : toClient[c][i].round > step[c] + 1
      /\ NextId(c) \in Payload => /\ value[c][NextId(c)].by = Server
                                  /\ value[c][NextId(c)].round >= step[c] + 1
  BY <1>0 DEF ClientInv, Released
<1>3. InOrder(c)' /\ Signed(c)'
  BY <1>0, <1>1, <1>2 DEF ClientInv, InOrder, Signed, FromServer
<1>4. OneRequest(c)'
  BY <1>0, <1>1 DEF ClientInv, OneRequest, Erased, TypeOK
<1>5. NotAhead(c)'
  BY <1>1, <1>2 DEF NotAhead, NextId
<1>6. Released(c)'
  BY <1>1 DEF Released, Satisfied
<1> QED
  BY <1>3, <1>4, <1>5, <1>6 DEF ClientInv

\* A client that has given up is past nothing any more.
LEMMA GiveUpInv ==
    ASSUME TimeoutInv, TypeOK', NEW c \in Client, ClientTimeout(c)
    PROVE  ClientInv(c)'
<1>0. TypeOK /\ ClientInv(c) /\ c \in Node
  BY NodeFacts DEF TimeoutInv
<1>1. /\ pc'[c] = "offline" /\ step' = step /\ toServer' = toServer /\ toClient'[c] = <<>>
      /\ wait_requests'[c] = NoRequests
  BY <1>0 DEF ClientTimeout, TypeOK
<1>2. FromServer(c)' = {}
  BY <1>1 DEF FromServer
<1> QED
  BY <1>0, <1>1, <1>2
  DEF ClientInv, InOrder, Signed, OneRequest, NoRequests, Released, Satisfied, NotAhead

\* Any other step leaves the client alone, but for the packets the server takes off it
\* when it drops it.
LEMMA OtherInv ==
    ASSUME TimeoutInv, TypeOK', NEW c \in Client,
           \/ ServerEnter
           \/ \E d \in Client \ {c} :
                  ClientEnter(d) \/ ClientPass(d) \/ ClientReceive(d) \/ ClientTimeout(d)
           \/ \E gone \in (SUBSET Mortal) \ {{}} : ServerTimeout(gone)
           \/ UNCHANGED vars
    PROVE  ClientInv(c)'
<1>0. /\ TypeOK /\ ClientInv(c) /\ c \in Node /\ c # Server /\ Server \in Node
  BY NodeFacts DEF TimeoutInv
<1>1. CASE ServerEnter
  <2>1. /\ pc'[c] = pc[c] /\ step' = step /\ value'[c] = value[c]
        /\ wait_requests'[c] = wait_requests[c]
        /\ toClient' = toClient /\ toServer' = toServer
    BY <1>0, <1>1 DEF ServerEnter, TypeOK
  <2> QED
    BY <1>0, <2>1, QuietStep
<1>2. ASSUME NEW d \in Client \ {c},
             ClientEnter(d) \/ ClientPass(d) \/ ClientReceive(d) \/ ClientTimeout(d)
      PROVE  ClientInv(c)'
  <2>1. d \in Node /\ d # c /\ d # Server
    BY <1>0, <1>2, NodeFacts
  <2>2. /\ pc'[c] = pc[c] /\ step'[c] = step[c] /\ step'[Server] = step[Server]
        /\ value'[c] = value[c] /\ wait_requests'[c] = wait_requests[c]
        /\ toClient'[c] = toClient[c] /\ toServer'[c] = toServer[c]
    <3>1. CASE ClientEnter(d)
      BY <1>0, <2>1, <3>1 DEF ClientEnter, TypeOK
    <3>2. CASE ClientPass(d)
      BY <1>0, <2>1, <3>2 DEF ClientPass, TypeOK
    <3>3. CASE ClientReceive(d)
      BY <1>0, <2>1, <3>3 DEF ClientReceive, TypeOK
    <3>4. CASE ClientTimeout(d)
      BY <1>0, <2>1, <3>4 DEF ClientTimeout, TypeOK
    <3> QED
      BY <1>2, <3>1, <3>2, <3>3, <3>4
  <2> QED
    BY <1>0, <2>2, QuietStep
<1>3. ASSUME NEW gone \in (SUBSET Mortal) \ {{}}, ServerTimeout(gone) PROVE ClientInv(c)'
  <2>1. /\ pc'[c] = pc[c] /\ step' = step /\ value' = value
        /\ wait_requests'[c] = wait_requests[c] /\ toClient' = toClient
        /\ toServer'[c] \in {toServer[c], <<>>}
    BY <1>0, <1>3 DEF ServerTimeout, TypeOK
  <2> QED
    BY <1>0, <2>1, QuietStep
<1>4. CASE UNCHANGED vars
  BY <1>0, <1>4, QuietStep DEF vars
<1> QED
  BY <1>1, <1>2, <1>3, <1>4

LEMMA TimeoutStep == TimeoutInv /\ [Next]_vars => TimeoutInv'
<1> SUFFICES ASSUME TimeoutInv, [Next]_vars PROVE TimeoutInv'
  OBVIOUS
<1>1. TypeOK'
  BY TypeStep DEF TimeoutInv
<1>2. ASSUME NEW c \in Client PROVE ClientInv(c)'
  <2>1. CASE ServerEnter \/ (\E gone \in (SUBSET Mortal) \ {{}} : ServerTimeout(gone))
             \/ Done \/ UNCHANGED vars
    BY <1>1, <2>1, OtherInv DEF Done
  <2>2. CASE ServerPass
    BY <1>1, <2>2, PassInv
  <2>3. ASSUME NEW d \in Client, ClientEnter(d) \/ ClientPass(d) \/ ClientReceive(d)
        PROVE  ClientInv(c)'
    BY <1>1, <2>3, EnterInv, LeaveInv, ReceiveInv, OtherInv
  <2>4. ASSUME NEW d \in Client, ServerReceive(d) PROVE ClientInv(c)'
    BY <1>1, <2>4, RelayInv
  <2>5. ASSUME NEW d \in Mortal, ClientTimeout(d) PROVE ClientInv(c)'
    BY <1>1, <2>5, MortalAssumption, GiveUpInv, OtherInv
  <2> QED
    BY <2>1, <2>2, <2>3, <2>4, <2>5 DEF Next
<1> QED
  BY <1>1, <1>2 DEF TimeoutInv

\* Whoever times out, in whatever order: no client is past the server, and who goes on
\* does so with the server's data of that point or a later one.
THEOREM NeverAheadHolds == Spec => []NeverAhead
<1>1. TimeoutInv => NeverAhead
  BY DEF TimeoutInv, ClientInv, NotAhead, NeverAhead
<1> QED
  BY TimeoutInit, TimeoutStep, <1>1, PTL DEF Spec

-----------------------------------------------------------------------------
(* The barrier in time is a barrier: silence makes a connection time out   *)
(* only where ReadyBarrier lets it.  Any client may fall silent, as its    *)
(* keep-alives may be lost, hence Mortal = Client.                         *)

LEMMA TimedStep ==
    ASSUME Mortal = Client, TypeOK, [TimedNext]_timedVars
    PROVE  [Next]_vars
<1>1. CASE Runs(Server, ServerEnter) \/ Runs(Server, ServerPass)
  BY <1>1 DEF Runs, Next
<1>2. ASSUME NEW c \in Client,
             \/ Runs(c, ClientEnter(c)) \/ Runs(c, ClientPass(c)) \/ Runs(c, ClientReceive(c))
             \/ Runs(Server, ServerReceive(c))
             \/ Runs(c, Expired(c) /\ ClientTimeout(c))
      PROVE  Next
  BY <1>2 DEF Runs, Next
<1>3. CASE Runs(Server, Expired(Server) /\ ServerTimeout(SilentClients))
  <2>1. SilentClients \in SUBSET Mortal
    BY DEF SilentClients, TypeOK
  <2>2. SilentClients # {}
    BY <1>3 DEF Runs, Expired
  <2> QED
    BY <1>3, <2>1, <2>2 DEF Runs, Next
<1>4. CASE Tick \/ (\E n \in Node : Crash(n)) \/ UNCHANGED timedVars
  BY <1>4 DEF Tick, Crash, timedVars
<1> QED
  BY <1>1, <1>2, <1>3, <1>4 DEF TimedNext

\* Every behaviour in time is one of the barrier whose clients may time out.
THEOREM TimedBarrier == Mortal = Client => (TimedSpec => Init /\ [][Next]_vars)
<1> SUFFICES ASSUME Mortal = Client PROVE TimedSpec => Init /\ [][Next]_vars
  OBVIOUS
<1>1. TimedInit => Init /\ TypeOK
  BY TypeInit DEF TimedInit
<1>2. TypeOK /\ [TimedNext]_timedVars => TypeOK' /\ [Next]_vars
  BY TimedStep, TypeStep
<1> QED
  BY <1>1, <1>2, PTL DEF TimedSpec

\* So nobody is ahead of the server, whoever crashes and whatever is lost.
THEOREM TimedNeverAhead == Mortal = Client => (TimedSpec => [](TypeOK /\ NeverAhead))
<1> SUFFICES ASSUME Mortal = Client PROVE TimedSpec => [](TypeOK /\ NeverAhead)
  OBVIOUS
<1>1. TimeoutInv => TypeOK /\ NeverAhead
  BY DEF TimeoutInv, ClientInv, NotAhead, NeverAhead
<1> QED
  BY TimedBarrier, TimeoutInit, TimeoutStep, <1>1, PTL

=============================================================================
