----------------------------- MODULE SessionProofs -----------------------------
(***************************************************************************)
(* What a client keeps and gives back with its sessions, for any number of *)
(* clients, connections and restarts.                                      *)
(***************************************************************************)
EXTENDS Session, Induction, SequenceTheorems, TLAPS

Where == {"idle", "handshake", "rest", "crashed"}

\* The types of what the proofs speak of.
ClientTypes ==
    /\ pc \in [Player -> Where]
    /\ hooks \in [Player -> Int]
    /\ settings \in [Player -> Player]
    /\ serial \in [Client -> Nat]
    /\ online \in [Client -> BOOLEAN]
    /\ player_num = [c \in Client |-> player_num[c]]
    /\ own_pad = [c \in Client |-> own_pad[c]]

\* Who is in a handshake, or has no number, is in no session.
Outside(c) ==
    /\ pc[c] = "handshake" => ~online[c]
    /\ ~online[c] => player_num[c] = -1

\* Until the first session the controllers are where they were.
Untouched(c) ==
    /\ serial[c] = 0 => ~online[c] /\ own_pad[c] = 0 /\ pc[c] # "handshake"
    /\ serial[c] = 1 /\ pc[c] = "handshake" => own_pad[c] = 0
    /\ serial[c] = 1 /\ online[c] => own_pad[c] = player_num[c]

\* What the session has put in place is there exactly as long as the session.
Follows(c) ==
    /\ settings[c] = IF online[c] THEN Host ELSE c
    /\ hooks[c] = IF online[c] THEN 1 ELSE 0

ClientOK(c) == Outside(c) /\ Untouched(c) /\ Follows(c)

\* The inductive invariant.
SessionInv == ClientTypes /\ \A c \in Client : ClientOK(c)

LEMMA PlayerFacts ==
    /\ Host \in Player /\ Client \subseteq Player
    /\ \A c \in Client : c # Host
BY PlayerAssumption DEF Player

LEMMA SessionInit == Init => SessionInv
<1> SUFFICES ASSUME Init PROVE SessionInv
  OBVIOUS
<1>1. ClientTypes
  BY PlayerFacts DEF Init, ClientTypes, Where
<1>2. ASSUME NEW c \in Client PROVE ClientOK(c)
  BY PlayerFacts DEF Init, ClientOK, Outside, Untouched, Follows
<1> QED
  BY <1>1, <1>2 DEF SessionInv

\* What a step does not touch stays right.
LEMMA Unconcerned ==
    ASSUME SessionInv, NEW c \in Client,
           settings'[c] = settings[c], hooks'[c] = hooks[c], online'[c] = online[c],
           pc'[c] = pc[c], player_num'[c] = player_num[c], serial'[c] = serial[c],
           own_pad'[c] = own_pad[c]
    PROVE  ClientOK(c)'
BY DEF SessionInv, ClientOK, Outside, Untouched, Follows

\* The host changes its own hooks and its own place in the frame only.
LEMMA HostStepInv == SessionInv /\ HostStep => SessionInv'
<1> SUFFICES ASSUME SessionInv, HostStep PROVE SessionInv'
  OBVIOUS
<1> USE PlayerFacts
<1> DEFINE Elsewhere == /\ settings' = settings /\ clientVars' = clientVars
                        /\ hooks' \in [Player -> Int] /\ pc' \in [Player -> Where]
                        /\ \A c \in Client : hooks'[c] = hooks[c] /\ pc'[c] = pc[c]
<1>1. Elsewhere
  <2> USE DEF SessionInv, ClientTypes, Where
  <2>1. CASE HostListen \/ HostAccept \/ HostSkipConnect
    BY <2>1 DEF HostListen, HostAccept, HostSkipConnect
  <2>2. CASE HostHandshakeGood
    BY <2>2 DEF HostHandshakeGood, AfterConnect
  <2>3. CASE HostHandshakeBad
    BY <2>3 DEF HostHandshakeBad, AfterConnect
  <2>4. CASE HostLeaves
    BY <2>4 DEF HostLeaves, HostDisconnect, HooksRemoved
  <2>5. ASSUME NEW gone \in SUBSET keep_alive, HostRest(gone) PROVE Elsewhere
    <3>1. hooks' = hooks \/ hooks' = HooksRemoved(Host)
      BY <2>5 DEF HostRest, HostDisconnect
    <3>2. /\ settings' = settings /\ clientVars' = clientVars
          /\ pc' = [pc EXCEPT ![Host] = "idle"]
      BY <2>5 DEF HostRest
    <3> QED
      BY <3>1, <3>2 DEF HooksRemoved
  <2>6. CASE HostRestart
    BY <2>6 DEF HostRestart
  <2> QED
    BY <2>1, <2>2, <2>3, <2>4, <2>5, <2>6 DEF HostStep
<1>2. ClientTypes'
  BY <1>1 DEF SessionInv, ClientTypes, clientVars
<1>3. ASSUME NEW c \in Client PROVE ClientOK(c)'
  BY <1>1, Unconcerned DEF SessionInv, ClientTypes, clientVars
<1> QED
  BY <1>2, <1>3 DEF SessionInv

\* A client's step: nobody else's share changes.
LEMMA ClientStepInv ==
    ASSUME SessionInv, NEW d \in Client, ClientStep(d)
    PROVE  SessionInv'
<1> USE PlayerFacts
<1>0. d \in Player
  OBVIOUS
<1>1. /\ \A c \in Client \ {d} :
            /\ settings'[c] = settings[c] /\ hooks'[c] = hooks[c] /\ online'[c] = online[c]
            /\ pc'[c] = pc[c] /\ player_num'[c] = player_num[c] /\ serial'[c] = serial[c]
            /\ own_pad'[c] = own_pad[c]
      /\ ClientTypes'
      /\ ClientOK(d)'
  <2> USE DEF SessionInv, ClientTypes, Where
  <2> USE DEF ClientOK, Outside, Untouched, Follows
  <2>1. CASE ClientConnect(d)
    BY <1>0, <2>1 DEF ClientConnect
  <2>2. CASE ClientForgets(d)
    BY <1>0, <2>2 DEF ClientForgets
  <2>3. CASE ClientAccepted(d)
    <3> DEFINE number == Head(answers[d]).player
    <3>1. /\ pc[d] = "handshake" /\ ~online[d] /\ player_num[d] = -1
          /\ settings[d] = d /\ hooks[d] = 0 /\ serial[d] # 0
          /\ serial[d] = 1 => own_pad[d] = 0
      BY <1>0, <2>3 DEF ClientAccepted
    <3>2. /\ online' = [online EXCEPT ![d] = TRUE]
          /\ player_num' = [player_num EXCEPT ![d] = number]
          /\ own_pad' = [own_pad EXCEPT ![d] = SwappedTo(@, player_num[d], number)]
          /\ settings' = [settings EXCEPT ![d] = Host]
          /\ hooks' = [hooks EXCEPT ![d] = @ + 1]
          /\ pc' = [pc EXCEPT ![d] = "idle"]
          /\ serial' = serial
      BY <2>3 DEF ClientAccepted
    <3> HIDE DEF number
    <3>3. serial[d] = 1 => own_pad'[d] = number
      BY <3>1, <3>2 DEF SwappedTo, Swapped
    <3>4. ClientTypes'
      <4>1. (player_num = [c \in Client |-> player_num[c]])'
        BY <3>2
      <4>2. (own_pad = [c \in Client |-> own_pad[c]])'
        BY <3>2
      <4> QED
        BY <1>0, <3>1, <3>2, <4>1, <4>2
    <3>5. ClientOK(d)'
      BY <1>0, <3>1, <3>2, <3>3
    <3> QED
      BY <1>0, <3>2, <3>4, <3>5
  <2>4. CASE ClientRejected(d)
    BY <1>0, <2>4 DEF ClientRejected
  <2>5. CASE ClientAborts(d)
    BY <1>0, <2>5 DEF ClientAborts, clientVars
  <2>6. CASE ClientIgnores(d)
    BY <1>0, <2>6 DEF ClientIgnores, clientVars
  <2>7. CASE ClientDisconnect(d)
    <3>1. online[d] /\ hooks[d] = 1 /\ pc[d] = "idle"
      BY <1>0, <2>7 DEF ClientDisconnect
    <3>2. /\ online' = [online EXCEPT ![d] = FALSE]
          /\ player_num' = [player_num EXCEPT ![d] = -1]
          /\ settings' = [settings EXCEPT ![d] = d]
          /\ hooks' = [hooks EXCEPT ![d] = IF @ < 0 THEN @ ELSE @ - 1]
          /\ pc' = pc /\ serial' = serial /\ own_pad' = own_pad
      BY <2>7 DEF ClientDisconnect, SettingsRestored, HooksRemoved
    <3>3. ClientTypes'
      <4>1. (player_num = [c \in Client |-> player_num[c]])'
        BY <3>2
      <4> QED
        BY <1>0, <3>1, <3>2, <4>1
    <3>4. ClientOK(d)'
      BY <1>0, <3>1, <3>2
    <3> QED
      BY <1>0, <3>2, <3>3, <3>4
  <2> QED
    BY <2>1, <2>2, <2>3, <2>4, <2>5, <2>6, <2>7 DEF ClientStep
<1>2. ASSUME NEW c \in Client PROVE ClientOK(c)'
  BY <1>1, Unconcerned
<1> QED
  BY <1>1, <1>2 DEF SessionInv

LEMMA SessionStep == SessionInv /\ [Next]_vars => SessionInv'
<1> SUFFICES ASSUME SessionInv, [Next]_vars PROVE SessionInv'
  OBVIOUS
<1>1. CASE HostStep
  BY <1>1, HostStepInv
<1>2. CASE \E c \in Client : ClientStep(c)
  BY <1>2, ClientStepInv
<1>3. CASE (\E n \in Player : Navigate(n)) \/ UNCHANGED vars
  <2>1. pc' = pc /\ hooks' = hooks /\ settings' = settings /\ clientVars' = clientVars
    BY <1>3 DEF Navigate, vars
  <2>2. ClientTypes'
    BY <2>1 DEF SessionInv, ClientTypes, clientVars
  <2>3. ASSUME NEW c \in Client PROVE ClientOK(c)'
    BY <2>1, Unconcerned DEF clientVars
  <2> QED
    BY <2>2, <2>3 DEF SessionInv
<1> QED
  BY <1>1, <1>2, <1>3 DEF Next

LEMMA SessionGivesBack ==
    Spec => [](SettingsFollowTheSession /\ HooksFollowTheSession /\ OwnPadTheFirstTime)
<1>1. SessionInv =>
          SettingsFollowTheSession /\ HooksFollowTheSession /\ OwnPadTheFirstTime
  BY DEF SessionInv, ClientOK, Untouched, Follows,
         SettingsFollowTheSession, HooksFollowTheSession, OwnPadTheFirstTime
<1> QED
  BY SessionInit, SessionStep, <1>1, PTL DEF Spec

\* However sessions begin and end: a client plays by the host's settings in a session, and
\* has its own back outside.
THEOREM SettingsFollowTheSessionHolds == Spec => []SettingsFollowTheSession
BY SessionGivesBack, PTL

\* However sessions begin and end: a client has the hooks in place, and once, exactly
\* while it is in a session.
THEOREM HooksFollowTheSessionHolds == Spec => []HooksFollowTheSession
BY SessionGivesBack, PTL

\* In its first session, a client steers its own character.
THEOREM OwnPadTheFirstTimeHolds == Spec => []OwnPadTheFirstTime
BY SessionGivesBack, PTL

-----------------------------------------------------------------------------
(* The types.  What needs a proof is the search for a node, the loop that  *)
(* drops connections, and that the host is in a handshake with somebody.   *)

LEMMA MinOfNumbers ==
    ASSUME NEW S, S \subseteq Nat, S # {}
    PROVE  Min(S) \in S /\ \A y \in S : Min(S) <= y
<1>1. \E x \in S : \A y \in S : x =< y
  BY LeastNumber
<1> QED
  BY <1>1 DEF Min

\* The search finds the first entry with the node.
LEMMA FirstOfFacts ==
    ASSUME NEW cs \in Seq(Connection), NEW node \in NodesOf(cs)
    PROVE  /\ FirstOf(cs, node) \in 1..Len(cs)
           /\ cs[FirstOf(cs, node)].node = node
           /\ \A j \in 1..Len(cs) : cs[j].node = node => FirstOf(cs, node) <= j
<1> DEFINE S == {i \in DOMAIN cs : cs[i].node = node}
<1>1. DOMAIN cs = 1..Len(cs)
  OBVIOUS
<1>2. S # {} /\ S \subseteq Nat
  BY <1>1 DEF NodesOf
<1>3. Min(S) \in S /\ \A y \in S : Min(S) <= y
  <2> HIDE DEF S
  <2> QED
    BY <1>2, MinOfNumbers
<1> QED
  BY <1>1, <1>3 DEF FirstOf

LEMMA NodesAreFinite ==
    ASSUME NEW cs \in Seq(Connection)
    PROVE  NodesOf(cs) \subseteq Nat /\ IsFiniteSet(NodesOf(cs))
<1>1. DOMAIN cs = 1..Len(cs) /\ IsFiniteSet(1..Len(cs))
  BY FS_Interval
<1> DEFINE f == [i \in DOMAIN cs |-> cs[i].node]
<1>2. IsFiniteSet({f[i] : i \in DOMAIN cs})
  <2> HIDE DEF f
  <2>1. DOMAIN f = DOMAIN cs
    BY DEF f
  <2> QED
    BY <1>1, <2>1, FiniteRange
<1>3. {f[i] : i \in DOMAIN cs} = NodesOf(cs)
  BY DEF NodesOf
<1>4. ASSUME NEW i \in DOMAIN cs PROVE cs[i].node \in Nat
  <2>1. cs[i] \in Connection
    BY <1>1
  <2> QED
    BY <2>1 DEF Connection
<1>5. NodesOf(cs) \subseteq Nat
  BY <1>4 DEF NodesOf
<1> QED
  BY <1>2, <1>3, <1>5

\* r is what is left of cs when some entries are taken out.
Left(cs) ==
    {r \in Seq(Connection) :
        \E g \in [1..Len(r) -> 1..Len(cs)] :
            /\ \A i \in 1..Len(r) : r[i] = cs[g[i]]
            /\ \A i, j \in 1..Len(r) : i < j => g[i] < g[j]}

LEMMA LeftAll ==
    ASSUME NEW cs \in Seq(Connection)
    PROVE  cs \in Left(cs)
<1> DEFINE g == [i \in 1..Len(cs) |-> i]
<1>1. g \in [1..Len(cs) -> 1..Len(cs)]
  OBVIOUS
<1> QED
  BY <1>1 DEF Left

LEMMA RemoveAtIndexFacts ==
    ASSUME NEW cs \in Seq(Connection), NEW i \in 1..Len(cs)
    PROVE  /\ RemoveAtIndex(cs, i) \in Seq(Connection)
           /\ Len(RemoveAtIndex(cs, i)) = Len(cs) - 1
           /\ \A k \in 1..Len(cs) - 1 :
                  RemoveAtIndex(cs, i)[k] = IF k < i THEN cs[k] ELSE cs[k + 1]
<1> DEFINE a == SubSeq(cs, 1, i - 1)
           b == SubSeq(cs, i + 1, Len(cs))
<1>1. \A k \in 1..Len(cs) : cs[k] \in Connection
  OBVIOUS
<1>2. /\ a \in Seq(Connection) /\ Len(a) = i - 1
      /\ \A k \in 1..i - 1 : a[k] = cs[k]
  <2>1. \A k \in 1..i - 1 : cs[k] \in Connection
    BY <1>1
  <2>2. /\ SubSeq(cs, 1, i - 1) \in Seq(Connection)
        /\ Len(SubSeq(cs, 1, i - 1)) = IF 1 <= i - 1 THEN (i - 1) - 1 + 1 ELSE 0
        /\ \A k \in 1..(i - 1) - 1 + 1 : SubSeq(cs, 1, i - 1)[k] = cs[1 + k - 1]
    BY <2>1, SubSeqProperties
  <2> QED
    BY <2>2
<1>3. /\ b \in Seq(Connection) /\ Len(b) = Len(cs) - i
      /\ \A k \in 1..Len(cs) - i : b[k] = cs[i + k]
  <2>1. \A k \in i + 1..Len(cs) : cs[k] \in Connection
    BY <1>1
  <2>2. /\ SubSeq(cs, i + 1, Len(cs)) \in Seq(Connection)
        /\ Len(SubSeq(cs, i + 1, Len(cs))) =
               IF i + 1 <= Len(cs) THEN Len(cs) - (i + 1) + 1 ELSE 0
        /\ \A k \in 1..Len(cs) - (i + 1) + 1 :
               SubSeq(cs, i + 1, Len(cs))[k] = cs[(i + 1) + k - 1]
    BY <2>1, SubSeqProperties
  <2> QED
    BY <2>2
<1> HIDE DEF a, b
<1>4. /\ a \o b \in Seq(Connection) /\ Len(a \o b) = Len(a) + Len(b)
      /\ \A k \in 1..Len(a) + Len(b) :
             (a \o b)[k] = IF k <= Len(a) THEN a[k] ELSE b[k - Len(a)]
  BY <1>2, <1>3, ConcatProperties
<1>5. RemoveAtIndex(cs, i) = a \o b
  BY DEF RemoveAtIndex, a, b
<1>6. ASSUME NEW k \in 1..Len(cs) - 1
      PROVE  (a \o b)[k] = IF k < i THEN cs[k] ELSE cs[k + 1]
  <2>1. CASE k < i
    BY <1>2, <1>3, <1>4, <2>1
  <2>2. CASE ~(k < i)
    <3>1. k - Len(a) \in 1..Len(cs) - i /\ i + (k - Len(a)) = k + 1
      BY <1>2, <2>2
    <3> QED
      BY <1>2, <1>3, <1>4, <2>2, <3>1
  <2> QED
    BY <2>1, <2>2
<1>7. Len(a \o b) = Len(cs) - 1
  BY <1>2, <1>3, <1>4
<1> QED
  BY <1>4, <1>5, <1>6, <1>7

\* Dropping a node takes an entry out, or none.
LEMMA DroppedIsLeft ==
    ASSUME NEW cs \in Seq(Connection), NEW r \in Left(cs), NEW node
    PROVE  Dropped(r, node) \in Left(cs)
<1>1. r \in Seq(Connection)
  BY DEF Left
<1>2. PICK g \in [1..Len(r) -> 1..Len(cs)] :
          /\ \A i \in 1..Len(r) : r[i] = cs[g[i]]
          /\ \A i, j \in 1..Len(r) : i < j => g[i] < g[j]
  BY DEF Left
<1>3. CASE Len(r) = 1
  <2>1. <<>> \in Left(cs)
    <3> DEFINE none == [i \in 1..0 |-> 1]
    <3>1. <<>> \in Seq(Connection) /\ Len(<<>>) = 0 /\ \A i \in 1..0 : FALSE
      OBVIOUS
    <3>2. none \in [1..0 -> 1..Len(cs)]
      BY <3>1
    <3> HIDE DEF none
    <3>3. \E h \in [1..0 -> 1..Len(cs)] :
              /\ \A i \in 1..0 : <<>>[i] = cs[h[i]]
              /\ \A i, j \in 1..0 : i < j => h[i] < h[j]
      BY <3>1, <3>2
    <3> QED
      BY <3>1, <3>3 DEF Left
  <2> QED
    BY <1>3, <2>1 DEF Dropped
<1>4. CASE Len(r) # 1 /\ node \in NodesOf(r)
  <2> DEFINE i == FirstOf(r, node)
             s == RemoveAtIndex(r, i)
  <2>1. i \in 1..Len(r)
    BY <1>1, <1>4, FirstOfFacts
  <2> HIDE DEF i
  <2>2. /\ s \in Seq(Connection) /\ Len(s) = Len(r) - 1
        /\ \A k \in 1..Len(r) - 1 : s[k] = IF k < i THEN r[k] ELSE r[k + 1]
    BY <1>1, <2>1, RemoveAtIndexFacts
  <2>3. Dropped(r, node) = s
    BY <1>4 DEF Dropped, i
  <2> HIDE DEF s
  <2> DEFINE h == [k \in 1..Len(s) |-> IF k < i THEN g[k] ELSE g[k + 1]]
  <2>4. Len(r) \in Nat
    BY <1>1
  <2>5. h \in [1..Len(s) -> 1..Len(cs)]
    BY <1>2, <2>1, <2>2, <2>4
  <2>6. \A k \in 1..Len(s) : s[k] = cs[h[k]]
    BY <1>2, <2>1, <2>2, <2>4
  <2>7. \A k, l \in 1..Len(s) : k < l => h[k] < h[l]
    BY <1>2, <2>1, <2>2, <2>4
  <2> HIDE DEF h
  <2> QED
    BY <2>2, <2>3, <2>5, <2>6, <2>7 DEF Left
<1>5. CASE Len(r) # 1 /\ node \notin NodesOf(r)
  BY <1>5 DEF Dropped
<1> QED
  BY <1>3, <1>4, <1>5

\* Dropping a set of nodes one by one keeps what dropping one node keeps.
LEMMA DropAll ==
    ASSUME NEW gone, IsFiniteSet(gone), NEW V, NEW cs \in V,
           \A n \in gone, v \in V : Dropped(v, n) \in V
    PROVE  FoldSet(LAMBDA n, v : Dropped(v, n), cs, gone) \in V
<1> DEFINE first(s) == CHOOSE x \in s : TRUE
           pick == [s \in SUBSET gone |-> first(s)]
           step == [p \in gone \X V |-> Dropped(p[2], p[1])]
           Value(f, s) == IF s = {} THEN cs ELSE Dropped(f[s \ {first(s)}], first(s))
           Eq(f) == f = [s \in SUBSET gone |-> Value(f, s)]
<1>1. \A s \in SUBSET gone : s # {} => pick[s] = first(s) /\ first(s) \in s
  OBVIOUS
<1>2. step \in [gone \X V -> V]
  OBVIOUS
<1>3. \E iter \in [SUBSET gone -> V] : IsFold(iter, gone, cs, step, pick)
  <2> HIDE DEF pick, step, first
  <2>1. \A s \in SUBSET gone : s # {} => pick[s] \in s
    BY <1>1
  <2> QED
    BY <1>2, <2>1, FoldExists
<1>4. PICK iter \in [SUBSET gone -> V] : IsFold(iter, gone, cs, step, pick)
  BY <1>3
<1>5. Eq(iter)
  <2> HIDE DEF first
  <2>1. \A s \in SUBSET gone : iter[s] = Value(iter, s)
    BY <1>1, <1>4 DEF IsFold
  <2> HIDE DEF Value
  <2> QED
    BY <2>1
<1>6. FoldSet(LAMBDA n, v : Dropped(v, n), cs, gone) = (CHOOSE f : Eq(f))[gone]
  BY DEF FoldSet, MapThenFoldSet
<1>7. ASSUME NEW f, Eq(f) PROVE f[gone] \in V
  <2> DEFINE W == {s \in SUBSET gone : f[s] \in V}
  <2>1. \A s \in SUBSET gone : f[s] = Value(f, s)
    BY <1>7
  <2>2. ASSUME NEW s \in SUBSET gone, \A x \in s : s \ {x} \in W PROVE s \in W
    <3> HIDE DEF first
    <3>1. CASE s = {}
      BY <2>1, <3>1
    <3>2. CASE s # {}
      <4>1. /\ first(s) \in gone /\ f[s \ {first(s)}] \in V
            /\ f[s] = Dropped(f[s \ {first(s)}], first(s))
        BY <1>1, <2>1, <2>2, <3>2
      <4> QED
        BY <4>1
    <3> QED
      BY <3>1, <3>2
  <2>3. gone \in W
    <3> HIDE DEF W
    <3> QED
      BY <2>2, FiniteInduction
  <2> QED
    BY <2>3
<1> DEFINE f == CHOOSE g : Eq(g)
<1>8. Eq(f)
  <2> HIDE DEF Eq
  <2> QED
    BY <1>5
<1> HIDE DEF Eq, f
<1>9. f[gone] \in V
  BY <1>7, <1>8
<1> QED
  BY <1>6, <1>9 DEF f

LEMMA RestIsLeft ==
    ASSUME NEW cs \in Seq(Connection), NEW gone, IsFiniteSet(gone)
    PROVE  FoldSet(LAMBDA n, v : Dropped(v, n), cs, gone) \in Left(cs)
<1> DEFINE V == Left(cs)
<1>1. cs \in V
  BY LeftAll
<1>2. \A n \in gone, v \in V : Dropped(v, n) \in V
  BY DroppedIsLeft
<1> HIDE DEF V
<1>3. FoldSet(LAMBDA n, v : Dropped(v, n), cs, gone) \in V
  BY <1>1, <1>2, DropAll
<1> QED
  BY <1>3 DEF V

\* In a handshake there is somebody to shake hands with.
HasGuest == pc[Host] = "handshake" => connections # <<>>

TypeInv == TypeOK /\ IsFiniteSet(keep_alive) /\ HasGuest

\* connections once the last entry has its port.
Known ==
    LET new == connections[Len(connections)]
    IN  SetRemotePort(connections, new.node, TcpOf(new))

\* The entry the host answers has the node of the last one, and is the first that has.
LEMMA KnownFacts ==
    ASSUME TypeInv, pc[Host] = "handshake"
    PROVE  LET new == connections[Len(connections)]
               first == FirstOf(connections, new.node)
           IN  /\ Len(connections) \in 1..Len(connections) /\ new \in Connection
               /\ Known \in Seq(Connection) /\ Len(Known) = Len(connections)
               /\ \A i \in 1..Len(connections) :
                      /\ Known[i].node = connections[i].node
                      /\ Known[i].peer = connections[i].peer
                      /\ Known[i].serial = connections[i].serial
                      /\ Known[i].port = IF i = first THEN TcpOf(new)
                                                     ELSE connections[i].port
               /\ first \in 1..Len(connections) /\ connections[first].node = new.node
               /\ \A j \in 1..Len(connections) :
                      connections[j].node = new.node => first <= j
               /\ FirstOf(Known, new.node) = first
<1> DEFINE new == connections[Len(connections)]
           first == FirstOf(connections, new.node)
<1>1. connections \in Seq(Connection) /\ connections # <<>>
  BY DEF TypeInv, TypeOK, HasGuest
<1>2. Len(connections) \in 1..Len(connections) /\ new \in Connection
  BY <1>1
<1>3. new.node \in NodesOf(connections)
  BY <1>1, <1>2 DEF NodesOf
<1>4. /\ first \in 1..Len(connections) /\ connections[first].node = new.node
      /\ \A j \in 1..Len(connections) : connections[j].node = new.node => first <= j
  <2> HIDE DEF new
  <2> QED
    BY <1>1, <1>3, FirstOfFacts
<1> HIDE DEF first
<1>5. Known = [connections EXCEPT ![first] = [connections[first] EXCEPT !.port = TcpOf(new)]]
  BY DEF Known, SetRemotePort, first
<1>6. connections[first] \in Connection
  BY <1>1, <1>4
<1>7. [connections[first] EXCEPT !.port = TcpOf(new)] \in Connection
  <2> DEFINE told == TcpOf(new)
  <2>1. told \in Port
    BY <1>2 DEF Connection, TcpOf, Port
  <2> DEFINE old == connections[first]
  <2> HIDE DEF told
  <2>2. [old EXCEPT !.port = told]
            = [node |-> old.node, peer |-> old.peer, serial |-> old.serial, port |-> told]
    BY <1>6 DEF Connection
  <2>3. old.node \in Nat /\ old.peer \in Client /\ old.serial \in Nat
    BY <1>6 DEF Connection
  <2> QED
    BY <2>1, <2>2, <2>3 DEF Connection, told
<1>8. Known \in Seq(Connection) /\ Len(Known) = Len(connections)
  BY <1>1, <1>4, <1>5, <1>7, ExceptSeq
<1>9. ASSUME NEW i \in 1..Len(connections)
      PROVE  /\ Known[i].node = connections[i].node
             /\ Known[i].peer = connections[i].peer
             /\ Known[i].serial = connections[i].serial
             /\ Known[i].port = IF i = first THEN TcpOf(new) ELSE connections[i].port
  <2>1. CASE i = first
    <3>1. Known[i] = [connections[first] EXCEPT !.port = TcpOf(new)]
      BY <1>1, <1>4, <1>5, <2>1
    <3> QED
      BY <1>6, <2>1, <3>1 DEF Connection
  <2>2. CASE i # first
    BY <1>1, <1>5, <2>2
  <2> QED
    BY <2>1, <2>2
<1>10. FirstOf(Known, new.node) = first
  <2>1. DOMAIN Known = DOMAIN connections /\ DOMAIN Known = 1..Len(connections)
    BY <1>1, <1>8
  <2>2. {i \in DOMAIN Known : Known[i].node = new.node}
            = {i \in DOMAIN connections : connections[i].node = new.node}
    BY <1>9, <2>1
  <2> QED
    BY <2>2 DEF FirstOf, first
<1> QED
  BY <1>2, <1>4, <1>8, <1>9, <1>10 DEF first

LEMMA OneMoreAnswer ==
    ASSUME NEW A, NEW f \in [Client -> Seq(A)], NEW c \in Client, NEW a \in A
    PROVE  [f EXCEPT ![c] = Append(@, a)] \in [Client -> Seq(A)]
<1>1. Append(f[c], a) \in Seq(A)
  BY AppendProperties
<1> QED
  BY <1>1

LEMMA HostKeepsTypes == TypeInv /\ HostStep => TypeInv'
<1> SUFFICES ASSUME TypeInv, HostStep PROVE TypeInv'
  OBVIOUS
<1> USE PlayerFacts
<1>0. /\ TypeOK /\ HasGuest /\ connections \in Seq(Connection) /\ keep_alive \subseteq Nat
      /\ IsFiniteSet(keep_alive) /\ pc \in [Player -> Where] /\ hooks \in [Player -> Int]
  BY DEF TypeInv, TypeOK, Where
<1>closed. CloseAll => /\ connections' \in Seq(Connection) /\ bound' \in BOOLEAN
                       /\ backlog' \in Seq([peer : Client, serial : Nat])
  <2>1. \A S : <<>> \in Seq(S)
    BY EmptySeq
  <2> QED
    BY <2>1 DEF CloseAll
<1>off. /\ HooksRemoved(Host) \in [Player -> Int]
        /\ {} \subseteq Nat /\ IsFiniteSet({})
  BY <1>0, FS_EmptySet DEF HooksRemoved
<1>1. CASE HostListen
  BY <1>0, <1>1 DEF HostListen, TypeInv, TypeOK, HasGuest, clientVars
<1>2. CASE HostAccept
  <2> DEFINE new == NewConnection(connections, Head(backlog))
  <2>1. /\ backlog \in Seq([peer : Client, serial : Nat]) /\ backlog # <<>>
        /\ connections' = Append(connections, new)
        /\ backlog' = Tail(backlog)
    BY <1>0, <1>2 DEF HostAccept, TypeOK
  <2>2. /\ Head(backlog) \in [peer : Client, serial : Nat]
        /\ backlog' \in Seq([peer : Client, serial : Nat])
    <3> DEFINE Tcp == [peer : Client, serial : Nat]
    <3>1. backlog \in Seq(Tcp)
      BY <2>1
    <3> HIDE DEF Tcp
    <3>2. Head(backlog) \in Tcp /\ Tail(backlog) \in Seq(Tcp)
      BY <2>1, <3>1, HeadTailProperties
    <3> QED
      BY <2>1, <3>2 DEF Tcp
  <2>3. new \in Connection
    BY <1>0, <2>2 DEF NewConnection, Port, Connection
  <2>4. connections' \in Seq(Connection) /\ connections' # <<>>
    BY <1>0, <2>1, <2>3, AppendProperties
  <2> QED
    BY <1>0, <1>2, <2>2, <2>4
    DEF HostAccept, ThisThing, TypeInv, TypeOK, HasGuest, clientVars
<1>3. CASE HostSkipConnect
  BY <1>0, <1>3 DEF HostSkipConnect, TypeInv, TypeOK, HasGuest, clientVars, hostVars
<1>4. CASE HostHandshakeGood
  <2> DEFINE new == connections[Len(connections)]
             answer == [ok |-> TRUE, player |-> PlayerNumber(Known)]
             to == Known[FirstOf(Known, new.node)]
  <2>1. /\ connections' = Known /\ answers' = Answered(Known, new.node, answer)
        /\ keep_alive' = keep_alive \cup NodesOf(Known)
        /\ pc[Host] = "handshake"
    BY <1>4 DEF HostHandshakeGood, Known
  <2>2. /\ Known \in Seq(Connection) /\ to \in Connection
    BY <2>1, KnownFacts
  <2>3. answer \in [ok : BOOLEAN, player : Nat]
    BY <2>2 DEF PlayerNumber
  <2>4. to.peer \in Client
    BY <2>2 DEF Connection
  <2>5. answers' \in [Client -> Seq([ok : BOOLEAN, player : Nat])]
    <3> HIDE DEF answer
    <3>1. answers' = IF IsCurrent(to) THEN [answers EXCEPT ![to.peer] = Append(@, answer)]
                                      ELSE answers
      BY <2>1 DEF Answered
    <3>2. answers \in [Client -> Seq([ok : BOOLEAN, player : Nat])]
      BY <1>0 DEF TypeOK
    <3> HIDE DEF to
    <3> QED
      BY <2>3, <2>4, <3>1, <3>2, OneMoreAnswer
  <2>6. keep_alive' \subseteq Nat /\ IsFiniteSet(keep_alive')
    BY <1>0, <2>1, <2>2, NodesAreFinite, FS_Union
  <2>7. pc' \in [Player -> Where] /\ pc'[Host] # "handshake"
    BY <1>0, <1>4 DEF HostHandshakeGood, AfterConnect, Where
  <2>8. hooks' \in [Player -> Int]
    BY <1>0, <1>4 DEF HostHandshakeGood
  <2> QED
    BY <1>0, <1>4, <2>1, <2>2, <2>5, <2>6, <2>7, <2>8
    DEF HostHandshakeGood, TypeInv, TypeOK, HasGuest, clientVars, Where
<1>5. CASE HostHandshakeBad
  <2> DEFINE new == connections[Len(connections)]
             to == connections[FirstOf(connections, new.node)]
  <2>1. to \in Connection
    BY <1>0, <1>5, KnownFacts DEF HostHandshakeBad
  <2>2. to.peer \in Client
    BY <2>1 DEF Connection
  <2>3. answers' = Answered(connections, new.node, Mismatch)
    BY <1>5 DEF HostHandshakeBad
  <2>4. Mismatch \in [ok : BOOLEAN, player : Nat]
    BY DEF Mismatch
  <2>5. answers' \in [Client -> Seq([ok : BOOLEAN, player : Nat])]
    <3>1. answers' = IF IsCurrent(to) THEN [answers EXCEPT ![to.peer] = Append(@, Mismatch)]
                                      ELSE answers
      BY <2>3 DEF Answered
    <3>2. answers \in [Client -> Seq([ok : BOOLEAN, player : Nat])]
      BY <1>0 DEF TypeOK
    <3> HIDE DEF to
    <3> QED
      BY <2>2, <2>4, <3>1, <3>2, OneMoreAnswer
  <2>6. pc' \in [Player -> Where] /\ pc'[Host] # "handshake"
    BY <1>0, <1>5 DEF HostHandshakeBad, AfterConnect, Where
  <2> QED
    BY <1>0, <1>5, <1>closed, <2>5, <2>6
    DEF HostHandshakeBad, TypeInv, TypeOK, HasGuest, clientVars, Where
<1>6. CASE HostLeaves
  BY <1>0, <1>6, <1>closed, <1>off
  DEF HostLeaves, HostDisconnect, TypeInv, TypeOK, HasGuest, clientVars
<1>7. ASSUME NEW gone \in SUBSET keep_alive, HostRest(gone) PROVE TypeInv'
  <2> DEFINE rest == FoldSet(LAMBDA n, cs : Dropped(cs, n), connections, gone)
  <2>1. CASE HostDisconnect
    <3>1. UNCHANGED <<screen, settings, host, resume, restarts, clientVars, answers>>
      BY <1>7 DEF HostRest
    <3>2. pc' = [pc EXCEPT ![Host] = "idle"]
      BY <1>7 DEF HostRest
    <3> QED
      BY <1>0, <1>closed, <1>off, <2>1, <3>1, <3>2
      DEF HostDisconnect, TypeInv, TypeOK, HasGuest, clientVars
  <2>2. CASE ~HostDisconnect
    <3>0. UNCHANGED <<screen, settings, host, resume, restarts, clientVars, answers>>
      BY <1>7 DEF HostRest
    <3>1. /\ connections' = rest
          /\ keep_alive' = keep_alive \ gone
          /\ UNCHANGED <<bound, backlog, hooks>>
          /\ pc' = [pc EXCEPT ![Host] = "idle"]
      BY <1>7, <2>2 DEF HostRest
    <3>2. IsFiniteSet(gone)
      BY <1>0, FS_Subset
    <3>3. rest \in Seq(Connection)
      BY <1>0, <3>2, RestIsLeft DEF Left
    <3>4. keep_alive' \subseteq Nat /\ IsFiniteSet(keep_alive')
      BY <1>0, <3>1, FS_Difference
    <3> HIDE DEF rest
    <3> QED
      BY <1>0, <3>0, <3>1, <3>3, <3>4
      DEF TypeInv, TypeOK, HasGuest, clientVars, Where
  <2> QED
    BY <2>1, <2>2
<1>8. CASE HostRestart
  <2>1. /\ UNCHANGED <<settings, clientVars, answers>>
        /\ host' = FALSE /\ resume' = FALSE /\ keep_alive' = {}
        /\ CloseAll /\ pc' = [pc EXCEPT ![Host] = "idle"]
    BY <1>8 DEF HostRestart
  <2>2. restarts' \in 0..MaxRestarts
    BY <1>0, <1>8, PlayerAssumption DEF HostRestart, TypeOK
  <2>3. screen' \in [Player -> Screen]
    BY <1>0, <1>8 DEF HostRestart, TypeOK, Screen
  <2>4. hooks' \in [Player -> Int]
    BY <1>0, <1>8 DEF HostRestart
  <2> QED
    BY <1>0, <1>closed, <1>off, <2>1, <2>2, <2>3, <2>4
    DEF TypeInv, TypeOK, HasGuest, clientVars
<1> QED
  BY <1>1, <1>2, <1>3, <1>4, <1>5, <1>6, <1>7, <1>8 DEF HostStep

LEMMA ClientKeepsTypes ==
    ASSUME TypeInv, NEW d \in Client, ClientStep(d)
    PROVE  TypeInv'
<1> USE PlayerFacts
<1>0. /\ TypeOK /\ HasGuest /\ d \in Player /\ d # Host /\ pc \in [Player -> Where]
      /\ hooks \in [Player -> Int] /\ settings \in [Player -> Player]
      /\ answers \in [Client -> Seq([ok : BOOLEAN, player : Nat])]
  BY DEF TypeInv, TypeOK, Where
<1>1. ASSUME UNCHANGED <<screen, hostVars>>,
             pc' \in [Player -> Where], pc'[Host] = pc[Host],
             hooks' \in [Player -> Int], settings' \in [Player -> Player],
             backlog' \in Seq([peer : Client, serial : Nat]),
             serial' \in [Client -> 0..MaxConnects],
             answers' \in [Client -> Seq([ok : BOOLEAN, player : Nat])],
             online' \in [Client -> BOOLEAN], player_num' \in [Client -> Int],
             own_pad' \in [Client -> Nat], rejected' \in [Client -> BOOLEAN]
      PROVE  TypeInv'
  BY <1>1 DEF TypeInv, TypeOK, HasGuest, hostVars, Where
<1>2. \A S : <<>> \in Seq(S)
  BY EmptySeq
<1>3. [answers EXCEPT ![d] = <<>>] \in [Client -> Seq([ok : BOOLEAN, player : Nat])]
  BY <1>0, <1>2
<1>4. answers[d] # <<>> =>
          /\ Head(answers[d]).player \in Nat
          /\ [answers EXCEPT ![d] = Tail(@)]
                 \in [Client -> Seq([ok : BOOLEAN, player : Nat])]
  <2> DEFINE Answer == [ok : BOOLEAN, player : Nat]
  <2> SUFFICES ASSUME answers[d] # <<>>
               PROVE  /\ Head(answers[d]).player \in Nat
                      /\ [answers EXCEPT ![d] = Tail(@)] \in [Client -> Seq(Answer)]
    OBVIOUS
  <2> HIDE DEF Answer
  <2>1. answers \in [Client -> Seq(Answer)]
    BY <1>0 DEF Answer
  <2>2. Head(answers[d]) \in Answer /\ Tail(answers[d]) \in Seq(Answer)
    BY <2>1, HeadTailProperties
  <2>3. Head(answers[d]).player \in Nat
    BY <2>2 DEF Answer
  <2> QED
    BY <2>1, <2>2, <2>3
<1>5. CASE ClientConnect(d)
  <2> DEFINE Tcp == [peer : Client, serial : Nat]
             tcp == [peer |-> d, serial |-> serial[d] + 1]
  <2>1. serial[d] \in 0..MaxConnects /\ serial[d] < MaxConnects /\ MaxConnects \in Nat
    BY <1>0, <1>5, PlayerAssumption DEF ClientConnect, TypeOK
  <2>2. backlog \in Seq(Tcp) /\ tcp \in Tcp /\ backlog' = Append(backlog, tcp)
    BY <1>0, <1>5, <2>1 DEF ClientConnect, TypeOK
  <2>3. serial' \in [Client -> 0..MaxConnects]
    BY <1>0, <1>5, <2>1 DEF ClientConnect, TypeOK
  <2>4. backlog' \in Seq(Tcp)
    <3> HIDE DEF Tcp, tcp
    <3> QED
      BY <2>2, AppendProperties
  <2>5. pc' \in [Player -> Where] /\ pc'[Host] = pc[Host]
    BY <1>0, <1>5 DEF ClientConnect, Where
  <2> QED
    BY <1>0, <1>1, <1>3, <1>5, <2>3, <2>4, <2>5 DEF ClientConnect, TypeOK
<1>6. CASE ClientForgets(d)
  BY <1>0, <1>1, <1>6 DEF ClientForgets, TypeOK
<1>7. CASE ClientAccepted(d)
  <2>1. Head(answers[d]).player \in Nat /\ player_num[d] \in Int /\ own_pad[d] \in Nat
    BY <1>0, <1>4, <1>7 DEF ClientAccepted, TypeOK
  <2>2. SwappedTo(own_pad[d], player_num[d], Head(answers[d]).player) \in Nat
    BY <2>1 DEF SwappedTo, Swapped
  <2>3. /\ own_pad' \in [Client -> Nat] /\ player_num' \in [Client -> Int]
        /\ online' \in [Client -> BOOLEAN]
    <3> DEFINE number == Head(answers[d]).player
               pad == SwappedTo(own_pad[d], player_num[d], Head(answers[d]).player)
    <3>1. /\ own_pad' = [own_pad EXCEPT ![d] = pad]
          /\ player_num' = [player_num EXCEPT ![d] = number]
          /\ online' = [online EXCEPT ![d] = TRUE]
      BY <1>7 DEF ClientAccepted
    <3> HIDE DEF number, pad
    <3>2. pad \in Nat /\ number \in Int
      BY <2>1, <2>2 DEF number, pad
    <3> QED
      BY <1>0, <3>1, <3>2 DEF TypeOK
  <2>4. /\ pc' \in [Player -> Where] /\ pc'[Host] = pc[Host]
        /\ hooks' \in [Player -> Int] /\ settings' \in [Player -> Player]
    BY <1>0, <1>7 DEF ClientAccepted, Where
  <2>5. answers' \in [Client -> Seq([ok : BOOLEAN, player : Nat])]
    BY <1>4, <1>7 DEF ClientAccepted
  <2> QED
    BY <1>0, <1>1, <1>7, <2>3, <2>4, <2>5 DEF ClientAccepted, TypeOK
<1>8. CASE ClientRejected(d)
  <2>1. /\ pc' \in [Player -> Where] /\ pc'[Host] = pc[Host]
        /\ rejected' \in [Client -> BOOLEAN]
    BY <1>0, <1>8 DEF ClientRejected, TypeOK, Where
  <2> QED
    BY <1>0, <1>1, <1>3, <1>8, <2>1 DEF ClientRejected, TypeOK
<1>9. CASE ClientAborts(d)
  <2>1. pc' \in [Player -> Where] /\ pc'[Host] = pc[Host]
    BY <1>0, <1>9 DEF ClientAborts, Where
  <2> QED
    BY <1>0, <1>1, <1>9, <2>1 DEF ClientAborts, TypeOK, clientVars
<1>10. CASE ClientIgnores(d)
  BY <1>0, <1>1, <1>4, <1>10 DEF ClientIgnores, TypeOK, clientVars
<1>11. CASE ClientDisconnect(d)
  <2>1. /\ hooks' \in [Player -> Int] /\ settings' \in [Player -> Player]
        /\ online' \in [Client -> BOOLEAN] /\ player_num' \in [Client -> Int]
    BY <1>0, <1>11 DEF ClientDisconnect, HooksRemoved, SettingsRestored, TypeOK
  <2> QED
    BY <1>0, <1>1, <1>3, <1>11, <2>1 DEF ClientDisconnect, TypeOK
<1> QED
  BY <1>5, <1>6, <1>7, <1>8, <1>9, <1>10, <1>11 DEF ClientStep

LEMMA TypesInit == Init => TypeInv
<1> SUFFICES ASSUME Init PROVE TypeInv
  OBVIOUS
<1>1. \A S : <<>> \in Seq(S)
  BY EmptySeq
<1>2. /\ connections \in Seq(Connection) /\ backlog \in Seq([peer : Client, serial : Nat])
      /\ answers \in [Client -> Seq([ok : BOOLEAN, player : Nat])]
      /\ keep_alive \subseteq Nat /\ IsFiniteSet(keep_alive)
  BY <1>1, FS_EmptySet DEF Init
<1>3. serial \in [Client -> 0..MaxConnects] /\ restarts \in 0..MaxRestarts
  BY PlayerAssumption DEF Init
<1>4. pc[Host] # "handshake"
  BY PlayerFacts DEF Init
<1>5. /\ screen \in [Player -> Screen]
      /\ pc \in [Player -> {"idle", "handshake", "rest", "crashed"}]
      /\ hooks \in [Player -> Int] /\ settings \in [Player -> Player]
  BY DEF Init, Screen
<1>6. /\ online \in [Client -> BOOLEAN] /\ player_num \in [Client -> Int]
      /\ own_pad \in [Client -> Nat] /\ rejected \in [Client -> BOOLEAN]
  BY DEF Init
<1>7. bound \in BOOLEAN /\ host \in BOOLEAN /\ resume \in BOOLEAN
  BY DEF Init
<1> QED
  BY <1>2, <1>3, <1>4, <1>5, <1>6, <1>7 DEF TypeInv, TypeOK, HasGuest

LEMMA TypesStep == TypeInv /\ [Next]_vars => TypeInv'
<1> SUFFICES ASSUME TypeInv, [Next]_vars PROVE TypeInv'
  OBVIOUS
<1>1. CASE HostStep
  BY <1>1, HostKeepsTypes
<1>2. CASE \E c \in Client : ClientStep(c)
  BY <1>2, ClientKeepsTypes
<1>3. ASSUME NEW n \in Player, Navigate(n) PROVE TypeInv'
  <2>1. screen' \in [Player -> Screen]
    BY <1>3 DEF Navigate, TypeInv, TypeOK
  <2> QED
    BY <1>3, <2>1 DEF Navigate, TypeInv, TypeOK, HasGuest, hostVars, clientVars
<1>4. CASE UNCHANGED vars
  BY <1>4 DEF vars, TypeInv, TypeOK, HasGuest, hostVars, clientVars
<1> QED
  BY <1>1, <1>2, <1>3, <1>4 DEF Next

\* The types, and that the host's handshake is with the last of its connections.
THEOREM TypeOKHolds == Spec => []TypeOK
<1>1. TypeInv => TypeOK
  BY DEF TypeInv
<1> QED
  BY TypesInit, TypesStep, <1>1, PTL DEF Spec

-----------------------------------------------------------------------------
(* Who gets in.                                                            *)

\* Everybody the host has a connection with has been let in, but for the one it is shaking
\* hands with; so has everybody who is told so, and everybody who plays.
Vetted ==
    /\ \A i \in DOMAIN connections :
           \/ connections[i].peer \in Accepted
           \/ pc[Host] = "handshake" /\ i = Len(connections)
    /\ \A c \in Client : \A k \in DOMAIN answers[c] : answers[c][k].ok => c \in Accepted
    /\ OnlyAcceptedPlay

-----------------------------------------------------------------------------
(* Who is who.                                                             *)

\* A TCP connection is in one place: it waits, or it is an entry, and only once.
SameTcp(a, b) == a.peer = b.peer /\ a.serial = b.serial

Distinct ==
    /\ \A i, j \in DOMAIN connections : SameTcp(connections[i], connections[j]) => i = j
    /\ \A i, j \in DOMAIN backlog : SameTcp(backlog[i], backlog[j]) => i = j
    /\ \A i \in DOMAIN connections : \A j \in DOMAIN backlog :
           ~SameTcp(connections[i], backlog[j])

Issued ==
    /\ \A i \in DOMAIN connections : connections[i].serial <= serial[connections[i].peer]
    /\ \A i \in DOMAIN backlog : backlog[i].serial <= serial[backlog[i].peer]

\* Nobody is told anything before its connection is accepted.
Unheard ==
    \A i \in DOMAIN backlog :
        backlog[i].serial = serial[backlog[i].peer] =>
            ~online[backlog[i].peer] /\ answers[backlog[i].peer] = <<>>

\* c has been told that it is in, or plays, as player n.
ToldToBe(c, n) == \E k \in DOMAIN answers[c] : answers[c][k].ok /\ answers[c][k].player = n

Serves(c, n) == (online[c] /\ player_num[c] = n) \/ ToldToBe(c, n)

\* The number a client has, or will have, on the connection it has now is the entry's node.
Numbered ==
    \A i \in DOMAIN connections :
        /\ connections[i].node > 0
        /\ connections[i].serial = serial[connections[i].peer] =>
               \A n \in Int : Serves(connections[i].peer, n) => n = connections[i].node

\* Of the entries with the same node, only the first can have been answered.
ServedFirst ==
    \A i, j \in DOMAIN connections :
        /\ connections[i].serial = serial[connections[i].peer]
        /\ \E n \in Int : Serves(connections[i].peer, n)
        /\ connections[j].node = connections[i].node
        => i <= j

\* The entry of the handshake has the number its client is told.
GuestNumber ==
    pc[Host] = "handshake" => connections[Len(connections)].node = Len(connections)

\* A port belongs to a connection that was accepted, and stands at the node its client
\* has, or will have.
Addressed ==
    \A i \in DOMAIN connections :
        LET from == connections[i].port
        IN  from.peer \in Client =>
                /\ from.serial <= serial[from.peer]
                /\ \A j \in DOMAIN backlog : ~SameTcp(from, backlog[j])
                /\ \A j \in DOMAIN connections :
                       SameTcp(from, connections[j]) =>
                           connections[j].node = connections[i].node
                /\ from.serial = serial[from.peer] =>
                       \A n \in Int : Serves(from.peer, n) => n = connections[i].node

MembershipInv ==
    /\ Vetted /\ Distinct /\ Issued /\ Unheard
    /\ Numbered /\ ServedFirst /\ GuestNumber /\ Addressed

\* Nobody new: entries go, answers are read, and players come from their answers.
Leaves ==
    /\ connections' \in Left(connections)
    /\ pc'[Host] = "handshake" <=> pc[Host] = "handshake"
    /\ pc[Host] = "handshake" => connections' = connections
    /\ backlog' = backlog \/ backlog' = <<>>
    /\ serial' = serial
    /\ \A c \in Client : \A k \in DOMAIN answers'[c] :
           \E l \in DOMAIN answers[c] : answers'[c][k] = answers[c][l]
    /\ \A c \in Client : online'[c] => Serves(c, player_num'[c])

LEMMA LeavesServes ==
    ASSUME Leaves, NEW c \in Client, NEW n, Serves(c, n)'
    PROVE  Serves(c, n)
<1>1. CASE (online[c] /\ player_num[c] = n)'
  BY <1>1 DEF Leaves
<1>2. CASE ToldToBe(c, n)'
  BY <1>2 DEF Leaves, Serves, ToldToBe
<1> QED
  BY <1>1, <1>2 DEF Serves

LEMMA LeavesInv ==
    ASSUME TypeInv, MembershipInv, TypeInv', Leaves
    PROVE  MembershipInv'
<1>0. /\ connections \in Seq(Connection) /\ connections' \in Seq(Connection)
      /\ backlog \in Seq([peer : Client, serial : Nat])
      /\ player_num' \in [Client -> Int]
  BY DEF TypeInv, TypeOK
<1>1. PICK g \in [1..Len(connections') -> 1..Len(connections)] :
          /\ \A i \in 1..Len(connections') : connections'[i] = connections[g[i]]
          /\ \A i, j \in 1..Len(connections') : i < j => g[i] < g[j]
  BY DEF Leaves, Left
<1>2. /\ DOMAIN connections = 1..Len(connections)
      /\ DOMAIN connections' = 1..Len(connections')
      /\ Len(connections) \in Nat /\ Len(connections') \in Nat
  BY <1>0
<1>3. /\ \A i \in DOMAIN connections' : g[i] \in DOMAIN connections
      /\ \A i \in DOMAIN connections' : connections'[i] = connections[g[i]]
      /\ \A i, j \in DOMAIN connections' : g[i] = g[j] => i = j
      /\ \A i, j \in DOMAIN connections' : g[i] <= g[j] => i <= j
  BY <1>1, <1>2
<1>4. \A i \in DOMAIN connections' : connections'[i].peer \in Client
  <2>1. \A i \in DOMAIN connections' : connections'[i] \in Connection
    BY <1>0, <1>2
  <2> QED
    BY <2>1 DEF Connection
<1>5. Vetted'
  <2>1. ASSUME NEW i \in DOMAIN connections'
        PROVE  \/ connections'[i].peer \in Accepted
               \/ pc'[Host] = "handshake" /\ i = Len(connections')
    <3>1. CASE pc[Host] = "handshake"
      BY <2>1, <3>1 DEF Leaves, MembershipInv, Vetted
    <3>2. CASE pc[Host] # "handshake"
      BY <1>3, <3>2 DEF MembershipInv, Vetted
    <3> QED
      BY <3>1, <3>2
  <2>2. \A c \in Client : \A k \in DOMAIN answers'[c] : answers'[c][k].ok => c \in Accepted
    BY DEF Leaves, MembershipInv, Vetted
  <2>3. \A c \in Client : online'[c] => c \in Accepted
    BY DEF Leaves, MembershipInv, Vetted, OnlyAcceptedPlay, Serves, ToldToBe
  <2> QED
    BY <2>1, <2>2, <2>3 DEF Vetted, OnlyAcceptedPlay
<1>6. Distinct'
  <2>1. \A i \in DOMAIN backlog' : i \in DOMAIN backlog /\ backlog'[i] = backlog[i]
    BY <1>0 DEF Leaves
  <2>2. Distinct
    BY DEF MembershipInv
  <2>3. \A i, j \in DOMAIN connections' : SameTcp(connections'[i], connections'[j]) => i = j
    BY <1>3, <2>2 DEF Distinct, SameTcp
  <2>4. \A i, j \in DOMAIN backlog' : SameTcp(backlog'[i], backlog'[j]) => i = j
    BY <2>1, <2>2 DEF Distinct, SameTcp
  <2>5. \A i \in DOMAIN connections' : \A j \in DOMAIN backlog' :
            ~SameTcp(connections'[i], backlog'[j])
    BY <1>3, <2>1, <2>2 DEF Distinct, SameTcp
  <2> QED
    BY <2>3, <2>4, <2>5 DEF Distinct, SameTcp
<1>7. Issued' /\ Unheard'
  <2>0. \A i \in DOMAIN backlog : backlog[i] \in [peer : Client, serial : Nat]
    <3> DEFINE Tcp == [peer : Client, serial : Nat]
    <3>1. backlog \in Seq(Tcp)
      BY <1>0
    <3> HIDE DEF Tcp
    <3>2. \A i \in DOMAIN backlog : backlog[i] \in Tcp
      BY <3>1
    <3> QED
      BY <3>2 DEF Tcp
  <2>1. \A i \in DOMAIN backlog' :
            i \in DOMAIN backlog /\ backlog'[i] = backlog[i] /\ backlog[i].peer \in Client
    <3>1. \A i \in DOMAIN backlog : backlog[i].peer \in Client
      BY <2>0
    <3>2. \A i \in DOMAIN backlog' : i \in DOMAIN backlog /\ backlog'[i] = backlog[i]
      BY DEF Leaves
    <3> QED
      BY <3>1, <3>2
  <2>2. Issued'
    BY <1>3, <2>1 DEF Leaves, MembershipInv, Issued
  <2>3. ASSUME NEW i \in DOMAIN backlog', backlog'[i].serial = serial'[backlog'[i].peer]
        PROVE  ~online'[backlog'[i].peer] /\ answers'[backlog'[i].peer] = <<>>
    <3> DEFINE c == backlog[i].peer
    <3>1. c \in Client /\ c = backlog'[i].peer
      BY <2>1
    <3>2. ~online[c] /\ answers[c] = <<>>
      BY <2>1, <2>3 DEF Leaves, MembershipInv, Unheard
    <3>3. answers'[c] \in Seq([ok : BOOLEAN, player : Nat])
      BY <3>1 DEF TypeInv, TypeOK
    <3>4. DOMAIN answers'[c] = {}
      BY <3>1, <3>2 DEF Leaves
    <3>5. answers'[c] = <<>>
      <4> DEFINE Answer == [ok : BOOLEAN, player : Nat]
      <4> SUFFICES answers'[c] # <<>> => FALSE
        OBVIOUS
      <4>1. answers'[c] \in Seq(Answer)
        BY <3>3
      <4> HIDE DEF Answer
      <4>2. answers'[c] # <<>> => 1 \in DOMAIN answers'[c]
        BY <4>1, EmptySeq, LenProperties
      <4> QED
        BY <3>4, <4>2
    <3>6. ~online'[c]
      BY <3>1, <3>2 DEF Leaves, Serves, ToldToBe
    <3> QED
      BY <3>1, <3>5, <3>6
  <2> QED
    BY <2>2, <2>3 DEF Unheard
<1>8. Numbered'
  <2>1. ASSUME NEW i \in DOMAIN connections' PROVE connections'[i].node > 0
    BY <1>3 DEF MembershipInv, Numbered
  <2>2. ASSUME NEW i \in DOMAIN connections', NEW c \in Client, c = connections'[i].peer,
               connections'[i].serial = serial'[c], NEW n \in Int, Serves(c, n)'
        PROVE  n = connections'[i].node
    <3>1. Serves(c, n)
      BY <2>2, LeavesServes
    <3> QED
      BY <1>3, <2>2, <3>1 DEF Leaves, MembershipInv, Numbered
  <2> QED
    BY <1>4, <2>1, <2>2 DEF Numbered, Serves, ToldToBe
<1>9. ServedFirst'
  <2>1. ASSUME NEW i \in DOMAIN connections', NEW j \in DOMAIN connections',
               NEW c \in Client, c = connections'[i].peer,
               connections'[i].serial = serial'[c], NEW n \in Int, Serves(c, n)',
               connections'[j].node = connections'[i].node
        PROVE  i <= j
    <3>1. Serves(c, n)
      BY <2>1, LeavesServes
    <3>2. /\ g[i] \in DOMAIN connections /\ g[j] \in DOMAIN connections
          /\ connections[g[i]].peer = c /\ connections[g[i]].serial = serial[c]
          /\ connections[g[j]].node = connections[g[i]].node
      BY <1>3, <2>1 DEF Leaves
    <3>3. g[i] <= g[j]
      BY <3>1, <3>2 DEF MembershipInv, ServedFirst
    <3> QED
      BY <1>3, <3>3
  <2> QED
    BY <1>4, <2>1 DEF ServedFirst, Serves, ToldToBe
<1>10. GuestNumber'
  <2>1. CASE pc[Host] = "handshake"
    BY <2>1 DEF Leaves, MembershipInv, GuestNumber
  <2>2. CASE pc[Host] # "handshake"
    BY <2>2 DEF Leaves, GuestNumber
  <2> QED
    BY <2>1, <2>2
<1>11. Addressed'
  <2>1. \A i \in DOMAIN backlog' : i \in DOMAIN backlog /\ backlog'[i] = backlog[i]
    BY <1>0 DEF Leaves
  <2>2. ASSUME NEW i \in DOMAIN connections', NEW c \in Client,
               c = connections'[i].port.peer
        PROVE  /\ connections'[i].port.serial <= serial'[c]
               /\ \A j \in DOMAIN backlog' : ~SameTcp(connections'[i].port, backlog'[j])
               /\ \A j \in DOMAIN connections' :
                      SameTcp(connections'[i].port, connections'[j]) =>
                          connections'[j].node = connections'[i].node
    <3>1. Addressed /\ serial' = serial
      BY DEF MembershipInv, Leaves
    <3>2. g[i] \in DOMAIN connections /\ connections'[i].port = connections[g[i]].port
      BY <1>3
    <3>3. connections'[i].port.serial <= serial'[c]
      BY <2>2, <3>1, <3>2 DEF Addressed
    <3>4. \A j \in DOMAIN backlog' : ~SameTcp(connections'[i].port, backlog'[j])
      BY <2>1, <2>2, <3>1, <3>2 DEF Addressed
    <3>5. ASSUME NEW j \in DOMAIN connections', SameTcp(connections'[i].port, connections'[j])
          PROVE  connections'[j].node = connections'[i].node
      BY <1>3, <2>2, <3>1, <3>2, <3>5 DEF Addressed
    <3> QED
      BY <3>3, <3>4, <3>5
  <2>3. ASSUME NEW i \in DOMAIN connections', NEW c \in Client,
               c = connections'[i].port.peer, connections'[i].port.serial = serial'[c],
               NEW n \in Int, Serves(c, n)'
        PROVE  n = connections'[i].node
    <3>1. Serves(c, n)
      BY <2>3, LeavesServes
    <3> QED
      BY <1>3, <2>3, <3>1 DEF Leaves, MembershipInv, Addressed
  <2> QED
    BY <2>2, <2>3 DEF Addressed, SameTcp, Serves, ToldToBe
<1> QED
  BY <1>5, <1>6, <1>7, <1>8, <1>9, <1>10, <1>11 DEF MembershipInv

\* Everybody goes: what the answers say stays true of who may play.
LEMMA EverybodyLeaves ==
    ASSUME TypeInv, MembershipInv, TypeInv', CloseAll, online' = online, pc'[Host] # "handshake",
           \A c \in Client : \A k \in DOMAIN answers'[c] :
               answers'[c][k].ok =>
                   \E l \in DOMAIN answers[c] : answers'[c][k] = answers[c][l]
    PROVE  MembershipInv'
<1>1. DOMAIN connections' = {} /\ DOMAIN backlog' = {}
  BY DEF CloseAll
<1>2. Vetted'
  <2>1. \A c \in Client : \A k \in DOMAIN answers'[c] : answers'[c][k].ok => c \in Accepted
    BY DEF MembershipInv, Vetted
  <2> QED
    BY <1>1, <2>1 DEF MembershipInv, Vetted, OnlyAcceptedPlay
<1> QED
  BY <1>1, <1>2 DEF MembershipInv, Distinct, Issued, Unheard, Numbered, ServedFirst,
                    GuestNumber, Addressed

\* The host accepts: the connection that has waited longest becomes the last entry.
LEMMA AcceptInv ==
    ASSUME TypeInv, MembershipInv, TypeInv', HostAccept
    PROVE  MembershipInv'
<1> DEFINE Tcp == [peer : Client, serial : Nat]
           new == NewConnection(connections, Head(backlog))
           last == Len(connections) + 1
<1>0. /\ connections \in Seq(Connection) /\ backlog \in Seq(Tcp) /\ pc \in [Player -> Where]
  BY DEF TypeInv, TypeOK, Where
<1>1. /\ connections' = Append(connections, new) /\ backlog # <<>> /\ backlog' = Tail(backlog)
      /\ pc[Host] # "handshake" /\ pc'[Host] = "handshake"
      /\ serial' = serial /\ online' = online /\ player_num' = player_num /\ answers' = answers
  BY <1>0, PlayerFacts DEF HostAccept, clientVars
<1>2. /\ Head(backlog) = backlog[1] /\ 1 \in DOMAIN backlog
      /\ \A i \in DOMAIN backlog' :
             i + 1 \in DOMAIN backlog /\ backlog'[i] = backlog[i + 1] /\ i \in Nat /\ i > 0
  <2> HIDE DEF Tcp
  <2>1. DOMAIN backlog = 1..Len(backlog) /\ Len(backlog) \in Nat \ {0}
    BY <1>0, <1>1, EmptySeq
  <2>2. Len(Tail(backlog)) = Len(backlog) - 1 /\ DOMAIN Tail(backlog) = 1..Len(backlog) - 1
    BY <1>0, <1>1, HeadTailProperties
  <2>3. \A i \in 1..Len(backlog) - 1 : Tail(backlog)[i] = backlog[i + 1]
    BY <1>0, <1>1, <2>2, HeadTailProperties
  <2>4. Head(backlog) = backlog[1]
    OBVIOUS
  <2> QED
    BY <1>1, <2>1, <2>2, <2>3, <2>4
<1>3. \A i \in DOMAIN backlog : backlog[i] \in Tcp
  <2> HIDE DEF Tcp
  <2> QED
    BY <1>0
<1>4. /\ new.peer = backlog[1].peer /\ new.serial = backlog[1].serial /\ new.node = last
      /\ new.peer \in Client /\ new \in Connection
  BY <1>0, <1>2, <1>3 DEF NewConnection, Port, Connection
<1> HIDE DEF new
<1>5. /\ DOMAIN connections = 1..Len(connections) /\ Len(connections) \in Nat
      /\ DOMAIN connections' = 1..last /\ Len(connections') = last
      /\ connections'[last] = new
      /\ \A i \in DOMAIN connections : connections'[i] = connections[i]
  BY <1>0, <1>1, <1>4, AppendProperties
<1>6. \A i \in DOMAIN connections' : i \in DOMAIN connections \/ i = last
  BY <1>5
<1>7. Vetted'
  BY <1>1, <1>5, <1>6 DEF MembershipInv, Vetted, OnlyAcceptedPlay
<1>8. Distinct'
  <2>1. \A i \in DOMAIN connections : ~SameTcp(connections[i], new)
    BY <1>2, <1>4 DEF MembershipInv, Distinct, SameTcp
  <2>2. \A j \in DOMAIN backlog' : ~SameTcp(new, backlog'[j])
    BY <1>2, <1>4 DEF MembershipInv, Distinct, SameTcp
  <2>3. \A i, j \in DOMAIN connections' :
            SameTcp(connections'[i], connections'[j]) => i = j
    BY <1>5, <1>6, <2>1 DEF MembershipInv, Distinct, SameTcp
  <2>4. \A i, j \in DOMAIN backlog' : SameTcp(backlog'[i], backlog'[j]) => i = j
    BY <1>2 DEF MembershipInv, Distinct
  <2>5. \A i \in DOMAIN connections' : \A j \in DOMAIN backlog' :
            ~SameTcp(connections'[i], backlog'[j])
    BY <1>2, <1>5, <1>6, <2>2 DEF MembershipInv, Distinct
  <2> QED
    BY <2>3, <2>4, <2>5 DEF Distinct, SameTcp
<1>9. Issued' /\ Unheard'
  <2>1. Issued'
    BY <1>1, <1>2, <1>4, <1>5, <1>6 DEF MembershipInv, Issued
  <2>2. Unheard'
    BY <1>1, <1>2 DEF MembershipInv, Unheard
  <2> QED
    BY <2>1, <2>2
<1>10. new.serial = serial[new.peer] => \A n \in Int : ~Serves(new.peer, n)
  <2>1. new.serial = serial[new.peer] => ~online[new.peer] /\ answers[new.peer] = <<>>
    BY <1>2, <1>4 DEF MembershipInv, Unheard
  <2>2. DOMAIN <<>> = {}
    OBVIOUS
  <2> QED
    BY <2>1, <2>2 DEF Serves, ToldToBe
<1>11. \A i \in DOMAIN connections' : connections'[i].peer \in Client
  <2>1. \A i \in DOMAIN connections : connections[i] \in Connection
    BY <1>0, <1>5
  <2> QED
    BY <1>4, <1>5, <1>6, <2>1 DEF Connection
<1>12. Numbered'
  <2>1. ASSUME NEW i \in DOMAIN connections', NEW c \in Client, c = connections'[i].peer
        PROVE  /\ connections'[i].node > 0
               /\ connections'[i].serial = serial'[c] =>
                      \A n \in Int : Serves(c, n)' => n = connections'[i].node
    <3>1. \A n \in Int : Serves(c, n)' => Serves(c, n)
      BY <1>1 DEF Serves, ToldToBe
    <3>2. CASE i \in DOMAIN connections
      BY <1>1, <1>5, <2>1, <3>1, <3>2 DEF MembershipInv, Numbered
    <3>3. CASE i = last
      BY <1>1, <1>4, <1>5, <1>10, <2>1, <3>1, <3>3
    <3> QED
      BY <1>6, <2>1, <3>2, <3>3
  <2> QED
    BY <1>11, <2>1 DEF Numbered, Serves, ToldToBe
<1>13. ServedFirst'
  <2>1. ASSUME NEW i \in DOMAIN connections', NEW j \in DOMAIN connections',
               NEW c \in Client, c = connections'[i].peer,
               connections'[i].serial = serial'[c], NEW n \in Int, Serves(c, n)',
               connections'[j].node = connections'[i].node
        PROVE  i <= j
    <3>0. Serves(c, n)
      BY <1>1, <2>1 DEF Serves, ToldToBe
    <3>1. i \in DOMAIN connections
      BY <1>1, <1>5, <1>6, <1>10, <2>1, <3>0
    <3>2. CASE j \in DOMAIN connections
      BY <1>1, <1>5, <2>1, <3>0, <3>1, <3>2 DEF MembershipInv, ServedFirst
    <3>3. CASE j = last
      BY <1>5, <3>1, <3>3
    <3> QED
      BY <1>6, <2>1, <3>2, <3>3
  <2> QED
    BY <1>11, <2>1 DEF ServedFirst, Serves, ToldToBe
<1>14. GuestNumber'
  BY <1>4, <1>5 DEF GuestNumber
<1>15. Addressed'
  <2>0. connections'[last].port.peer \notin Client
    BY <1>5, PlayerFacts DEF new, NewConnection, NoPort
  <2>1. ASSUME NEW i \in DOMAIN connections', NEW c \in Client,
               c = connections'[i].port.peer
        PROVE  /\ i \in DOMAIN connections /\ connections'[i] = connections[i]
               /\ connections'[i].port.serial <= serial'[c]
               /\ \A j \in DOMAIN backlog' : ~SameTcp(connections'[i].port, backlog'[j])
    <3>1. i \in DOMAIN connections /\ connections'[i] = connections[i]
      BY <1>5, <1>6, <2>0, <2>1
    <3> QED
      BY <1>1, <1>2, <2>1, <3>1 DEF MembershipInv, Addressed
  <2>2. ASSUME NEW i \in DOMAIN connections', NEW c \in Client,
               c = connections'[i].port.peer, NEW j \in DOMAIN connections',
               SameTcp(connections'[i].port, connections'[j])
        PROVE  connections'[j].node = connections'[i].node
    <3>1. j # last
      BY <1>2, <1>4, <1>5, <2>1, <2>2 DEF MembershipInv, Addressed, SameTcp
    <3> QED
      BY <1>5, <1>6, <2>1, <2>2, <3>1 DEF MembershipInv, Addressed
  <2>3. ASSUME NEW i \in DOMAIN connections', NEW c \in Client,
               c = connections'[i].port.peer, connections'[i].port.serial = serial'[c],
               NEW n \in Int, Serves(c, n)'
        PROVE  n = connections'[i].node
    <3>1. Serves(c, n)
      BY <1>1, <2>3 DEF Serves, ToldToBe
    <3> QED
      BY <1>1, <2>1, <2>3, <3>1 DEF MembershipInv, Addressed
  <2> QED
    BY <2>1, <2>2, <2>3 DEF Addressed, SameTcp, Serves, ToldToBe
<1> QED
  BY <1>7, <1>8, <1>9, <1>12, <1>13, <1>14, <1>15 DEF MembershipInv

\* The host answers: the first entry with the node of the last one hears that number.
LEMMA GoodInv ==
    ASSUME TypeInv, MembershipInv, TypeInv', HostHandshakeGood
    PROVE  MembershipInv'
<1> USE PlayerFacts
<1> DEFINE new == connections[Len(connections)]
           first == FirstOf(connections, new.node)
           to == Known[first]
           q == connections[first].peer
           answer == [ok |-> TRUE, player |-> Len(connections)]
<1>0. /\ connections \in Seq(Connection) /\ pc \in [Player -> Where]
      /\ answers \in [Client -> Seq([ok : BOOLEAN, player : Nat])]
      /\ backlog \in Seq([peer : Client, serial : Nat])
  BY DEF TypeInv, TypeOK, Where
<1>1. /\ connections' = Known /\ backlog' = backlog
      /\ pc[Host] = "handshake" /\ pc'[Host] # "handshake"
      /\ serial' = serial /\ online' = online /\ player_num' = player_num
      /\ new.peer \in Accepted
  BY <1>0 DEF HostHandshakeGood, Known, Credentials, AfterConnect, clientVars
<1>2. /\ Len(connections) \in 1..Len(connections) /\ new \in Connection
      /\ Known \in Seq(Connection) /\ Len(Known) = Len(connections)
      /\ \A i \in 1..Len(connections) :
             /\ Known[i].node = connections[i].node
             /\ Known[i].peer = connections[i].peer
             /\ Known[i].serial = connections[i].serial
             /\ Known[i].port = IF i = first THEN TcpOf(new) ELSE connections[i].port
      /\ first \in 1..Len(connections) /\ connections[first].node = new.node
      /\ \A j \in 1..Len(connections) : connections[j].node = new.node => first <= j
      /\ FirstOf(Known, new.node) = first
  BY <1>1, KnownFacts
<1>3. answers' = IF IsCurrent(to) THEN [answers EXCEPT ![to.peer] = Append(@, answer)]
                                  ELSE answers
  <2>1. answers' = Answered(Known, new.node, [ok |-> TRUE, player |-> PlayerNumber(Known)])
    BY DEF HostHandshakeGood, Known
  <2>2. PlayerNumber(Known) = Len(connections) /\ Known[FirstOf(Known, new.node)] = to
    BY <1>2 DEF PlayerNumber
  <2> HIDE DEF to
  <2> QED
    BY <2>1, <2>2 DEF Answered
<1> HIDE DEF first
<1>4. to.peer = q /\ to.serial = connections[first].serial /\ q \in Client
  <2>1. connections[first] \in Connection
    BY <1>0, <1>2
  <2> QED
    BY <1>2, <2>1 DEF Connection
<1>5. new.node = Len(connections)
  BY <1>1 DEF MembershipInv, GuestNumber
<1>6. /\ DOMAIN connections = 1..Len(connections) /\ DOMAIN connections' = 1..Len(connections)
      /\ \A i \in DOMAIN connections :
             /\ connections'[i].node = connections[i].node
             /\ connections'[i].peer = connections[i].peer
             /\ connections'[i].serial = connections[i].serial
  BY <1>0, <1>1, <1>2
<1>7. \A i \in DOMAIN connections : connections[i].peer \in Accepted
  BY <1>1 DEF MembershipInv, Vetted
<1> HIDE DEF to, new
\* What anybody has on the way now.
<1>8. ASSUME NEW c \in Client, NEW k \in DOMAIN answers'[c]
      PROVE  \/ k \in DOMAIN answers[c] /\ answers'[c][k] = answers[c][k]
             \/ c = q /\ IsCurrent(to) /\ answers'[c][k] = answer
  <2> DEFINE Answer == [ok : BOOLEAN, player : Nat]
  <2>1. answers[c] \in Seq(Answer) /\ answer \in Answer
    BY <1>0, <1>2
  <2>2. answers'[c] = answers[c] \/ (c = q /\ IsCurrent(to) /\ answers'[c] = Append(answers[c], answer))
    BY <1>0, <1>3, <1>4
  <2> HIDE DEF Answer, answer
  <2> QED
    BY <1>8, <2>1, <2>2, AppendProperties
<1>9. ASSUME NEW c \in Client, NEW n, Serves(c, n)'
      PROVE  Serves(c, n) \/ (c = q /\ IsCurrent(to) /\ n = Len(connections))
  <2>1. CASE (online[c] /\ player_num[c] = n)'
    BY <1>1, <2>1 DEF Serves
  <2>2. CASE ToldToBe(c, n)'
    <3>1. PICK k \in DOMAIN answers'[c] : answers'[c][k].ok /\ answers'[c][k].player = n
      BY <2>2 DEF ToldToBe
    <3> QED
      BY <1>8, <3>1 DEF Serves, ToldToBe
  <2> QED
    BY <1>9, <2>1, <2>2 DEF Serves
\* The client that is answered has one entry, the first with its node, and does not wait.
<1>10. ASSUME IsCurrent(to), NEW i \in DOMAIN connections, connections[i].peer = q,
              connections[i].serial = serial[q]
       PROVE  i = first
  <2>1. to.serial = serial[q]
    BY <1>4, <1>10 DEF IsCurrent
  <2>2. first \in DOMAIN connections /\ SameTcp(connections[i], connections[first])
    BY <1>2, <1>4, <1>6, <1>10, <2>1 DEF SameTcp
  <2>3. \A a, b \in DOMAIN connections : SameTcp(connections[a], connections[b]) => a = b
    BY DEF MembershipInv, Distinct
  <2> QED
    BY <1>10, <2>2, <2>3
<1>11. Vetted'
  <2>1. \A c \in Client : \A k \in DOMAIN answers'[c] : answers'[c][k].ok => c \in Accepted
    <3>1. q \in Accepted
      BY <1>2, <1>6, <1>7
    <3>2. \A c \in Client : \A k \in DOMAIN answers[c] : answers[c][k].ok => c \in Accepted
      BY DEF MembershipInv, Vetted
    <3> HIDE DEF q, answer
    <3> QED
      BY <1>8, <3>1, <3>2
  <2> QED
    BY <1>1, <1>6, <1>7, <2>1 DEF MembershipInv, Vetted, OnlyAcceptedPlay
<1>12. Distinct' /\ Issued'
  BY <1>1, <1>6 DEF MembershipInv, Distinct, SameTcp, Issued
<1>13. Unheard'
  <2>1. \A i \in DOMAIN backlog : backlog[i].peer \in Client
    <3> DEFINE Tcp == [peer : Client, serial : Nat]
    <3>1. backlog \in Seq(Tcp)
      BY <1>0
    <3> HIDE DEF Tcp
    <3>2. \A i \in DOMAIN backlog : backlog[i] \in Tcp
      BY <3>1
    <3> QED
      BY <3>2 DEF Tcp
  <2>2. ASSUME NEW i \in DOMAIN backlog, backlog[i].serial = serial[backlog[i].peer]
        PROVE  answers'[backlog[i].peer] = answers[backlog[i].peer]
    <3>1. ~(IsCurrent(to) /\ backlog[i].peer = q)
      BY <1>2, <1>4, <1>6, <2>2 DEF IsCurrent, MembershipInv, Distinct, SameTcp
    <3> QED
      BY <1>0, <1>3, <1>4, <2>1, <3>1
  <2> QED
    BY <1>1, <2>1, <2>2 DEF MembershipInv, Unheard
<1>14. Numbered'
  <2>1. ASSUME NEW i \in DOMAIN connections', NEW c \in Client, c = connections'[i].peer,
               connections'[i].serial = serial'[c], NEW n \in Int, Serves(c, n)'
        PROVE  n = connections'[i].node
    <3>1. CASE Serves(c, n)
      BY <1>1, <1>6, <2>1, <3>1 DEF MembershipInv, Numbered
    <3>2. CASE c = q /\ IsCurrent(to) /\ n = Len(connections)
      BY <1>1, <1>2, <1>5, <1>6, <1>10, <2>1, <3>2
    <3> QED
      BY <1>9, <2>1, <3>1, <3>2
  <2>2. \A i \in DOMAIN connections' : connections'[i].node > 0 /\ connections'[i].peer \in Client
    <3>1. \A i \in DOMAIN connections : connections[i] \in Connection
      BY <1>0
    <3> QED
      BY <1>6, <3>1 DEF MembershipInv, Numbered, Connection
  <2> QED
    BY <2>1, <2>2 DEF Numbered, Serves, ToldToBe
<1>15. ServedFirst'
  <2>1. ASSUME NEW i \in DOMAIN connections', NEW j \in DOMAIN connections',
               NEW c \in Client, c = connections'[i].peer,
               connections'[i].serial = serial'[c], NEW n \in Int, Serves(c, n)',
               connections'[j].node = connections'[i].node
        PROVE  i <= j
    <3>1. CASE Serves(c, n)
      BY <1>1, <1>6, <2>1, <3>1 DEF MembershipInv, ServedFirst
    <3>2. CASE c = q /\ IsCurrent(to)
      <4>1. i = first
        BY <1>1, <1>6, <1>10, <2>1, <3>2
      <4>2. connections[j].node = new.node /\ j \in 1..Len(connections)
        BY <1>2, <1>6, <2>1, <4>1
      <4> QED
        BY <1>2, <4>1, <4>2
    <3> QED
      BY <1>9, <2>1, <3>1, <3>2
  <2>2. \A i \in DOMAIN connections' : connections'[i].peer \in Client
    <3>1. \A i \in DOMAIN connections : connections[i] \in Connection
      BY <1>0
    <3> QED
      BY <1>6, <3>1 DEF Connection
  <2> QED
    BY <2>1, <2>2 DEF ServedFirst, Serves, ToldToBe
<1>16. GuestNumber'
  BY <1>1 DEF GuestNumber
<1>17. Addressed'
  <2>0. /\ Len(connections) \in DOMAIN connections /\ first \in DOMAIN connections
        /\ new = connections[Len(connections)]
        /\ new.peer \in Client /\ connections[first].node = new.node
        /\ connections[first].peer = q /\ connections[first].serial = to.serial
    BY <1>2, <1>4, <1>6 DEF new, Connection
  <2>1. ASSUME NEW i \in DOMAIN connections', i # first
        PROVE  i \in DOMAIN connections /\ connections'[i].port = connections[i].port
    BY <1>1, <1>2, <1>6, <2>1
  <2>2. /\ connections'[first].port.peer = new.peer
        /\ connections'[first].port.serial = new.serial
    BY <1>1, <1>2 DEF TcpOf
  \* The new port is the last entry's, which has the same node.
  <2>3. ASSUME NEW c \in Client, c = new.peer
        PROVE  /\ new.serial <= serial'[c]
               /\ \A j \in DOMAIN backlog' : ~SameTcp(connections'[first].port, backlog'[j])
               /\ \A j \in DOMAIN connections' :
                      SameTcp(connections'[first].port, connections'[j]) =>
                          connections'[j].node = connections'[first].node
               /\ new.serial = serial'[c] =>
                      \A n \in Int : Serves(c, n)' => n = connections'[first].node
    <3>1. new.serial <= serial'[c]
      BY <1>1, <2>0, <2>3 DEF MembershipInv, Issued
    <3>2. \A j \in DOMAIN backlog' : ~SameTcp(connections'[first].port, backlog'[j])
      BY <1>1, <2>0, <2>2 DEF MembershipInv, Distinct, SameTcp
    <3>3. ASSUME NEW j \in DOMAIN connections', SameTcp(connections'[first].port, connections'[j])
          PROVE  connections'[j].node = connections'[first].node
      <4>1. j \in DOMAIN connections /\ SameTcp(connections[j], new)
        BY <1>1, <1>6, <2>2, <3>3 DEF SameTcp
      <4>2. \A a, b \in DOMAIN connections : SameTcp(connections[a], connections[b]) => a = b
        BY DEF MembershipInv, Distinct
      <4>3. j = Len(connections)
        BY <2>0, <4>1, <4>2
      <4> QED
        BY <1>6, <2>0, <4>3
    <3>4. ASSUME new.serial = serial'[c], NEW n \in Int, Serves(c, n)'
          PROVE  n = connections'[first].node
      <4>1. CASE Serves(c, n)
        BY <1>1, <1>6, <2>0, <2>3, <3>4, <4>1 DEF MembershipInv, Numbered
      <4>2. CASE n = Len(connections)
        BY <1>5, <1>6, <2>0, <4>2
      <4> QED
        BY <1>9, <3>4, <4>1, <4>2
    <3> QED
      BY <3>1, <3>2, <3>3, <3>4
  <2>4. ASSUME NEW i \in DOMAIN connections', i # first, NEW c \in Client,
               c = connections'[i].port.peer
        PROVE  /\ connections'[i].port.serial <= serial'[c]
               /\ \A j \in DOMAIN backlog' : ~SameTcp(connections'[i].port, backlog'[j])
               /\ \A j \in DOMAIN connections' :
                      SameTcp(connections'[i].port, connections'[j]) =>
                          connections'[j].node = connections'[i].node
    BY <1>1, <1>6, <2>1, <2>4 DEF MembershipInv, Addressed, SameTcp
  <2>5. ASSUME NEW i \in DOMAIN connections', i # first, NEW c \in Client,
               c = connections'[i].port.peer, connections'[i].port.serial = serial'[c],
               NEW n \in Int, Serves(c, n)'
        PROVE  n = connections'[i].node
    <3>1. CASE Serves(c, n)
      BY <1>1, <1>6, <2>1, <2>5, <3>1 DEF MembershipInv, Addressed
    <3>2. CASE c = q /\ IsCurrent(to) /\ n = Len(connections)
      <4>1. SameTcp(connections[i].port, connections[first])
        BY <1>1, <1>4, <2>0, <2>1, <2>5, <3>2 DEF IsCurrent, SameTcp
      <4>2. connections[first].node = connections[i].node
        BY <2>0, <2>1, <2>5, <4>1 DEF MembershipInv, Addressed
      <4> QED
        BY <1>5, <1>6, <2>0, <2>1, <2>5, <3>2, <4>2
    <3> QED
      BY <1>9, <2>5, <3>1, <3>2
  <2>6. ASSUME NEW i \in DOMAIN connections', NEW c \in Client,
               c = connections'[i].port.peer
        PROVE  /\ connections'[i].port.serial <= serial'[c]
               /\ \A j \in DOMAIN backlog' : ~SameTcp(connections'[i].port, backlog'[j])
               /\ \A j \in DOMAIN connections' :
                      SameTcp(connections'[i].port, connections'[j]) =>
                          connections'[j].node = connections'[i].node
    <3>1. CASE i = first
      BY <2>2, <2>3, <2>6, <3>1
    <3> QED
      BY <2>4, <2>6, <3>1
  <2>7. ASSUME NEW i \in DOMAIN connections', NEW c \in Client,
               c = connections'[i].port.peer, connections'[i].port.serial = serial'[c],
               NEW n \in Int, Serves(c, n)'
        PROVE  n = connections'[i].node
    <3>1. CASE i = first
      BY <2>2, <2>3, <2>7, <3>1
    <3> QED
      BY <2>5, <2>7, <3>1
  <2> QED
    BY <2>6, <2>7 DEF Addressed, SameTcp, Serves, ToldToBe
<1> QED
  BY <1>11, <1>12, <1>13, <1>14, <1>15, <1>16, <1>17 DEF MembershipInv

\* A client connects: a TCP connection that has never been, and nothing heard on it yet.
LEMMA ConnectInv ==
    ASSUME TypeInv, SessionInv, MembershipInv, TypeInv', NEW d \in Client, ClientConnect(d)
    PROVE  MembershipInv'
<1> USE PlayerFacts
<1> DEFINE Tcp == [peer : Client, serial : Nat]
           tcp == [peer |-> d, serial |-> serial[d] + 1]
           last == Len(backlog) + 1
<1>0. /\ connections \in Seq(Connection) /\ backlog \in Seq(Tcp) /\ pc \in [Player -> Where]
      /\ serial \in [Client -> 0..MaxConnects] /\ online \in [Client -> BOOLEAN]
      /\ answers \in [Client -> Seq([ok : BOOLEAN, player : Nat])] /\ d \in Player /\ d # Host
  BY DEF TypeInv, TypeOK, Where
<1>1. /\ connections' = connections /\ backlog' = Append(backlog, tcp)
      /\ pc'[Host] = pc[Host] /\ ~online[d]
      /\ serial' = [serial EXCEPT ![d] = @ + 1] /\ answers' = [answers EXCEPT ![d] = <<>>]
      /\ online' = online /\ player_num' = player_num
  BY <1>0 DEF ClientConnect, hostVars
<1>2. tcp \in Tcp /\ \A c \in Client : serial[c] \in Nat
  BY <1>0, PlayerAssumption
<1>3. /\ DOMAIN backlog' = 1..last /\ backlog'[last] = tcp
      /\ \A i \in DOMAIN backlog : i \in DOMAIN backlog' /\ backlog'[i] = backlog[i]
      /\ \A i \in DOMAIN backlog' : i \in DOMAIN backlog \/ i = last
  <2> HIDE DEF Tcp, tcp
  <2> QED
    BY <1>0, <1>1, <1>2, AppendProperties
<1>4. /\ \A i \in DOMAIN connections : connections[i].peer \in Client /\ connections[i].serial \in Nat
      /\ \A i \in DOMAIN backlog : backlog[i].peer \in Client /\ backlog[i].serial \in Nat
  <2>1. \A i \in DOMAIN connections : connections[i] \in Connection
    BY <1>0
  <2>2. \A i \in DOMAIN backlog : backlog[i] \in Tcp
    <3> HIDE DEF Tcp
    <3> QED
      BY <1>0
  <2> QED
    BY <2>1, <2>2 DEF Connection
<1>5. /\ \A c \in Client : c # d => serial'[c] = serial[c] /\ answers'[c] = answers[c]
      /\ serial'[d] = serial[d] + 1 /\ answers'[d] = <<>>
  BY <1>0, <1>1
\* What there was of d is of an earlier connection.
<1>6. /\ \A i \in DOMAIN connections : connections[i].peer = d => connections[i].serial < serial'[d]
      /\ \A i \in DOMAIN backlog : backlog[i].peer = d => backlog[i].serial < serial'[d]
  BY <1>2, <1>4, <1>5 DEF MembershipInv, Issued
<1>7. Vetted'
  <2>1. \A c \in Client : \A k \in DOMAIN answers'[c] : answers'[c][k].ok => c \in Accepted
    <3>1. DOMAIN <<>> = {}
      OBVIOUS
    <3> QED
      BY <1>5, <3>1 DEF MembershipInv, Vetted
  <2> QED
    BY <1>1, <2>1 DEF MembershipInv, Vetted, OnlyAcceptedPlay
<1>8. Distinct'
  <2>1. /\ \A i \in DOMAIN connections : ~SameTcp(connections[i], tcp)
        /\ \A i \in DOMAIN backlog : ~SameTcp(backlog[i], tcp) /\ ~SameTcp(tcp, backlog[i])
    BY <1>2, <1>4, <1>5, <1>6 DEF SameTcp
  <2> HIDE DEF tcp
  <2>2. \A i, j \in DOMAIN backlog' : SameTcp(backlog'[i], backlog'[j]) => i = j
    BY <1>3, <2>1 DEF MembershipInv, Distinct
  <2>3. \A i \in DOMAIN connections : \A j \in DOMAIN backlog' :
            ~SameTcp(connections[i], backlog'[j])
    BY <1>3, <2>1 DEF MembershipInv, Distinct
  <2> QED
    BY <1>1, <2>2, <2>3 DEF MembershipInv, Distinct, SameTcp
<1>9. Issued'
  <2>1. \A c \in Client : serial[c] <= serial'[c] /\ serial'[c] \in Nat
    BY <1>2, <1>5
  <2>2. \A i \in DOMAIN connections : connections[i].serial <= serial'[connections[i].peer]
    BY <1>2, <1>4, <2>1 DEF MembershipInv, Issued
  <2>3. \A i \in DOMAIN backlog : backlog[i].serial <= serial'[backlog[i].peer]
    BY <1>2, <1>4, <2>1 DEF MembershipInv, Issued
  <2>4. tcp.serial <= serial'[tcp.peer]
    BY <1>2, <1>5
  <2> HIDE DEF tcp
  <2> QED
    BY <1>1, <1>3, <2>2, <2>3, <2>4 DEF Issued
<1>10. Unheard'
  <2>1. ASSUME NEW i \in DOMAIN backlog', NEW c \in Client, c = backlog'[i].peer,
               backlog'[i].serial = serial'[c]
        PROVE  ~online'[c] /\ answers'[c] = <<>>
    <3>1. CASE c = d
      BY <1>1, <1>5, <3>1
    <3>2. CASE c # d
      BY <1>1, <1>3, <1>5, <2>1, <3>2 DEF MembershipInv, Unheard
    <3> QED
      BY <3>1, <3>2
  <2>2. \A i \in DOMAIN backlog' : backlog'[i].peer \in Client
    BY <1>3, <1>4
  <2> QED
    BY <2>1, <2>2 DEF Unheard
<1>11. ASSUME NEW i \in DOMAIN connections, NEW c \in Client, c = connections[i].peer,
              connections[i].serial = serial'[c], NEW n \in Int, Serves(c, n)'
       PROVE  connections[i].serial = serial[c] /\ Serves(c, n)
  <2>1. c # d
    BY <1>2, <1>4, <1>6, <1>11
  <2> QED
    BY <1>1, <1>5, <1>11, <2>1 DEF Serves, ToldToBe
<1>12. /\ \A i \in DOMAIN connections' : connections'[i].peer \in Client
       /\ \A i \in DOMAIN connections' : connections'[i].node > 0
  BY <1>1, <1>4 DEF MembershipInv, Numbered
<1>13. Numbered'
  <2>1. ASSUME NEW i \in DOMAIN connections', NEW c \in Client, c = connections'[i].peer,
               connections'[i].serial = serial'[c], NEW n \in Int, Serves(c, n)'
        PROVE  n = connections'[i].node
    <3>1. i \in DOMAIN connections /\ connections'[i] = connections[i]
      BY <1>1, <2>1
    <3>2. connections[i].serial = serial[c] /\ Serves(c, n)
      BY <1>11, <2>1, <3>1
    <3> HIDE DEF tcp
    <3> QED
      BY <2>1, <3>1, <3>2 DEF MembershipInv, Numbered
  <2> QED
    BY <1>12, <2>1 DEF Numbered, Serves, ToldToBe
<1>14. ServedFirst'
  <2>1. ASSUME NEW i \in DOMAIN connections', NEW j \in DOMAIN connections',
               NEW c \in Client, c = connections'[i].peer,
               connections'[i].serial = serial'[c], NEW n \in Int, Serves(c, n)',
               connections'[j].node = connections'[i].node
        PROVE  i <= j
    <3>1. connections[i].serial = serial[c] /\ Serves(c, n)
      BY <1>1, <1>11, <2>1
    <3> QED
      BY <1>1, <2>1, <3>1 DEF MembershipInv, ServedFirst
  <2> QED
    BY <1>12, <2>1 DEF ServedFirst, Serves, ToldToBe
<1>15. GuestNumber'
  BY <1>1 DEF MembershipInv, GuestNumber
<1>16. Addressed'
  <2>0. \A i \in DOMAIN connections : connections[i].port.serial \in Nat
    <3>1. \A i \in DOMAIN connections : connections[i] \in Connection
      BY <1>0
    <3> QED
      BY <3>1 DEF Connection, Port, NoPort
  <2>1. ASSUME NEW i \in DOMAIN connections, NEW c \in Client, c = connections[i].port.peer
        PROVE  /\ connections[i].port.serial <= serial[c]
               /\ connections[i].port.serial <= serial'[c]
               /\ c = d => connections[i].port.serial < serial'[c]
    BY <1>2, <1>5, <2>0, <2>1 DEF MembershipInv, Addressed
  <2>2. ASSUME NEW i \in DOMAIN connections, NEW c \in Client, c = connections[i].port.peer,
               NEW j \in DOMAIN backlog'
        PROVE  ~SameTcp(connections[i].port, backlog'[j])
    <3>1. ~SameTcp(connections[i].port, tcp)
      BY <1>2, <1>5, <2>0, <2>1, <2>2 DEF SameTcp
    <3> HIDE DEF tcp
    <3> QED
      BY <1>3, <2>2, <3>1 DEF MembershipInv, Addressed
  <2>3. ASSUME NEW i \in DOMAIN connections, NEW c \in Client, c = connections[i].port.peer,
               NEW j \in DOMAIN connections, SameTcp(connections[i].port, connections[j])
        PROVE  connections[j].node = connections[i].node
    BY <2>3 DEF MembershipInv, Addressed
  <2>4. ASSUME NEW i \in DOMAIN connections, NEW c \in Client, c = connections[i].port.peer,
               connections[i].port.serial = serial'[c], NEW n \in Int, Serves(c, n)'
        PROVE  n = connections[i].node
    <3>1. c # d
      BY <1>2, <1>5, <2>0, <2>1, <2>4
    <3>2. connections[i].port.serial = serial[c] /\ Serves(c, n)
      BY <1>1, <1>5, <2>4, <3>1 DEF Serves, ToldToBe
    <3> QED
      BY <2>4, <3>2 DEF MembershipInv, Addressed
  <2>5. ASSUME NEW i \in DOMAIN connections', NEW c \in Client,
               c = connections'[i].port.peer
        PROVE  /\ connections'[i].port.serial <= serial'[c]
               /\ \A j \in DOMAIN backlog' : ~SameTcp(connections'[i].port, backlog'[j])
               /\ \A j \in DOMAIN connections' :
                      SameTcp(connections'[i].port, connections'[j]) =>
                          connections'[j].node = connections'[i].node
    BY <1>1, <2>1, <2>2, <2>3, <2>5
  <2>6. ASSUME NEW i \in DOMAIN connections', NEW c \in Client,
               c = connections'[i].port.peer, connections'[i].port.serial = serial'[c],
               NEW n \in Int, Serves(c, n)'
        PROVE  n = connections'[i].node
    BY <1>1, <2>4, <2>6
  <2> QED
    BY <2>5, <2>6 DEF Addressed, SameTcp, Serves, ToldToBe
<1> QED
  BY <1>7, <1>8, <1>9, <1>10, <1>13, <1>14, <1>15, <1>16 DEF MembershipInv

\* All other steps let nobody new in.
LEMMA StaysOrLeaves ==
    ASSUME TypeInv, SessionInv, connections' = connections, backlog' = backlog,
           serial' = serial, pc'[Host] = "handshake" <=> pc[Host] = "handshake",
           \A c \in Client : \/ answers'[c] = answers[c]
                             \/ answers'[c] = <<>>
                             \/ answers[c] # <<>> /\ answers'[c] = Tail(answers[c]),
           \A c \in Client : online'[c] => Serves(c, player_num'[c])
    PROVE  Leaves
<1>1. connections' \in Left(connections)
  BY LeftAll DEF TypeInv, TypeOK
<1>2. ASSUME NEW c \in Client, NEW k \in DOMAIN answers'[c]
      PROVE  \E l \in DOMAIN answers[c] : answers'[c][k] = answers[c][l]
  <2> DEFINE Answer == [ok : BOOLEAN, player : Nat]
  <2>1. answers[c] \in Seq(Answer)
    BY DEF TypeInv, TypeOK
  <2> HIDE DEF Answer
  <2>2. CASE answers'[c] = <<>>
    BY <1>2, <2>2
  <2>3. CASE answers[c] # <<>> /\ answers'[c] = Tail(answers[c])
    <3>1. /\ answers[c] # <<>> /\ Len(answers[c]) \in Nat
          /\ DOMAIN answers[c] = 1..Len(answers[c])
      BY <2>1, <2>3
    <3>2. /\ Len(Tail(answers[c])) = Len(answers[c]) - 1
          /\ DOMAIN Tail(answers[c]) = 1..Len(Tail(answers[c]))
          /\ \A i \in 1..Len(Tail(answers[c])) : Tail(answers[c])[i] = answers[c][i + 1]
      BY <2>1, <3>1, HeadTailProperties, LenProperties
    <3> QED
      BY <1>2, <2>3, <3>1, <3>2
  <2> QED
    BY <1>2, <2>2, <2>3
<1> QED
  BY <1>1, <1>2 DEF Leaves

LEMMA HostKeepsMembership ==
    ASSUME TypeInv, SessionInv, MembershipInv, TypeInv', HostStep
    PROVE  MembershipInv'
<1> USE PlayerFacts
<1>0. pc \in [Player -> Where] /\ connections \in Seq(Connection)
  BY DEF TypeInv, TypeOK, Where
<1>1. \A c \in Client : online[c] => Serves(c, player_num[c])
  BY DEF Serves
<1>2. CASE HostListen \/ HostSkipConnect
  <2>1. /\ connections' = connections /\ backlog' = backlog /\ serial' = serial
        /\ answers' = answers /\ online' = online /\ player_num' = player_num
        /\ pc'[Host] = "handshake" <=> pc[Host] = "handshake"
    BY <1>0, <1>2 DEF HostListen, HostSkipConnect, hostVars, clientVars
  <2>2. Leaves
    BY <1>1, <2>1, StaysOrLeaves
  <2> QED
    BY <2>2, LeavesInv
<1>3. CASE HostAccept
  BY <1>3, AcceptInv
<1>4. CASE HostHandshakeGood
  BY <1>4, GoodInv
<1>5. CASE HostHandshakeBad
  <2> DEFINE new == connections[Len(connections)]
             to == connections[FirstOf(connections, new.node)]
  <2>1. CloseAll /\ online' = online /\ pc'[Host] # "handshake" /\ pc[Host] = "handshake"
    BY <1>0, <1>5 DEF HostHandshakeBad, AfterConnect, clientVars
  <2>2. to \in Connection
    BY <1>0, <2>1, KnownFacts
  <2>3. to.peer \in Client
    BY <2>2 DEF Connection
  <2>4. \A c \in Client : answers'[c] = answers[c] \/ answers'[c] = Append(answers[c], Mismatch)
    <3>1. answers' = Answered(connections, new.node, Mismatch)
      BY <1>5 DEF HostHandshakeBad
    <3>2. answers \in [Client -> Seq([ok : BOOLEAN, player : Nat])]
      BY DEF TypeInv, TypeOK
    <3> QED
      BY <2>3, <3>1, <3>2 DEF Answered
  <2>5. ASSUME NEW c \in Client, NEW k \in DOMAIN answers'[c], answers'[c][k].ok
        PROVE  \E l \in DOMAIN answers[c] : answers'[c][k] = answers[c][l]
    <3> DEFINE Answer == [ok : BOOLEAN, player : Nat]
    <3>1. answers[c] \in Seq(Answer) /\ Mismatch \in Answer /\ ~Mismatch.ok
      BY DEF TypeInv, TypeOK, Mismatch
    <3> HIDE DEF Answer
    <3>2. CASE answers'[c] = Append(answers[c], Mismatch)
      BY <2>5, <3>1, <3>2, AppendProperties
    <3> QED
      BY <2>4, <2>5, <3>2
  <2> QED
    BY <2>1, <2>5, EverybodyLeaves
<1>6. CASE HostLeaves
  <2>1. CloseAll /\ online' = online /\ pc'[Host] # "handshake" /\ answers' = answers
    BY <1>0, <1>6 DEF HostLeaves, HostDisconnect, clientVars
  <2> QED
    BY <2>1, EverybodyLeaves
<1>7. ASSUME NEW gone \in SUBSET keep_alive, HostRest(gone) PROVE MembershipInv'
  <2>1. /\ clientVars' = clientVars /\ answers' = answers
        /\ pc[Host] # "handshake" /\ pc'[Host] # "handshake"
    BY <1>0, <1>7 DEF HostRest
  <2>2. CASE HostDisconnect
    BY <2>1, <2>2, EverybodyLeaves DEF HostDisconnect, clientVars
  <2>3. CASE ~HostDisconnect
    <3>1. /\ connections' = FoldSet(LAMBDA n, cs : Dropped(cs, n), connections, gone)
          /\ backlog' = backlog
      BY <1>7, <2>3 DEF HostRest
    <3>2. IsFiniteSet(gone)
      BY FS_Subset DEF TypeInv
    <3>3. connections' \in Left(connections)
      BY <1>0, <3>1, <3>2, RestIsLeft
    <3>4. Leaves
      BY <1>1, <2>1, <3>1, <3>3 DEF Leaves, clientVars
    <3> QED
      BY <3>4, LeavesInv
  <2> QED
    BY <2>2, <2>3
<1>8. CASE HostRestart
  <2>1. CloseAll /\ online' = online /\ pc'[Host] # "handshake" /\ answers' = answers
    BY <1>0, <1>8 DEF HostRestart, clientVars
  <2> QED
    BY <2>1, EverybodyLeaves
<1> QED
  BY <1>2, <1>3, <1>4, <1>5, <1>6, <1>7, <1>8 DEF HostStep

LEMMA ClientKeepsMembership ==
    ASSUME TypeInv, SessionInv, MembershipInv, TypeInv', NEW d \in Client, ClientStep(d)
    PROVE  MembershipInv'
<1> USE PlayerFacts
<1>0. /\ pc \in [Player -> Where] /\ d \in Player /\ d # Host
      /\ answers \in [Client -> Seq([ok : BOOLEAN, player : Nat])]
      /\ online \in [Client -> BOOLEAN] /\ player_num \in [Client -> Int]
  BY DEF TypeInv, TypeOK, Where
<1>1. \A c \in Client : online[c] => Serves(c, player_num[c])
  BY DEF Serves
<1>2. CASE ClientConnect(d)
  BY <1>2, ConnectInv
<1>3. CASE ClientAccepted(d)
  <2>1. /\ connections' = connections /\ backlog' = backlog /\ serial' = serial
        /\ answers[d] # <<>> /\ Head(answers[d]).ok
        /\ answers' = [answers EXCEPT ![d] = Tail(@)]
        /\ online' = [online EXCEPT ![d] = TRUE]
        /\ player_num' = [player_num EXCEPT ![d] = Head(answers[d]).player]
        /\ pc'[Host] = "handshake" <=> pc[Host] = "handshake"
    BY <1>0, <1>3 DEF ClientAccepted, hostVars
  <2>2. \A c \in Client : \/ answers'[c] = answers[c]
                          \/ answers[c] # <<>> /\ answers'[c] = Tail(answers[c])
    BY <1>0, <2>1
  <2>3. Serves(d, Head(answers[d]).player)
    <3> DEFINE Answer == [ok : BOOLEAN, player : Nat]
    <3>1. answers[d] \in Seq(Answer)
      BY <1>0
    <3> HIDE DEF Answer
    <3>2. 1 \in DOMAIN answers[d] /\ Head(answers[d]) = answers[d][1]
      BY <2>1, <3>1, EmptySeq
    <3> QED
      BY <2>1, <3>2 DEF Serves, ToldToBe
  <2>4. ASSUME NEW c \in Client, online'[c] PROVE Serves(c, player_num'[c])
    BY <1>0, <1>1, <2>1, <2>3, <2>4
  <2>5. Leaves
    BY <1>0, <2>1, <2>2, <2>4, StaysOrLeaves
  <2> QED
    BY <2>5, LeavesInv
<1>4. CASE ClientForgets(d) \/ ClientAborts(d)
  <2>1. /\ connections' = connections /\ backlog' = backlog /\ serial' = serial
        /\ answers' = answers /\ online' = online /\ player_num' = player_num
        /\ pc'[Host] = "handshake" <=> pc[Host] = "handshake"
    BY <1>0, <1>4 DEF ClientForgets, ClientAborts, hostVars, clientVars
  <2> QED
    BY <1>1, <2>1, LeavesInv, LeftAll DEF Leaves, TypeInv, TypeOK
<1>5. CASE ClientRejected(d) \/ ClientIgnores(d) \/ ClientDisconnect(d)
  <2>1. /\ connections' = connections /\ backlog' = backlog /\ serial' = serial
        /\ pc'[Host] = "handshake" <=> pc[Host] = "handshake"
        /\ \A c \in Client : \/ answers'[c] = answers[c]
                             \/ answers'[c] = <<>>
                             \/ answers[c] # <<>> /\ answers'[c] = Tail(answers[c])
        /\ \A c \in Client : online'[c] => online[c] /\ player_num'[c] = player_num[c]
    <3>1. CASE ClientRejected(d)
      BY <1>0, <3>1 DEF ClientRejected, hostVars
    <3>2. CASE ClientIgnores(d)
      BY <1>0, <3>2 DEF ClientIgnores, hostVars, clientVars
    <3>3. CASE ClientDisconnect(d)
      BY <1>0, <3>3 DEF ClientDisconnect, hostVars
    <3> QED
      BY <1>5, <3>1, <3>2, <3>3
  <2>2. Leaves
    BY <1>1, <2>1, StaysOrLeaves
  <2> QED
    BY <2>2, LeavesInv
<1> QED
  BY <1>2, <1>3, <1>4, <1>5 DEF ClientStep

LEMMA MembershipInit == Init => MembershipInv
<1> SUFFICES ASSUME Init PROVE MembershipInv
  OBVIOUS
<1>1. DOMAIN connections = {} /\ DOMAIN backlog = {} /\ pc[Host] # "handshake"
  BY PlayerFacts DEF Init
<1>2. \A c \in Client : ~online[c] /\ DOMAIN answers[c] = {}
  BY DEF Init
<1> QED
  BY <1>1, <1>2
  DEF MembershipInv, Vetted, OnlyAcceptedPlay, Distinct, Issued, Unheard, Numbered,
      ServedFirst, GuestNumber, Addressed

LEMMA MembershipStep ==
    TypeInv /\ SessionInv /\ MembershipInv /\ TypeInv' /\ [Next]_vars => MembershipInv'
<1> SUFFICES ASSUME TypeInv, SessionInv, MembershipInv, TypeInv', [Next]_vars
             PROVE  MembershipInv'
  OBVIOUS
<1>1. CASE HostStep
  BY <1>1, HostKeepsMembership
<1>2. CASE \E c \in Client : ClientStep(c)
  BY <1>2, ClientKeepsMembership
<1>3. CASE (\E n \in Player : Navigate(n)) \/ UNCHANGED vars
  <2>1. /\ connections' = connections /\ backlog' = backlog /\ clientVars' = clientVars
        /\ answers' = answers /\ pc' = pc
    BY <1>3 DEF Navigate, vars, hostVars
  <2>2. \A c \in Client : online[c] => Serves(c, player_num[c])
    BY DEF Serves
  <2>3. Leaves
    BY <2>1, <2>2, LeftAll DEF Leaves, TypeInv, TypeOK, clientVars
  <2> QED
    BY <2>3, LeavesInv
<1> QED
  BY <1>1, <1>2, <1>3 DEF Next

LEMMA Membership == Spec => [](TypeInv /\ MembershipInv)
<1>1. Init => TypeInv /\ SessionInv /\ MembershipInv
  BY TypesInit, SessionInit, MembershipInit
<1>2. TypeInv /\ SessionInv /\ MembershipInv /\ [Next]_vars
          => (TypeInv /\ SessionInv /\ MembershipInv)'
  BY TypesStep, SessionStep, MembershipStep
<1> QED
  BY <1>1, <1>2, PTL DEF Spec

\* Whoever's answer reaches it: only a client with the host's version and password ever
\* gets into a session.
THEOREM OnlyAcceptedPlayHolds == Spec => []OnlyAcceptedPlay
<1>1. MembershipInv => OnlyAcceptedPlay
  BY DEF MembershipInv, Vetted
<1> QED
  BY Membership, <1>1, PTL

\* Whoever comes and goes, and although the host hands out nodes that are taken: a client
\* in the session and the host know it by the same number, and nobody else has it.
THEOREM IdentitiesAgreeHolds == Spec => []IdentitiesAgree
<1>1. TypeInv /\ MembershipInv => IdentitiesAgree
  <2> SUFFICES ASSUME TypeInv, MembershipInv PROVE IdentitiesAgree
    OBVIOUS
  <2>1. \A i \in DOMAIN connections : connections[i].peer \in Client /\ i \in Nat
    <3>1. connections \in Seq(Connection)
      BY DEF TypeInv, TypeOK
    <3>2. \A i \in DOMAIN connections : connections[i] \in Connection
      BY <3>1
    <3> QED
      BY <3>1, <3>2 DEF Connection
  <2>2. ASSUME NEW i \in DOMAIN connections, InSession(i)
        PROVE  /\ connections[i].serial = serial[connections[i].peer]
               /\ player_num[connections[i].peer] \in Int
               /\ Serves(connections[i].peer, player_num[connections[i].peer])
               /\ player_num[connections[i].peer] = connections[i].node
               /\ connections[i].node > 0
    <3>1. player_num[connections[i].peer] \in Int
      BY <2>1 DEF TypeInv, TypeOK
    <3>2. Serves(connections[i].peer, player_num[connections[i].peer])
      BY <2>2 DEF InSession, Serves
    <3> QED
      BY <2>2, <3>1, <3>2 DEF InSession, MembershipInv, Numbered
  <2>3. ASSUME NEW i \in DOMAIN connections, InSession(i),
               NEW j \in DOMAIN connections, InSession(j),
               player_num[connections[i].peer] = player_num[connections[j].peer]
        PROVE  i = j
    <3>1. connections[i].node = connections[j].node
      BY <2>2, <2>3
    <3>2. i <= j /\ j <= i
      BY <2>2, <2>3, <3>1 DEF MembershipInv, ServedFirst
    <3> QED
      BY <2>1, <3>2
  <2> QED
    BY <2>2, <2>3 DEF IdentitiesAgree
<1> QED
  BY Membership, <1>1, PTL

\* Whoever told its port when a node was given out twice: a datagram the host takes is
\* read as one of the player that sent it.
THEOREM DatagramsAgreeHolds == Spec => []DatagramsAgree
<1>1. TypeInv /\ MembershipInv => DatagramsAgree
  <2> SUFFICES ASSUME TypeInv, MembershipInv PROVE DatagramsAgree
    OBVIOUS
  <2>1. ASSUME NEW i \in DOMAIN connections, NEW from, from = connections[i].port,
               from # NoPort, online[from.peer], from.serial = serial[from.peer]
        PROVE  player_num[from.peer] = connections[i].node
    <3>1. from.peer \in Client
      <4>1. connections \in Seq(Connection)
        BY DEF TypeInv, TypeOK
      <4>2. connections[i] \in Connection
        BY <2>1, <4>1
      <4> QED
        BY <2>1, <4>2 DEF Connection, Port
    <3>2. player_num[from.peer] \in Int
      BY <3>1 DEF TypeInv, TypeOK
    <3>3. Serves(from.peer, player_num[from.peer])
      BY <2>1 DEF Serves
    <3> QED
      BY <2>1, <3>1, <3>2, <3>3 DEF MembershipInv, Addressed
  <2> QED
    BY <2>1 DEF DatagramsAgree
<1> QED
  BY Membership, <1>1, PTL

=============================================================================
