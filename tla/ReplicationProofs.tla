-------------------------- MODULE ReplicationProofs --------------------------
(***************************************************************************)
(* What TLAPS proves of Replication.                                       *)
(***************************************************************************)
EXTENDS Replication, Induction, SequenceTheorems, TLAPS

-----------------------------------------------------------------------------
(* The inductive invariant *)

\* What a variable of the game may hold.
Contents == Value \cup GameState

\* A change as the code makes it: GameState holds a state of the game.
GoodChange == {change \in Change : change.type = "GameState" => change.data \in GameState}

NoTypeTwice(s) == \A i, j \in DOMAIN s : s[i].type = s[j].type => i = j

GoodChanges == {s \in Seq(GoodChange) : NoTypeTwice(s)}

GoodPacket == [pnum : Player, ready : BOOLEAN, changes : GoodChanges]

GoodMemory == {memory \in [Memory -> Contents] : memory["GameState"] \in GameState}

GoodGhost == [sent : [Memory -> Contents], skipped : SUBSET Memory,
              touched : SUBSET Memory, stale : BOOLEAN]

TypeInv ==
    /\ value \in [Player -> GoodMemory]
    /\ local \in [Player -> [Memory -> Contents]]
    /\ subMenu \in SubMenus /\ localSubMenu \in SubMenus
    /\ tcp_packet \in [Player -> GoodChanges]
    /\ toHost \in [Client -> Seq(GoodPacket)]
    /\ toClient \in [Client -> Seq(GoodPacket)]
    /\ waiting \in [Player -> BOOLEAN]
    /\ ready \in [Player -> Nat]
    /\ rounds \in [Player -> 0..MaxRounds]
    /\ ghost \in [Player -> GoodGhost]
    /\ used \in [writes : Nat, moves : Nat]

\* The state a player's game is in, and how many barriers it has passed.
Phase(p) == value[p]["GameState"]
Passed(p) == 2 * rounds[p] - (IF Phase(p) = Loading THEN 1 ELSE 0)

\* The host has passed the barrier that client c waits at.
Behind(c) == Passed(c) # Passed(Host)

\* Every change of s was made in round r.
OfRound(s, r) == \A i \in DOMAIN s : s[i].round = r

\* Who is blocked has sent what it had queued; nobody has anything to send while it loads.
PlayerInv(p) ==
    /\ waiting[p] => /\ Phase(p) \in {Inactive, Loading}
                     /\ tcp_packet[p] = <<>>
                     /\ Phase(p) = Inactive => rounds[p] < MaxRounds
    /\ tcp_packet[p] # <<>> => Phase(p) # Loading
    /\ OfRound(tcp_packet[p], rounds[p])

\* The stream to the host: N_Ready is its last packet, there as long as the client is
\* blocked and the host has not read it; what is before is of the client's round, which
\* is the host's.
ToHostInv(c) ==
    /\ \A i \in DOMAIN toHost[c] :
           /\ toHost[c][i].ready <=> (i = Len(toHost[c]) /\ waiting[c])
           /\ ~toHost[c][i].ready => Phase(c) # Loading
           /\ OfRound(toHost[c][i].changes, rounds[c])
    /\ toHost[c] # <<>> => ~Behind(c)

\* The stream to a client: one N_Ready is there, or has been counted, exactly if the client
\* is behind; everything is of the client's round; when the host loads, nothing follows
\* the N_Ready it has sent.
ToClientInv(c) ==
    /\ Passed(c) \in {Passed(Host) - 1, Passed(Host)}
    /\ \A i \in DOMAIN toClient[c] : OfRound(toClient[c][i].changes, rounds[c])
    /\ \A i, j \in DOMAIN toClient[c] : toClient[c][i].ready /\ toClient[c][j].ready => i = j
    /\ Phase(Host) = Loading =>
           \A i \in DOMAIN toClient[c] : ~toClient[c][i].ready =>
               \E j \in DOMAIN toClient[c] : j > i /\ toClient[c][j].ready
    /\ IF Behind(c)
       THEN /\ waiting[c] /\ ready[c] \in {0, 1}
            /\ ready[c] = 1 <=> ~ \E i \in DOMAIN toClient[c] : toClient[c][i].ready
       ELSE /\ ready[c] = 0
            /\ ~ \E i \in DOMAIN toClient[c] : toClient[c][i].ready

\* The clients whose N_Ready the host has counted.
Counted == {c \in Client : waiting[c] /\ ~Behind(c) /\ toHost[c] = <<>>}

BarrierInv ==
    /\ \A p \in Player : PlayerInv(p)
    /\ \A c \in Client : ToHostInv(c) /\ ToClientInv(c)
    /\ ready[Host] = Cardinality(Counted)
    /\ \A p \in Player : ~ghost[p].stale

\* A packet with changes is of a player who plays, one with the menu of the host, and an
\* N_Ready has none.
FromOwner(s, p) ==
    /\ s # <<>> => p \in Sender
    /\ \A i \in DOMAIN s : s[i].type \in MenuMessage => p = Host

FromClient(packet, c) ==
    /\ packet.pnum = c /\ FromOwner(packet.changes, c)
    /\ packet.ready => packet.changes = <<>>

OwnerInv ==
    /\ \A p \in Player : FromOwner(tcp_packet[p], p)
    /\ \A c \in Client : \A i \in DOMAIN toHost[c] :
           FromClient(toHost[c][i], c)
    /\ \A c \in Client : \A i \in DOMAIN toClient[c] :
           /\ toClient[c][i].pnum # c
           /\ FromOwner(toClient[c][i].changes, toClient[c][i].pnum)

Inv == TypeInv /\ BarrierInv /\ OwnerInv

-----------------------------------------------------------------------------
(* Players and streams *)

LEMMA Players01 ==
    /\ Host \in Player /\ 1 \in Client /\ Sender \subseteq Player /\ Client \subseteq Player
    /\ Player \subseteq Int /\ Host \notin Client /\ \A p \in Player : p = Host \/ p \in Client
    /\ IsFiniteSet(Client)
<1>1. IsFiniteSet(Player)
  BY PlayersAssumption, FS_Interval DEF Player
<1>2. IsFiniteSet(Client)
  BY <1>1, FS_Subset DEF Client
<1> QED
  BY <1>2, PlayersAssumption DEF Player, Client, Host, Sender

LEMMA MemoryFacts ==
    /\ "GameState" \in Memory
    /\ \A m \in Message, p \in Player : Target(m, p) \in Memory
    /\ \A m, n \in Message : \A p : Target(m, p) = Target(n, p) => m = n
    /\ \A m \in Message : \A p : Target(m, p) = "GameState" => m = "GameState"
<1>1. "GameState" \in Memory
  BY DEF Memory, Target, Sender
<1>2. ASSUME NEW m \in Message, NEW p \in Player PROVE Target(m, p) \in Memory
  <2>1. Target(m, p) = Target(m, IF p = 0 THEN 0 ELSE 1)
    BY DEF Target
  <2> QED
    BY <2>1 DEF Memory, Sender
<1>3. \A m, n \in Message : \A p : Target(m, p) = Target(n, p) => m = n
  BY MessageAssumption DEF Target
<1>4. \A m \in Message : \A p : Target(m, p) = "GameState" => m = "GameState"
  BY DEF Target
<1> QED
  BY <1>1, <1>2, <1>3, <1>4

\* The sequences that are read: what their first element is, and the rest.
LEMMA TailFacts ==
    ASSUME NEW S, NEW s \in Seq(S), s # <<>>
    PROVE  /\ Head(s) \in S /\ Head(s) = s[1] /\ 1 \in DOMAIN s
           /\ Tail(s) \in Seq(S) /\ Len(s) \in Nat /\ Len(Tail(s)) = Len(s) - 1
           /\ DOMAIN s = 1..Len(s) /\ DOMAIN Tail(s) = 1..(Len(s) - 1)
           /\ \A i \in DOMAIN Tail(s) : i + 1 \in DOMAIN s /\ Tail(s)[i] = s[i + 1]
           /\ \A i \in DOMAIN s : i # 1 => i - 1 \in DOMAIN Tail(s) /\ s[i] = Tail(s)[i - 1]
           /\ (Tail(s) = <<>> <=> Len(s) = 1)
<1>1. /\ Head(s) \in S /\ Tail(s) \in Seq(S) /\ Len(Tail(s)) = Len(s) - 1
      /\ \A i \in 1 .. Len(Tail(s)) : Tail(s)[i] = s[i+1]
  BY HeadTailProperties
<1>2. Len(s) \in Nat \ {0} /\ DOMAIN s = 1..Len(s) /\ DOMAIN Tail(s) = 1..(Len(s) - 1)
  BY <1>1, EmptySeq, LenProperties
<1>3. Head(s) = s[1]
  BY <1>2
<1>4. Tail(s) = <<>> <=> Len(Tail(s)) = 0
  BY <1>1, EmptySeq
<1> QED
  BY <1>1, <1>2, <1>3, <1>4

\* The sequences that are sent.
LEMMA AppendFacts ==
    ASSUME NEW S, NEW s \in Seq(S), NEW x \in S
    PROVE  /\ Append(s, x) \in Seq(S) /\ Append(s, x) # <<>>
           /\ Len(s) \in Nat /\ Len(Append(s, x)) = Len(s) + 1
           /\ DOMAIN s = 1..Len(s) /\ DOMAIN Append(s, x) = 1..(Len(s) + 1)
           /\ \A i \in DOMAIN s : Append(s, x)[i] = s[i]
           /\ Append(s, x)[Len(s) + 1] = x
<1>1. /\ Append(s, x) \in Seq(S) /\ Append(s, x) # <<>>
      /\ Len(Append(s, x)) = Len(s) + 1
      /\ \A i \in 1..Len(s) : Append(s, x)[i] = s[i]
      /\ Append(s, x)[Len(s) + 1] = x
  BY AppendProperties
<1> QED
  BY <1>1, LenProperties

-----------------------------------------------------------------------------
(* Reading a packet *)

Reading == [value : GoodMemory, local : [Memory -> Contents], skipped : SUBSET Memory,
            touched : SUBSET Memory, stale : BOOLEAN]

\* Player p before it reads.
Before(p) == [value |-> value[p], local |-> local[p], skipped |-> ghost[p].skipped,
              touched |-> ghost[p].touched, stale |-> ghost[p].stale]

\* What state has of variable k is what b has.
SameAt(b, state, k) ==
    /\ state.value[k] = b.value[k] /\ state.local[k] = b.local[k]
    /\ k \in state.skipped <=> k \in b.skipped
    /\ k \in state.touched <=> k \in b.touched

\* The change, of player pnum, has been taken or skipped.
Effect(b, state, pnum, change) ==
    LET k == Target(change.type, pnum)
    IN  IF Takes(b.value, change)
        THEN /\ state.value[k] = change.data /\ state.local[k] = change.data
             /\ k \notin state.skipped /\ k \notin state.touched
        ELSE /\ state.value[k] = b.value[k] /\ state.local[k] = b.local[k]
             /\ k \in state.skipped
             /\ k \in state.touched <=> k \in b.touched

\* Reading takes a game neither into a round nor out of one.
SamePhase(b, state) ==
    /\ RoundStarted(state.value) <=> RoundStarted(b.value)
    /\ ~RoundStarted(b.value) => state.value["GameState"] = b.value["GameState"]

\* One change.
LEMMA ChangeEffect ==
    ASSUME NEW p \in Player, NEW o \in Player, NEW state \in Reading, NEW change \in GoodChange
    PROVE  LET next == AfterChange(p, o, state, change)
           IN  /\ next \in Reading
               /\ SamePhase(state, next)
               /\ Effect(state, next, o, change)
               /\ \A k \in Memory : k # Target(change.type, o) => SameAt(state, next, k)
               /\ next.stale => state.stale \/ change.round # rounds[p]
<1> DEFINE k == Target(change.type, o)
           next == AfterChange(p, o, state, change)
<1>1. /\ change.type \in Message /\ change.data \in Contents
      /\ change.type = "GameState" => change.data \in GameState
  BY DEF GoodChange, Change, Contents
<1>2. k \in Memory /\ (k = "GameState" => change.type = "GameState")
  BY <1>1, MemoryFacts
<1>3. /\ state.value \in [Memory -> Contents] /\ state.value["GameState"] \in GameState
      /\ state.local \in [Memory -> Contents] /\ state.skipped \in SUBSET Memory
      /\ state.touched \in SUBSET Memory /\ state.stale \in BOOLEAN
  BY DEF Reading, GoodMemory
<1> HIDE DEF k
<1>4. CASE Takes(state.value, change)
  <2> DEFINE v == [state.value EXCEPT ![k] = change.data]
             l == [state.local EXCEPT ![k] = change.data]
             s == state.skipped \ {k}
             t == state.touched \ {k}
             e == (state.stale \/ change.round # rounds[p])
  <2>1. next = [value |-> v, local |-> l, skipped |-> s, touched |-> t, stale |-> e]
    BY <1>4 DEF AfterChange, Store, Reading, k
  <2>2. v \in GoodMemory
    <3>1. v \in [Memory -> Contents]
      BY <1>1, <1>2, <1>3
    <3>2. v["GameState"] \in GameState
      BY <1>1, <1>2, <1>3, MemoryFacts
    <3> QED
      BY <3>1, <3>2 DEF GoodMemory
  <2>3. l \in [Memory -> Contents] /\ s \in SUBSET Memory /\ t \in SUBSET Memory /\ e \in BOOLEAN
    BY <1>1, <1>2, <1>3
  <2>4. next \in Reading
    <3> HIDE DEF v, l, s, t, e, next
    <3> QED
      BY <2>1, <2>2, <2>3 DEF Reading
  <2>5. SamePhase(state, next)
    <3>1. CASE k = "GameState"
      <4>1. /\ state.value["GameState"] >= NormalRestart /\ change.data > LoadFinished
            /\ v["GameState"] = change.data
        BY <1>2, <1>3, <1>4, <3>1 DEF Takes, MenuMessage
      <4> QED
        BY <1>1, <1>2, <1>3, <2>1, <3>1, <4>1
           DEF SamePhase, RoundStarted, NormalRestart, LoadFinished, GameState, Inactive, Loading,
               Exit_1, NormalExit, Ingame, Pause
    <3>2. CASE k # "GameState"
      <4>1. v["GameState"] = state.value["GameState"]
        BY <1>3, <3>2
      <4> QED
        BY <2>1, <4>1 DEF SamePhase, RoundStarted
    <3> QED
      BY <3>1, <3>2
  <2>6. Effect(state, next, o, change)
    BY <1>2, <1>3, <1>4, <2>1 DEF Effect, k
  <2>7. \A j \in Memory : j # k => SameAt(state, next, j)
    BY <1>3, <2>1 DEF SameAt
  <2>8. next.stale = e
    BY <2>1
  <2> HIDE DEF next
  <2> QED
    BY <2>4, <2>5, <2>6, <2>7, <2>8 DEF k, next
<1>5. CASE ~Takes(state.value, change)
  <2>1. next = [state EXCEPT !.skipped = @ \cup {k}]
    BY <1>5 DEF AfterChange, k
  <2>2. /\ next.value = state.value /\ next.local = state.local
        /\ next.skipped = state.skipped \cup {k} /\ next.touched = state.touched
        /\ next.stale = state.stale
    BY <2>1 DEF Reading
  <2>3. next \in Reading
    BY <1>2, <1>3, <2>1 DEF Reading
  <2> HIDE DEF next
  <2>4. Effect(state, next, o, change)
    BY <1>5, <2>2 DEF Effect, k
  <2>5. SamePhase(state, next) /\ \A j \in Memory : j # k => SameAt(state, next, j)
    BY <2>2 DEF SameAt, SamePhase
  <2> QED
    BY <2>2, <2>3, <2>4, <2>5 DEF k, next
<1> QED
  BY <1>4, <1>5

\* The changes of the indices s have been read.
AfterSome(p, packet, state, s) ==
    /\ state \in Reading
    /\ SamePhase(Before(p), state)
    /\ \A i \in s : Effect(Before(p), state, packet.pnum, packet.changes[i])
    /\ \A k \in Memory : (\A i \in s : Target(packet.changes[i].type, packet.pnum) # k) =>
           SameAt(Before(p), state, k)
    /\ state.stale => ghost[p].stale \/ ~OfRound(packet.changes, rounds[p])

\* What is taken depends on what the game was when the packet came: a change before it in
\* the packet does not matter.
LEMMA TakesSame ==
    ASSUME NEW b \in Reading, NEW state \in Reading, NEW change, SamePhase(b, state),
           change.type = "GameState" => SameAt(b, state, "GameState")
    PROVE  Takes(state.value, change) <=> Takes(b.value, change)
<1>1. b.value["GameState"] \in Int /\ state.value["GameState"] \in Int
  BY DEF Reading, GoodMemory, GameState, Inactive, Loading, Exit_1, NormalExit, Ingame, Pause
<1>2. InMenu(state.value) <=> InMenu(b.value)
  BY <1>1 DEF InMenu, SamePhase, RoundStarted, Inactive, LoadFinished
<1>3. RoundStarted(state.value) <=> RoundStarted(b.value)
  BY DEF SamePhase
<1>4. change.type = "GameState" => state.value["GameState"] = b.value["GameState"]
  BY DEF SameAt
<1> QED
  BY <1>2, <1>3, <1>4 DEF Takes

LEMMA BeforeType == ASSUME TypeInv, NEW p \in Player PROVE Before(p) \in Reading
<1>1. value[p] \in GoodMemory /\ local[p] \in [Memory -> Contents] /\ ghost[p] \in GoodGhost
  BY DEF TypeInv
<1> QED
  BY <1>1 DEF Before, Reading, GoodGhost

LEMMA OneMore ==
    ASSUME TypeInv, NEW p \in Player, NEW packet \in GoodPacket,
           NEW s \in SUBSET DOMAIN packet.changes, NEW x \in s, NEW state,
           AfterSome(p, packet, state, s \ {x})
    PROVE  AfterSome(p, packet, AfterChange(p, packet.pnum, state, packet.changes[x]), s)
<1> DEFINE b == Before(p)
           o == packet.pnum
           cs == packet.changes
           k == Target(cs[x].type, o)
           next == AfterChange(p, o, state, cs[x])
<1>1. b \in Reading /\ state \in Reading /\ o \in Player /\ cs \in GoodChanges
  BY BeforeType DEF AfterSome, GoodPacket
<1>2. \A i \in DOMAIN cs : cs[i] \in GoodChange /\ cs[i].type \in Message
  BY <1>1 DEF GoodChanges, GoodChange, Change
<1>3. k \in Memory /\ (cs[x].type = "GameState" => k = "GameState")
  BY <1>1, <1>2, MemoryFacts DEF Target
<1>4. \A i \in s \ {x} : Target(cs[i].type, o) # k /\ Target(cs[i].type, o) \in Memory
  <2>1. \A i \in DOMAIN cs : cs[i].type = cs[x].type => i = x
    BY <1>1 DEF GoodChanges, NoTypeTwice
  <2> QED
    BY <1>1, <1>2, <2>1, MemoryFacts
<1> HIDE DEF b, o, cs, k, next
<1>5. /\ SamePhase(b, state)
      /\ \A i \in s \ {x} : Effect(b, state, o, cs[i])
      /\ \A j \in Memory : (\A i \in s \ {x} : Target(cs[i].type, o) # j) => SameAt(b, state, j)
      /\ state.stale => ghost[p].stale \/ ~OfRound(cs, rounds[p])
  BY DEF AfterSome, b, o, cs
<1>6. SameAt(b, state, k)
  BY <1>3, <1>4, <1>5
<1>7. Takes(state.value, cs[x]) <=> Takes(b.value, cs[x])
  BY <1>1, <1>3, <1>5, <1>6, TakesSame
<1>8. /\ next \in Reading /\ SamePhase(state, next) /\ Effect(state, next, o, cs[x])
      /\ \A j \in Memory : j # k => SameAt(state, next, j)
      /\ next.stale => state.stale \/ cs[x].round # rounds[p]
  <2>1. x \in DOMAIN cs
    BY DEF cs
  <2>2. cs[x] \in GoodChange
    BY <1>2, <2>1
  <2> QED
    BY <1>1, <2>2, ChangeEffect DEF next, k
<1>9. SamePhase(b, next)
  BY <1>5, <1>8 DEF SamePhase
<1>10. \A i \in s : Effect(b, next, o, cs[i])
  <2>1. Effect(b, next, o, cs[x])
    BY <1>6, <1>7, <1>8 DEF Effect, SameAt, k
  <2>2. ASSUME NEW i \in s \ {x} PROVE Effect(b, next, o, cs[i])
    <3>1. SameAt(state, next, Target(cs[i].type, o))
      BY <1>4, <1>8
    <3>2. Effect(b, state, o, cs[i])
      BY <1>5
    <3> QED
      BY <3>1, <3>2 DEF Effect, SameAt
  <2> QED
    BY <2>1, <2>2
<1>11. ASSUME NEW j \in Memory, \A i \in s : Target(cs[i].type, o) # j PROVE SameAt(b, next, j)
  <2>1. SameAt(b, state, j) /\ SameAt(state, next, j)
    BY <1>5, <1>8, <1>11 DEF k
  <2> QED
    BY <2>1 DEF SameAt
<1>12. next.stale => ghost[p].stale \/ ~OfRound(cs, rounds[p])
  BY <1>5, <1>8 DEF OfRound, cs
<1> QED
  BY <1>8, <1>9, <1>10, <1>11, <1>12 DEF AfterSome, b, o, cs, next

\* A finite set of numbers has a greatest one.
LEMMA GreatestIndex ==
    ASSUME NEW n \in Nat, NEW s \in SUBSET (1..n), s # {}
    PROVE  Max(s) \in s
<1> DEFINE T == {n - x : x \in s}
<1>1. T \subseteq Nat /\ T # {}
  <2>1. \A x \in s : n - x \in Nat
    OBVIOUS
  <2> QED
    BY <2>1
<1> HIDE DEF T
<1>2. PICK t \in T : \A y \in T : t <= y
  BY <1>1, LeastNumber
<1>3. PICK x \in s : t = n - x
  BY DEF T
<1>4. ASSUME NEW y \in s PROVE x >= y
  <2>1. n - y \in T
    BY DEF T
  <2> QED
    BY <1>2, <1>3, <2>1
<1> QED
  BY <1>4 DEF Max

\* The whole packet.
LEMMA ReadingEffect ==
    ASSUME TypeInv, NEW p \in Player, NEW packet \in GoodPacket
    PROVE  AfterSome(p, packet, AfterReading(p, packet), DOMAIN packet.changes)
<1> DEFINE cs == packet.changes
           D == DOMAIN cs
           pick == [s \in SUBSET D |-> Max(s)]
           step == [x \in D \X Reading |-> AfterChange(p, packet.pnum, x[2], cs[x[1]])]
           Value_(f, s) == IF s = {} THEN Before(p)
                           ELSE AfterChange(p, packet.pnum, f[s \ {Max(s)}], cs[Max(s)])
           Eq(f) == f = [s \in SUBSET D |-> Value_(f, s)]
<1>1. cs \in Seq(GoodChange) /\ Len(cs) \in Nat /\ D = 1..Len(cs) /\ packet.pnum \in Player
  <2>1. cs \in Seq(GoodChange) /\ packet.pnum \in Player
    BY DEF GoodPacket, GoodChanges
  <2> QED
    BY <2>1, LenProperties
<1>2. IsFiniteSet(D)
  BY <1>1, FS_Interval
<1>3. \A s \in SUBSET D : s # {} => pick[s] = Max(s) /\ Max(s) \in s
  BY <1>1, GreatestIndex
<1>4. step \in [D \X Reading -> Reading]
  <2>1. ASSUME NEW i \in D, NEW state \in Reading
        PROVE  AfterChange(p, packet.pnum, state, cs[i]) \in Reading
    <3>1. cs[i] \in GoodChange
      BY <1>1
    <3> QED
      BY <1>1, <3>1, ChangeEffect
  <2> QED
    BY <2>1
<1>5. PICK iter \in [SUBSET D -> Reading] : IsFold(iter, D, Before(p), step, pick)
  <2> HIDE DEF pick, step, D
  <2>1. \A s \in SUBSET D : s # {} => pick[s] \in s
    BY <1>3
  <2> QED
    BY <1>2, <1>4, <2>1, BeforeType, FoldExists
<1>6. Eq(iter)
  <2>1. \A s \in SUBSET D : iter[s] = Value_(iter, s)
    <3> SUFFICES ASSUME NEW s \in SUBSET D, s # {} PROVE iter[s] = Value_(iter, s)
      BY <1>5 DEF IsFold
    <3>1. iter[s] = step[<<Max(s), iter[s \ {Max(s)}]>>]
      BY <1>3, <1>5 DEF IsFold
    <3>2. Max(s) \in D /\ iter[s \ {Max(s)}] \in Reading
      BY <1>3, <1>5
    <3> QED
      BY <3>1, <3>2
  <2> HIDE DEF Value_
  <2> QED
    BY <2>1
<1>7. AfterReading(p, packet) = (CHOOSE f : Eq(f))[D]
  BY DEF AfterReading, FoldLeft, MapThenFoldSet, Before
<1>8. ASSUME NEW f, Eq(f) PROVE AfterSome(p, packet, f[D], D)
  <2> DEFINE W == {s \in SUBSET D : AfterSome(p, packet, f[s], s)}
  <2>1. \A s \in SUBSET D : f[s] = Value_(f, s)
    BY <1>8
  <2>2. ASSUME NEW s \in SUBSET D, \A x \in s : s \ {x} \in W PROVE s \in W
    <3>1. CASE s = {}
      <4>1. f[s] = Before(p)
        BY <2>1, <3>1
      <4>2. AfterSome(p, packet, Before(p), s)
        BY <3>1, BeforeType DEF AfterSome, SamePhase, SameAt, Before
      <4> QED
        BY <4>1, <4>2
    <3>2. CASE s # {}
      <4> DEFINE x == Max(s)
      <4>1. x \in s
        BY <1>3, <3>2
      <4>2. AfterSome(p, packet, f[s \ {x}], s \ {x})
        BY <2>2, <4>1
      <4>3. f[s] = AfterChange(p, packet.pnum, f[s \ {x}], cs[x])
        BY <2>1, <3>2
      <4> HIDE DEF x
      <4>4. AfterSome(p, packet, f[s], s)
        BY <4>1, <4>2, <4>3, OneMore
      <4> QED
        BY <4>4
    <3> QED
      BY <3>1, <3>2
  <2>3. D \in W
    <3> HIDE DEF W, D
    <3> QED
      BY <1>2, <2>2, FiniteInduction
  <2> QED
    BY <2>3
<1> DEFINE f == CHOOSE g : Eq(g)
<1>9. Eq(f)
  <2> HIDE DEF Eq
  <2> QED
    BY <1>6
<1> HIDE DEF Eq, f
<1>10. AfterSome(p, packet, f[D], D)
  BY <1>8, <1>9
<1> QED
  BY <1>7, <1>10 DEF f

-----------------------------------------------------------------------------
(* Sending what has changed *)

\* The change that player p makes of message m.
NewChange(p, m) == [type |-> m, data |-> value[p][Target(m, p)], round |-> rounds[p]]

LEMMA NotedFacts ==
    ASSUME TypeInv, NEW p \in Player
    PROVE  /\ Noted(p) \subseteq Message
           /\ \A m \in Noted(p) : NewChange(p, m) \in GoodChange /\ m \notin Queued(p)
<1>1. Noted(p) \subseteq Message
  BY DEF Noted, Wanted
<1>2. ASSUME NEW m \in Noted(p) PROVE NewChange(p, m) \in GoodChange
  <2>1. value[p] \in GoodMemory /\ rounds[p] \in 0..MaxRounds /\ Target(m, p) \in Memory
    BY <1>1, MemoryFacts DEF TypeInv
  <2>2. value[p][Target(m, p)] \in Contents
    BY <2>1 DEF GoodMemory
  <2>3. m = "GameState" => value[p][Target(m, p)] \in GameState
    BY <2>1 DEF GoodMemory, Target
  <2> QED
    BY <1>1, <2>1, <2>2, <2>3 DEF NewChange, GoodChange, Change, Contents
<1> QED
  BY <1>1, <1>2 DEF Noted

LEMMA Joined ==
    ASSUME NEW s \in GoodChanges, NEW x \in GoodChange, \A y \in ToSet(s) : y.type # x.type
    PROVE  s \o <<x>> \in GoodChanges /\ ToSet(s \o <<x>>) = ToSet(s) \cup {x}
<1> DEFINE t == s \o <<x>>
<1>1. s \in Seq(GoodChange) /\ NoTypeTwice(s)
  BY DEF GoodChanges
<1>2. t = Append(s, x)
  BY <1>1, AppendIsConcat
<1>3. /\ t \in Seq(GoodChange) /\ Len(s) \in Nat /\ DOMAIN s = 1..Len(s)
      /\ DOMAIN t = 1..(Len(s) + 1)
      /\ \A i \in DOMAIN s : t[i] = s[i]
      /\ t[Len(s) + 1] = x
  BY <1>1, <1>2, AppendFacts
<1> HIDE DEF t
<1>4. \A i \in DOMAIN s : s[i].type # x.type
  BY DEF ToSet
<1>5. NoTypeTwice(t)
  BY <1>1, <1>3, <1>4 DEF NoTypeTwice
<1>6. ToSet(t) = ToSet(s) \cup {x}
  BY <1>3 DEF ToSet
<1> QED
  BY <1>3, <1>5, <1>6 DEF GoodChanges, t

\* q is the packet of player p with the changes of the messages ms added.
Extends(p, q, ms) ==
    /\ q \in GoodChanges
    /\ ToSet(q) = ToSet(tcp_packet[p]) \cup {NewChange(p, m) : m \in ms \cap Noted(p)}

LEMMA RequestOne ==
    ASSUME TypeInv, NEW p \in Player, NEW q, NEW ms, Extends(p, q, ms), NEW m, m \notin ms
    PROVE  Extends(p, q \o Request(p, m), ms \cup {m})
<1>1. CASE m \in Noted(p)
  <2>1. Request(p, m) = <<NewChange(p, m)>>
    BY <1>1 DEF Request, NewChange, Noted
  <2>2. NewChange(p, m) \in GoodChange /\ NewChange(p, m).type = m
    BY <1>1, NotedFacts DEF NewChange
  <2>3. \A y \in ToSet(tcp_packet[p]) : y.type # m
    BY <1>1, NotedFacts DEF Queued, ToSet
  <2>4. \A y \in ToSet(q) : y.type # m
    BY <2>3 DEF Extends, NewChange
  <2>5. q \o <<NewChange(p, m)>> \in GoodChanges
        /\ ToSet(q \o <<NewChange(p, m)>>) = ToSet(q) \cup {NewChange(p, m)}
    BY <2>2, <2>4, Joined DEF Extends
  <2> QED
    BY <1>1, <2>1, <2>5 DEF Extends
<1>2. CASE m \notin Noted(p)
  <2>1. Request(p, m) = <<>> /\ (ms \cup {m}) \cap Noted(p) = ms \cap Noted(p)
    BY <1>2 DEF Request, Noted
  <2>2. q \o <<>> = q
    BY ConcatEmptySeq DEF Extends, GoodChanges
  <2> QED
    BY <2>1, <2>2 DEF Extends
<1> QED
  BY <1>1, <1>2

\* What Send queues: the changes that are noted, none of a message that is there already.
LEMMA SendQueues ==
    ASSUME TypeInv, NEW p \in Player, Send(p)
    PROVE  /\ tcp_packet' \in [Player -> GoodChanges]
           /\ \A q \in Player : q # p => tcp_packet'[q] = tcp_packet[q]
           /\ ToSet(tcp_packet'[p])
                  = ToSet(tcp_packet[p]) \cup {NewChange(p, m) : m \in Noted(p)}
<1> DEFINE q0 == tcp_packet[p]
           q1 == q0 \o Request(p, "GameState")
           q2 == q1 \o Request(p, "PauseSelection")
           q3 == q2 \o Request(p, "TimeStopped")
           q4 == q3 \o Request(p, "SpecialAttacks")
           q5 == q4 \o Request(p, "BattleOptions")
           q6 == q5 \o Request(p, "StageSelection2P")
<1>1. tcp_packet \in [Player -> GoodChanges]
  BY DEF TypeInv
<1>2. tcp_packet' = [tcp_packet EXCEPT ![p] = q6]
  BY DEF Send
<1>3. Extends(p, q0, {})
  BY <1>1 DEF Extends
<1> HIDE DEF q6
<1>4. Extends(p, q6, Message)
  <2>1. Extends(p, q1, {"GameState"})
    BY <1>3, RequestOne
  <2>2. Extends(p, q2, {"GameState", "PauseSelection"})
    BY <2>1, RequestOne
  <2>3. Extends(p, q3, {"GameState", "PauseSelection", "TimeStopped"})
    BY <2>2, RequestOne
  <2>4. Extends(p, q4, {"GameState", "PauseSelection", "TimeStopped", "SpecialAttacks"})
    BY <2>3, RequestOne
  <2>5. Extends(p, q5, {"GameState", "PauseSelection", "TimeStopped", "SpecialAttacks",
                        "BattleOptions"})
    BY <2>4, RequestOne
  <2>6. Extends(p, q6, {"GameState", "PauseSelection", "TimeStopped", "SpecialAttacks",
                        "BattleOptions", "StageSelection2P"})
    BY <2>5, RequestOne DEF q6
  <2> QED
    BY <2>6, NotedFacts, MessageAssumption DEF Extends
<1>5. Message \cap Noted(p) = Noted(p)
  BY NotedFacts
<1>6. tcp_packet'[p] = q6
  BY <1>1, <1>2
<1> QED
  BY <1>1, <1>2, <1>4, <1>5, <1>6 DEF Extends

-----------------------------------------------------------------------------
(* The barrier *)

LEMMA PhaseType ==
    ASSUME TypeInv, NEW p \in Player
    PROVE  Phase(p) \in GameState /\ Phase(p) \in Int /\ rounds[p] \in Nat /\ Passed(p) \in Int
<1>1. value[p] \in GoodMemory /\ rounds[p] \in 0..MaxRounds
  BY DEF TypeInv
<1>2. Phase(p) \in GameState
  BY <1>1 DEF Phase, GoodMemory
<1>3. Phase(p) \in Int
  BY <1>2 DEF GameState, Inactive, Loading, Exit_1, NormalExit, Ingame, Pause
<1>4. rounds[p] \in Nat
  BY <1>1, BoundsAssumption
<1> QED
  BY <1>2, <1>3, <1>4 DEF Passed

\* What the counts of the barriers say of the rounds.
LEMMA RoundsAgree ==
    ASSUME TypeInv, BarrierInv, NEW c \in Client
    PROVE  /\ Phase(Host) # Loading => rounds[c] = rounds[Host]
           /\ ~Behind(c) => /\ rounds[c] = rounds[Host]
                            /\ Phase(c) = Loading <=> Phase(Host) = Loading
           /\ Behind(c) => /\ Passed(c) = Passed(Host) - 1
                           /\ Phase(c) = Loading <=> Phase(Host) # Loading
                           /\ waiting[c] /\ toHost[c] = <<>>
<1>1. c \in Player /\ Host \in Player
  BY Players01
<1>2. rounds[c] \in Nat /\ rounds[Host] \in Nat
  BY <1>1, PhaseType
<1>3. ToClientInv(c) /\ ToHostInv(c)
  BY DEF BarrierInv
<1>4. Passed(c) \in {Passed(Host) - 1, Passed(Host)}
  BY <1>3 DEF ToClientInv
<1>5. Behind(c) => waiting[c] /\ toHost[c] = <<>>
  BY <1>3 DEF ToClientInv, ToHostInv
<1> QED
  BY <1>2, <1>4, <1>5 DEF Passed, Behind

\* Nothing but what a player passes is counted.
LEMMA SamePassed ==
    ASSUME rounds' = rounds, \A q \in Player : Phase(q)' = Loading <=> Phase(q) = Loading
    PROVE  /\ \A q \in Player : Passed(q)' = Passed(q)
           /\ \A c \in Client : Behind(c)' <=> Behind(c)
<1>1. \A q \in Player : Passed(q)' = Passed(q)
  BY DEF Passed
<1> QED
  BY <1>1, Players01 DEF Behind

\* A step that neither sends nor reads nor waits keeps the streams as they are.
LEMMA StreamsKept ==
    ASSUME BarrierInv, UNCHANGED <<streams, waiting, ready, rounds>>,
           \A q \in Player : Phase(q)' = Loading <=> Phase(q) = Loading
    PROVE  /\ \A c \in Client : ToHostInv(c)' /\ ToClientInv(c)'
           /\ ready'[Host] = Cardinality(Counted')
<1>1. /\ \A q \in Player : Passed(q)' = Passed(q)
      /\ \A c \in Client : Behind(c)' <=> Behind(c)
  BY SamePassed
<1>2. UNCHANGED <<toHost, toClient, waiting, ready, rounds>>
  BY DEF streams
<1>3. ASSUME NEW c \in Client PROVE ToHostInv(c)'
  <2>1. ToHostInv(c)
    BY DEF BarrierInv
  <2> QED
    BY <1>1, <1>2, <2>1, Players01 DEF ToHostInv, OfRound
<1>4. ASSUME NEW c \in Client PROVE ToClientInv(c)'
  <2>1. ToClientInv(c)
    BY DEF BarrierInv
  <2>2. Passed(c)' = Passed(c) /\ Passed(Host)' = Passed(Host) /\ (Behind(c)' <=> Behind(c))
        /\ (Phase(Host)' = Loading <=> Phase(Host) = Loading)
    BY <1>1, Players01
  <2> QED
    BY <1>2, <2>1, <2>2 DEF ToClientInv, OfRound
<1>5. Counted' = Counted
  BY <1>1, <1>2 DEF Counted
<1> QED
  BY <1>2, <1>3, <1>4, <1>5 DEF BarrierInv

-----------------------------------------------------------------------------
(* The steps of the games *)

LEMMA WriteInv ==
    ASSUME Inv, NEW p \in Player, NEW k \in Memory, NEW v \in Value, Write(p, k, v)
    PROVE  Inv'
<1> USE DEF Inv
<1>1. k # "GameState"
  BY DEF Write, MayWrite, MenuMessage, Target
<1>2. /\ value \in [Player -> GoodMemory] /\ ghost \in [Player -> GoodGhost]
      /\ value' = [value EXCEPT ![p][k] = v]
      /\ ghost' = [ghost EXCEPT ![p].touched = @ \cup {k}]
  BY DEF Write, TypeInv
<1>3. /\ UNCHANGED <<local, subMenu, localSubMenu, tcp_packet, streams, waiting, ready, rounds>>
  BY DEF Write
<1>4. value' \in [Player -> GoodMemory] /\ \A q \in Player : Phase(q)' = Phase(q)
  <2>1. [value[p] EXCEPT ![k] = v] \in GoodMemory
        /\ [value[p] EXCEPT ![k] = v]["GameState"] = value[p]["GameState"]
    <3>1. value[p] \in [Memory -> Contents] /\ value[p]["GameState"] \in GameState /\ v \in Contents
      BY <1>2 DEF GoodMemory, Contents
    <3>2. [value[p] EXCEPT ![k] = v] \in [Memory -> Contents]
      BY <3>1
    <3>3. [value[p] EXCEPT ![k] = v]["GameState"] = value[p]["GameState"]
      BY <1>1, <3>1, MemoryFacts
    <3> QED
      BY <3>1, <3>2, <3>3 DEF GoodMemory
  <2>2. value' = [value EXCEPT ![p] = [value[p] EXCEPT ![k] = v]]
    BY <1>2
  <2> QED
    BY <1>2, <2>1, <2>2 DEF Phase
<1>5. ghost' \in [Player -> GoodGhost] /\ \A q \in Player : ghost'[q].stale = ghost[q].stale
  <2>1. ghost[p] \in GoodGhost
    BY <1>2
  <2>2. [ghost[p] EXCEPT !.touched = @ \cup {k}] \in GoodGhost
        /\ [ghost[p] EXCEPT !.touched = @ \cup {k}].stale = ghost[p].stale
    BY <2>1 DEF GoodGhost
  <2> QED
    BY <1>2, <2>2
<1>6. TypeInv'
  <2>1. used' \in [writes : Nat, moves : Nat]
    <3>1. used \in [writes : Nat, moves : Nat] /\ used' = [used EXCEPT !.writes = @ + 1]
      BY DEF Write, TypeInv
    <3> QED
      BY <3>1
  <2> QED
    BY <1>3, <1>4, <1>5, <2>1 DEF TypeInv, streams
<1>7. BarrierInv'
  <2>1. ASSUME NEW q \in Player PROVE PlayerInv(q)'
    BY <1>3, <1>4 DEF BarrierInv, PlayerInv, OfRound
  <2>2. \A q \in Player : ~ghost'[q].stale
    BY <1>5 DEF BarrierInv
  <2> QED
    BY <1>3, <1>4, <2>1, <2>2, StreamsKept DEF BarrierInv
<1>8. OwnerInv'
  BY <1>3 DEF OwnerInv, FromClient, FromOwner, streams
<1> QED
  BY <1>6, <1>7, <1>8

LEMMA EnterSubMenuInv ==
    ASSUME Inv, NEW s \in SubMenus, EnterSubMenu(s)
    PROVE  Inv'
<1> USE DEF Inv
<1>1. /\ UNCHANGED <<value, local, localSubMenu, tcp_packet, streams, waiting, ready, rounds, ghost>>
      /\ subMenu' = s
  BY DEF EnterSubMenu
<1>2. TypeInv'
  <2>1. used' \in [writes : Nat, moves : Nat]
    <3>1. used \in [writes : Nat, moves : Nat] /\ used' = [used EXCEPT !.writes = @ + 1]
      BY DEF EnterSubMenu, TypeInv
    <3> QED
      BY <3>1
  <2> QED
    BY <1>1, <2>1 DEF TypeInv, streams
<1>3. BarrierInv'
  <2>1. ASSUME NEW q \in Player PROVE PlayerInv(q)' /\ Phase(q)' = Phase(q)
    BY <1>1 DEF BarrierInv, PlayerInv, OfRound, Phase
  <2> QED
    BY <1>1, <2>1, StreamsKept DEF BarrierInv
<1>4. OwnerInv'
  BY <1>1 DEF OwnerInv, FromClient, FromOwner, streams
<1> QED
  BY <1>2, <1>3, <1>4

LEMMA MoveInv ==
    ASSUME Inv, NEW p \in Player, NEW s \in GameState, Move(p, s)
    PROVE  Inv'
<1> USE DEF Inv
<1>1. /\ UNCHANGED <<local, subMenu, localSubMenu, tcp_packet, streams, waiting, ready, rounds, ghost>>
      /\ value' = [value EXCEPT ![p]["GameState"] = s]
      /\ value \in [Player -> GoodMemory]
      /\ ~waiting[p]
  BY DEF Move, TypeInv
<1>2. Phase(p) # Loading /\ s # Loading
  BY DEF Move, GameMoves, Phase, Ingame, Pause, NormalExit, Exit_1, Inactive, Loading
<1>3. value' = [value EXCEPT ![p] = [value[p] EXCEPT !["GameState"] = s]]
  BY <1>1
<1>4. [value[p] EXCEPT !["GameState"] = s] \in GoodMemory
      /\ [value[p] EXCEPT !["GameState"] = s]["GameState"] = s
  BY <1>1, MemoryFacts DEF GoodMemory, Contents
<1>5. value' \in [Player -> GoodMemory] /\ Phase(p)' = s
      /\ \A q \in Player : q # p => Phase(q)' = Phase(q)
  BY <1>1, <1>3, <1>4 DEF Phase
<1>6. TypeInv'
  <2>1. used' \in [writes : Nat, moves : Nat]
    <3>1. used \in [writes : Nat, moves : Nat] /\ used' = [used EXCEPT !.moves = IF s = Inactive THEN @ ELSE @ + 1]
      BY DEF Move, TypeInv
    <3> QED
      BY <3>1
  <2> QED
    BY <1>1, <1>5, <2>1 DEF TypeInv, streams
<1>7. BarrierInv'
  <2>1. ASSUME NEW q \in Player PROVE PlayerInv(q)' /\ (Phase(q)' = Loading <=> Phase(q) = Loading)
    BY <1>1, <1>2, <1>5 DEF BarrierInv, PlayerInv, OfRound
  <2> QED
    BY <1>1, <2>1, StreamsKept DEF BarrierInv
<1>8. OwnerInv'
  BY <1>1 DEF OwnerInv, FromClient, FromOwner, streams
<1> QED
  BY <1>6, <1>7, <1>8

\* What a player sends that has nothing to send, and what is sent of what is queued.
LEMMA PacketTypes ==
    ASSUME TypeInv, NEW p \in Player
    PROVE  /\ NReady(p) \in GoodPacket /\ NReady(p).ready /\ NReady(p).pnum = p
           /\ NReady(p).changes = <<>> /\ <<>> \in GoodChanges
           /\ Changes(p) \in GoodPacket /\ ~Changes(p).ready /\ Changes(p).pnum = p
           /\ Changes(p).changes = tcp_packet[p]
<1>1. <<>> \in GoodChanges
  BY EmptySeq DEF GoodChanges, NoTypeTwice
<1>2. tcp_packet[p] \in GoodChanges
  BY DEF TypeInv
<1> QED
  BY <1>1, <1>2 DEF NReady, Changes, GoodPacket

LEMMA ArriveInv ==
    ASSUME Inv, NEW p \in Player, Arrive(p)
    PROVE  Inv'
<1> USE DEF Inv
<1>1. /\ UNCHANGED <<value, local, subMenu, localSubMenu, tcp_packet, toClient, ready, rounds, ghost, used>>
      /\ waiting' = [waiting EXCEPT ![p] = TRUE] /\ waiting \in [Player -> BOOLEAN]
      /\ toHost \in [Client -> Seq(GoodPacket)]
      /\ ~waiting[p] /\ tcp_packet[p] = <<>>
  BY DEF Arrive, TypeInv
<1>2. waiting' \in [Player -> BOOLEAN] /\ waiting'[p] /\ \A q \in Player : q # p => waiting'[q] = waiting[q]
  BY <1>1
<1>3. /\ \A q \in Player : Phase(q)' = Phase(q) /\ Passed(q)' = Passed(q)
      /\ \A c \in Client : Behind(c)' <=> Behind(c)
  BY <1>1, SamePassed DEF Phase
<1>4. \A q \in Player : PlayerInv(q)'
  <2>1. PlayerInv(p)'
    <3>1. Phase(p) \in {Inactive, Loading} /\ (Phase(p) = Inactive => rounds[p] < MaxRounds)
      BY DEF Arrive, Phase, Inactive, Loading
    <3> QED
      BY <1>1, <1>3, <3>1 DEF PlayerInv, OfRound
  <2>2. \A q \in Player : q # p => PlayerInv(q)'
    BY <1>1, <1>2, <1>3 DEF BarrierInv, PlayerInv, OfRound
  <2> QED
    BY <2>1, <2>2
<1>5. CASE p = Host
  <2>1. toHost' = toHost /\ \A c \in Client : waiting'[c] = waiting[c]
    BY <1>2, <1>5, Players01 DEF Arrive
  <2>2. TypeInv'
    BY <1>1, <1>2, <2>1 DEF TypeInv
  <2>3. ASSUME NEW c \in Client PROVE ToHostInv(c)' /\ ToClientInv(c)'
    <3>1. ToHostInv(c) /\ ToClientInv(c) /\ c \in Player /\ Host \in Player
      BY Players01 DEF BarrierInv
    <3>2. ToHostInv(c)'
      BY <1>1, <1>3, <2>1, <3>1 DEF ToHostInv, OfRound
    <3>3. ToClientInv(c)'
      BY <1>1, <1>3, <2>1, <3>1 DEF ToClientInv, OfRound
    <3> QED
      BY <3>2, <3>3
  <2>4. Counted' = Counted
    BY <1>3, <2>1 DEF Counted
  <2>5. BarrierInv'
    BY <1>1, <1>4, <2>3, <2>4 DEF BarrierInv
  <2>6. OwnerInv'
    BY <1>1, <2>1 DEF OwnerInv, FromClient, FromOwner
  <2> QED
    BY <2>2, <2>5, <2>6
<1>6. CASE p # Host
  <2>1. p \in Client
    BY <1>6, Players01
  <2> DEFINE old == toHost[p]
             new == Append(toHost[p], NReady(p))
  <2>2. old \in Seq(GoodPacket) /\ NReady(p) \in GoodPacket
    BY <1>1, <2>1, PacketTypes
  <2>3. /\ new \in Seq(GoodPacket) /\ new # <<>> /\ Len(old) \in Nat /\ Len(new) = Len(old) + 1
        /\ DOMAIN old = 1..Len(old) /\ DOMAIN new = 1..(Len(old) + 1)
        /\ \A i \in DOMAIN old : new[i] = old[i]
        /\ new[Len(old) + 1] = NReady(p)
    BY <2>2, AppendFacts
  <2> HIDE DEF new
  <2>4. /\ toHost' \in [Client -> Seq(GoodPacket)] /\ toHost'[p] = new
        /\ \A c \in Client : c # p => toHost'[c] = toHost[c]
    BY <1>1, <1>6, <2>1, <2>3 DEF Arrive, new
  <2>5. TypeInv'
    BY <1>1, <1>2, <2>4 DEF TypeInv
  <2>6. ~Behind(p)
    BY <1>1, <2>1, RoundsAgree
  <2>7. \A i \in DOMAIN new : new[i].ready <=> i = Len(new)
    <3>1. \A i \in DOMAIN old : ~old[i].ready
      BY <1>1, <2>1 DEF BarrierInv, ToHostInv
    <3>2. NReady(p).ready
      BY PacketTypes
    <3> QED
      BY <2>3, <3>1, <3>2
  <2>8. \A i \in DOMAIN new : /\ ~new[i].ready => Phase(p) # Loading
                              /\ OfRound(new[i].changes, rounds[p])
    <3>1. \A i \in DOMAIN old : /\ ~old[i].ready => Phase(p) # Loading
                                /\ OfRound(old[i].changes, rounds[p])
      BY <2>1 DEF BarrierInv, ToHostInv
    <3>2. OfRound(NReady(p).changes, rounds[p]) /\ NReady(p).ready
      BY DEF OfRound, NReady
    <3> QED
      BY <2>3, <3>1, <3>2
  <2>9. ASSUME NEW c \in Client PROVE ToHostInv(c)' /\ ToClientInv(c)'
    <3>1. ToHostInv(c) /\ ToClientInv(c) /\ c \in Player /\ Host \in Player
      BY Players01 DEF BarrierInv
    <3>2. ToHostInv(c)'
      <4>1. CASE c = p
        BY <1>1, <1>2, <1>3, <2>1, <2>4, <2>6, <2>7, <2>8, <4>1 DEF ToHostInv, OfRound
      <4>2. CASE c # p
        BY <1>1, <1>2, <1>3, <2>4, <3>1, <4>2 DEF ToHostInv, OfRound
      <4> QED
        BY <4>1, <4>2
    <3>3. ToClientInv(c)'
      BY <1>1, <1>2, <1>3, <2>6, <3>1 DEF ToClientInv, OfRound
    <3> QED
      BY <3>2, <3>3
  <2>10. Counted' = Counted
    <3>1. p \notin Counted /\ p \notin Counted'
      BY <1>1, <2>1, <2>3, <2>4 DEF Counted
    <3>2. \A c \in Client : c # p => (c \in Counted <=> c \in Counted')
      BY <1>2, <1>3, <2>4, Players01 DEF Counted
    <3> QED
      BY <3>1, <3>2 DEF Counted
  <2>11. BarrierInv'
    BY <1>1, <1>4, <2>9, <2>10 DEF BarrierInv
  <2>12. OwnerInv'
    <3>1. \A i \in DOMAIN new : FromClient(new[i], p)
      <4>1. \A i \in DOMAIN old : FromClient(old[i], p)
        BY <2>1 DEF OwnerInv
      <4>2. FromClient(NReady(p), p)
        BY DEF FromClient, FromOwner, NReady
      <4> QED
        BY <2>3, <4>1, <4>2
    <3>2. \A c \in Client : \A i \in DOMAIN toHost'[c] :
              FromClient(toHost'[c][i], c)
      BY <2>4, <3>1 DEF OwnerInv
    <3> QED
      BY <1>1, <3>2 DEF OwnerInv, FromClient, FromOwner
  <2> QED
    BY <2>5, <2>11, <2>12
<1> QED
  BY <1>5, <1>6

LEMMA SendInv ==
    ASSUME Inv, NEW p \in Player, Send(p)
    PROVE  Inv'
<1> USE DEF Inv
<1> DEFINE noted == {Target(m, p) : m \in Noted(p)}
<1>1. /\ UNCHANGED <<value, subMenu, streams, waiting, ready, rounds, used>>
      /\ local' = [local EXCEPT ![p] = [k \in Memory |-> IF k \in noted THEN value[p][k] ELSE @[k]]]
      /\ localSubMenu' = IF p = Host /\ InMenu(value[p]) THEN subMenu ELSE localSubMenu
      /\ ghost' = [ghost EXCEPT
               ![p].sent = [k \in Memory |-> IF k \in noted THEN value[p][k] ELSE @[k]],
               ![p].skipped = @ \ noted]
      /\ p \in Sender /\ ~waiting[p]
      /\ value \in [Player -> GoodMemory] /\ local \in [Player -> [Memory -> Contents]]
      /\ ghost \in [Player -> GoodGhost]
  BY DEF Send, TypeInv
<1>2. /\ tcp_packet' \in [Player -> GoodChanges]
      /\ \A q \in Player : q # p => tcp_packet'[q] = tcp_packet[q]
      /\ ToSet(tcp_packet'[p]) = ToSet(tcp_packet[p]) \cup {NewChange(p, m) : m \in Noted(p)}
  BY SendQueues
<1>3. \A i \in DOMAIN tcp_packet'[p] :
          \/ \E j \in DOMAIN tcp_packet[p] : tcp_packet'[p][i] = tcp_packet[p][j]
          \/ \E m \in Noted(p) : tcp_packet'[p][i] = NewChange(p, m)
  BY <1>2 DEF ToSet
<1> HIDE DEF noted
<1>4. \A q \in Player : Phase(q)' = Phase(q)
  BY <1>1 DEF Phase
<1>5. local' \in [Player -> [Memory -> Contents]]
  <2>1. value[p] \in [Memory -> Contents] /\ local[p] \in [Memory -> Contents]
    BY <1>1 DEF GoodMemory
  <2>2. [k \in Memory |-> IF k \in noted THEN value[p][k] ELSE local[p][k]] \in [Memory -> Contents]
    BY <2>1
  <2> QED
    BY <1>1, <2>2
<1>6. ghost' \in [Player -> GoodGhost] /\ \A q \in Player : ghost'[q].stale = ghost[q].stale
  <2>1. value[p] \in [Memory -> Contents] /\ ghost[p] \in GoodGhost
    BY <1>1 DEF GoodMemory
  <2> DEFINE sent == [k \in Memory |-> IF k \in noted THEN value[p][k] ELSE ghost[p].sent[k]]
             new == [ghost[p] EXCEPT !.sent = sent, !.skipped = @ \ noted]
  <2>2. sent \in [Memory -> Contents]
    BY <2>1 DEF GoodGhost
  <2>3. ghost' = [ghost EXCEPT ![p] = new]
    BY <1>1
  <2> HIDE DEF sent
  <2>4. new \in GoodGhost /\ new.stale = ghost[p].stale
    BY <2>1, <2>2 DEF GoodGhost
  <2> HIDE DEF new
  <2> QED
    BY <1>1, <2>3, <2>4
<1>7. TypeInv'
  BY <1>1, <1>2, <1>5, <1>6 DEF TypeInv, streams
<1>8. BarrierInv'
  <2>1. PlayerInv(p)'
    <3>1. OfRound(tcp_packet'[p], rounds[p])
      <4>1. \A j \in DOMAIN tcp_packet[p] : tcp_packet[p][j].round = rounds[p]
        BY DEF BarrierInv, PlayerInv, OfRound
      <4>2. \A m \in Noted(p) : NewChange(p, m).round = rounds[p]
        BY DEF NewChange
      <4> QED
        BY <1>3, <4>1, <4>2 DEF OfRound
    <3>2. tcp_packet'[p] # <<>> => Phase(p) # Loading
      <4>1. ASSUME Phase(p) = Loading PROVE Noted(p) = {} /\ tcp_packet[p] = <<>>
        BY <4>1 DEF Noted, Wanted, WantedInRound, WantedInMenu, RoundStarted, InMenu, Phase,
                    Loading, LoadFinished, Inactive, BarrierInv, PlayerInv
      <4>2. ASSUME Phase(p) = Loading PROVE tcp_packet'[p] = <<>>
        <5>1. DOMAIN tcp_packet'[p] = {}
          BY <1>3, <4>1, <4>2
        <5>2. tcp_packet'[p] \in Seq(GoodChange)
          BY <1>2 DEF GoodChanges
        <5>3. tcp_packet'[p] # <<>> => 1 \in DOMAIN tcp_packet'[p]
          BY <5>2, TailFacts
        <5> QED
          BY <5>1, <5>3
      <4> QED
        BY <4>2
    <3> QED
      BY <1>1, <1>4, <3>1, <3>2 DEF PlayerInv, OfRound
  <2>2. \A q \in Player : PlayerInv(q)'
    BY <1>1, <1>2, <1>4, <2>1 DEF BarrierInv, PlayerInv, OfRound
  <2>3. \A q \in Player : ~ghost'[q].stale
    BY <1>6 DEF BarrierInv
  <2> QED
    BY <1>1, <1>4, <2>2, <2>3, StreamsKept DEF BarrierInv
<1>9. OwnerInv'
  <2>1. \A m \in Noted(p) : m \in MenuMessage => p = Host
    BY DEF Noted, Wanted, WantedInMenu, MenuMessage, SystemMessage
  <2>2. FromOwner(tcp_packet'[p], p)
    <3>1. \A j \in DOMAIN tcp_packet[p] : tcp_packet[p][j].type \in MenuMessage => p = Host
      BY DEF OwnerInv, FromClient, FromOwner
    <3>2. \A m \in Noted(p) : NewChange(p, m).type \in MenuMessage => p = Host
      BY <2>1 DEF NewChange
    <3> QED
      BY <1>1, <1>3, <3>1, <3>2 DEF FromOwner
  <2> QED
    BY <1>1, <1>2, <2>2 DEF OwnerInv, FromClient, FromOwner, streams
<1> QED
  BY <1>7, <1>8, <1>9

\* new is old with x at its end.
Grown(new, old, x) ==
    /\ new \in Seq(GoodPacket) /\ Len(old) \in Nat /\ Len(new) = Len(old) + 1
    /\ DOMAIN old = 1..Len(old) /\ DOMAIN new = 1..(Len(old) + 1)
    /\ \A i \in DOMAIN old : new[i] = old[i]
    /\ new[Len(old) + 1] = x

\* new is old without its first packet, which is x.
Shrunk(new, old, x) ==
    /\ x \in GoodPacket /\ x = old[1] /\ 1 \in DOMAIN old
    /\ new \in Seq(GoodPacket) /\ Len(old) \in Nat /\ Len(new) = Len(old) - 1
    /\ DOMAIN old = 1..Len(old) /\ DOMAIN new = 1..(Len(old) - 1)
    /\ \A i \in DOMAIN new : i + 1 \in DOMAIN old /\ new[i] = old[i + 1]
    /\ \A i \in DOMAIN old : i # 1 => i - 1 \in DOMAIN new /\ old[i] = new[i - 1]
    /\ new = <<>> <=> Len(old) = 1

LEMMA AppendGrown ==
    ASSUME NEW s \in Seq(GoodPacket), NEW x \in GoodPacket
    PROVE  Grown(Append(s, x), s, x)
BY AppendFacts DEF Grown

LEMMA TailShrunk ==
    ASSUME NEW s \in Seq(GoodPacket), s # <<>>
    PROVE  Shrunk(Tail(s), s, Head(s))
BY TailFacts DEF Shrunk

\* What the host sends its clients.
LEMMA SentToClient ==
    ASSUME Inv, NEW c \in Client, NEW x \in GoodPacket, Grown(toClient'[c], toClient[c], x),
           UNCHANGED <<waiting, ready, rounds, value>>, ~x.ready,
           OfRound(x.changes, rounds[c]), Phase(Host) # Loading
    PROVE  ToClientInv(c)'
<1>1. /\ Passed(c)' = Passed(c) /\ Passed(Host)' = Passed(Host) /\ (Behind(c)' <=> Behind(c))
      /\ Phase(Host)' = Phase(Host)
  BY SamePassed, Players01 DEF Phase
<1>2. ToClientInv(c)
  BY DEF Inv, BarrierInv
<1>3. /\ \A i \in DOMAIN toClient'[c] : OfRound(toClient'[c][i].changes, rounds[c])
      /\ \A i \in DOMAIN toClient'[c] : toClient'[c][i].ready =>
             i \in DOMAIN toClient[c] /\ toClient[c][i].ready
      /\ \A i \in DOMAIN toClient[c] : toClient[c][i].ready =>
             i \in DOMAIN toClient'[c] /\ toClient'[c][i].ready
  BY <1>2 DEF Grown, ToClientInv
<1> QED
  BY <1>1, <1>2, <1>3 DEF ToClientInv, OfRound

LEMMA FinalizeInv ==
    ASSUME Inv, NEW p \in Player, Finalize(p)
    PROVE  Inv'
<1> USE DEF Inv
<1>1. /\ UNCHANGED <<value, local, subMenu, localSubMenu, waiting, ready, rounds, ghost, used>>
      /\ tcp_packet' = [tcp_packet EXCEPT ![p] = <<>>] /\ tcp_packet \in [Player -> GoodChanges]
      /\ ~waiting[p] /\ tcp_packet[p] # <<>>
      /\ toHost \in [Client -> Seq(GoodPacket)] /\ toClient \in [Client -> Seq(GoodPacket)]
  BY DEF Finalize, TypeInv
<1>2. tcp_packet' \in [Player -> GoodChanges] /\ tcp_packet'[p] = <<>>
      /\ \A q \in Player : q # p => tcp_packet'[q] = tcp_packet[q]
  BY <1>1, PacketTypes
<1>3. /\ \A q \in Player : Phase(q)' = Phase(q) /\ Passed(q)' = Passed(q)
      /\ \A c \in Client : Behind(c)' <=> Behind(c)
  BY <1>1, SamePassed DEF Phase
<1>4. \A q \in Player : PlayerInv(q)'
  BY <1>1, <1>2, <1>3 DEF BarrierInv, PlayerInv, OfRound
<1>5. /\ Changes(p) \in GoodPacket /\ ~Changes(p).ready /\ Changes(p).pnum = p
      /\ Phase(p) # Loading /\ OfRound(Changes(p).changes, rounds[p])
      /\ FromOwner(Changes(p).changes, p)
  <2>1. PlayerInv(p) /\ FromOwner(tcp_packet[p], p)
    BY DEF BarrierInv, OwnerInv
  <2> QED
    BY <1>1, <2>1, PacketTypes DEF PlayerInv
<1>6. CASE p = Host
  <2>1. /\ toHost' = toHost /\ toClient' \in [Client -> Seq(GoodPacket)]
        /\ \A c \in Client : Grown(toClient'[c], toClient[c], Changes(p))
    <3>1. toHost' = toHost /\ toClient' = [c \in Client |-> Append(toClient[c], Changes(p))]
      BY <1>6 DEF Finalize
    <3>2. \A c \in Client : Grown(Append(toClient[c], Changes(p)), toClient[c], Changes(p))
      BY <1>1, <1>5, AppendGrown
    <3> QED
      BY <3>1, <3>2 DEF Grown
  <2>2. TypeInv'
    BY <1>1, <1>2, <2>1 DEF TypeInv
  <2>3. ASSUME NEW c \in Client PROVE ToHostInv(c)' /\ ToClientInv(c)'
    <3>1. ToHostInv(c) /\ c \in Player
      BY Players01 DEF BarrierInv
    <3>2. ToHostInv(c)'
      BY <1>1, <1>3, <2>1, <3>1 DEF ToHostInv, OfRound
    <3>3. rounds[c] = rounds[Host]
      BY <1>5, <1>6, RoundsAgree
    <3>4. ToClientInv(c)'
      BY <1>1, <1>5, <1>6, <2>1, <3>3, SentToClient
    <3> QED
      BY <3>2, <3>4
  <2>4. Counted' = Counted
    BY <1>1, <1>3, <2>1 DEF Counted
  <2>5. BarrierInv'
    BY <1>1, <1>4, <2>3, <2>4 DEF BarrierInv
  <2>6. ASSUME NEW c \in Client, NEW i \in DOMAIN toClient'[c]
        PROVE  /\ toClient'[c][i].pnum # c
               /\ FromOwner(toClient'[c][i].changes, toClient'[c][i].pnum)
    <3>1. CASE i \in DOMAIN toClient[c]
      BY <2>1, <3>1 DEF OwnerInv, Grown
    <3>2. CASE i \notin DOMAIN toClient[c]
      BY <1>5, <1>6, <2>1, <3>2, Players01 DEF Grown
    <3> QED
      BY <3>1, <3>2
  <2>7. OwnerInv'
    BY <1>2, <2>1, <2>6 DEF OwnerInv, FromClient, FromOwner
  <2> QED
    BY <2>2, <2>5, <2>7
<1>7. CASE p # Host
  <2>1. p \in Client
    BY <1>7, Players01
  <2>2. /\ toClient' = toClient /\ toHost' \in [Client -> Seq(GoodPacket)]
        /\ Grown(toHost'[p], toHost[p], Changes(p))
        /\ \A c \in Client : c # p => toHost'[c] = toHost[c]
    <3>1. toClient' = toClient /\ toHost' = [toHost EXCEPT ![p] = Append(@, Changes(p))]
      BY <1>7 DEF Finalize
    <3>2. Grown(Append(toHost[p], Changes(p)), toHost[p], Changes(p))
      BY <1>1, <1>5, <2>1, AppendGrown
    <3> QED
      BY <1>1, <2>1, <3>1, <3>2 DEF Grown
  <2>3. TypeInv'
    BY <1>1, <1>2, <2>2 DEF TypeInv
  <2>4. ~Behind(p)
    BY <1>1, <2>1, RoundsAgree
  <2>5. ToHostInv(p)'
    <3>1. ToHostInv(p)
      BY <2>1 DEF BarrierInv
    <3>2. \A i \in DOMAIN toHost[p] : /\ ~toHost[p][i].ready
                                      /\ OfRound(toHost[p][i].changes, rounds[p])
      BY <1>1, <3>1 DEF ToHostInv
    <3>3. \A i \in DOMAIN toHost'[p] : /\ ~toHost'[p][i].ready
                                       /\ OfRound(toHost'[p][i].changes, rounds[p])
      BY <1>5, <2>2, <3>2 DEF Grown
    <3> QED
      BY <1>1, <1>3, <1>5, <2>1, <2>4, <3>3 DEF ToHostInv, OfRound
  <2>6. ASSUME NEW c \in Client PROVE ToHostInv(c)' /\ ToClientInv(c)'
    <3>1. ToHostInv(c) /\ ToClientInv(c) /\ c \in Player /\ Host \in Player
      BY Players01 DEF BarrierInv
    <3>2. c # p => ToHostInv(c)'
      BY <1>1, <1>3, <2>2, <3>1 DEF ToHostInv, OfRound
    <3>3. ToClientInv(c)'
      BY <1>1, <1>3, <2>2, <3>1 DEF ToClientInv, OfRound
    <3> QED
      BY <2>5, <3>2, <3>3
  <2>7. Counted' = Counted
    <3>1. p \notin Counted /\ p \notin Counted'
      BY <1>1 DEF Counted
    <3>2. \A c \in Client : c # p => (c \in Counted <=> c \in Counted')
      BY <1>1, <1>3, <2>2 DEF Counted
    <3> QED
      BY <3>1, <3>2 DEF Counted
  <2>8. BarrierInv'
    BY <1>1, <1>4, <2>6, <2>7 DEF BarrierInv
  <2>9. ASSUME NEW i \in DOMAIN toHost'[p]
        PROVE  FromClient(toHost'[p][i], p)
    <3>1. CASE i \in DOMAIN toHost[p]
      BY <2>1, <2>2, <3>1 DEF OwnerInv, Grown
    <3>2. CASE i \notin DOMAIN toHost[p]
      BY <1>5, <2>2, <3>2 DEF Grown, FromClient
    <3> QED
      BY <3>1, <3>2
  <2>10. OwnerInv'
    <3>1. \A q \in Player : FromOwner(tcp_packet'[q], q)
      BY <1>2 DEF OwnerInv, FromClient, FromOwner
    <3>2. \A c \in Client : \A i \in DOMAIN toHost'[c] :
              FromClient(toHost'[c][i], c)
      BY <2>2, <2>9 DEF OwnerInv
    <3> QED
      BY <2>2, <3>1, <3>2 DEF OwnerInv, FromClient, FromOwner
  <2> QED
    BY <2>3, <2>8, <2>10
<1> QED
  BY <1>6, <1>7

\* The game of the player who passes.
LEMMA PassedGame ==
    ASSUME Inv, NEW p \in Player, Pass(p)
    PROVE  /\ value' \in [Player -> GoodMemory] /\ rounds' \in [Player -> 0..MaxRounds]
           /\ \A q \in Player : q # p => Phase(q)' = Phase(q) /\ rounds'[q] = rounds[q]
           /\ \A q \in Player : q # p => Passed(q)' = Passed(q)
           /\ Passed(p)' = Passed(p) + 1
           /\ \/ /\ Phase(p) = Inactive /\ Phase(p)' = Loading
                 /\ rounds'[p] = rounds[p] + 1
              \/ /\ Phase(p) = Loading /\ Phase(p)' = Ingame
                 /\ rounds'[p] = rounds[p]
           /\ tcp_packet[p] = <<>>
<1> USE DEF Inv
<1>1. /\ value \in [Player -> GoodMemory] /\ rounds \in [Player -> 0..MaxRounds]
      /\ waiting[p]
  BY DEF TypeInv, Pass
<1>2. /\ Phase(p) \in {Inactive, Loading} /\ tcp_packet[p] = <<>>
      /\ Phase(p) = Inactive => rounds[p] < MaxRounds
  BY <1>1 DEF BarrierInv, PlayerInv
<1>3. InMenu(value[p]) <=> Phase(p) = Inactive
  BY DEF InMenu, Phase
<1>4. \A s \in GameState : /\ [value[p] EXCEPT !["GameState"] = s] \in GoodMemory
                           /\ [value[p] EXCEPT !["GameState"] = s]["GameState"] = s
  BY <1>1, MemoryFacts DEF GoodMemory, Contents
<1>5. Loading \in GameState /\ Ingame \in GameState /\ Loading # Ingame /\ Loading # Inactive
  BY DEF GameState, Loading, Ingame, Inactive
<1>6. CASE Phase(p) = Inactive
  <2>1. /\ value' = [value EXCEPT ![p] = [value[p] EXCEPT !["GameState"] = Loading]]
        /\ rounds' = [rounds EXCEPT ![p] = @ + 1]
    BY <1>3, <1>6 DEF Pass
  <2>2. rounds[p] + 1 \in 0..MaxRounds /\ rounds[p] \in Nat
    BY <1>1, <1>2, <1>6, BoundsAssumption
  <2>3. /\ value' \in [Player -> GoodMemory] /\ rounds' \in [Player -> 0..MaxRounds]
        /\ \A q \in Player : q # p => Phase(q)' = Phase(q) /\ rounds'[q] = rounds[q]
        /\ Phase(p)' = Loading /\ rounds'[p] = rounds[p] + 1
    BY <1>1, <1>4, <1>5, <2>1, <2>2 DEF Phase
  <2>4. Passed(p)' = Passed(p) + 1 /\ \A q \in Player : q # p => Passed(q)' = Passed(q)
    BY <1>5, <1>6, <2>2, <2>3 DEF Passed
  <2> QED
    BY <1>2, <1>6, <2>3, <2>4
<1>7. CASE Phase(p) = Loading
  <2>1. /\ value' = [value EXCEPT ![p] = [value[p] EXCEPT !["GameState"] = Ingame]]
        /\ rounds' = rounds
    BY <1>3, <1>5, <1>7 DEF Pass
  <2>2. rounds[p] \in Nat
    BY <1>1
  <2>3. /\ value' \in [Player -> GoodMemory] /\ rounds' \in [Player -> 0..MaxRounds]
        /\ \A q \in Player : q # p => Phase(q)' = Phase(q) /\ rounds'[q] = rounds[q]
        /\ Phase(p)' = Ingame /\ rounds'[p] = rounds[p]
    BY <1>1, <1>4, <1>5, <2>1 DEF Phase
  <2>4. Passed(p)' = Passed(p) + 1 /\ \A q \in Player : q # p => Passed(q)' = Passed(q)
    BY <1>5, <1>7, <2>2, <2>3 DEF Passed
  <2> QED
    BY <1>2, <1>7, <2>3, <2>4
<1> QED
  BY <1>2, <1>6, <1>7

\* The host counts the clients of Counted: when the count is complete, all are there.
LEMMA AllCounted ==
    ASSUME Inv, Pass(Host)
    PROVE  Counted = Client
<1>1. IsFiniteSet(Client) /\ Counted \subseteq Client
  BY Players01 DEF Counted
<1>2. Cardinality(Counted) >= Cardinality(Client)
  BY DEF Inv, BarrierInv, Pass, Awaited
<1>3. Cardinality(Counted) \in Nat /\ Cardinality(Client) \in Nat
      /\ Cardinality(Counted) <= Cardinality(Client)
      /\ (Cardinality(Counted) = Cardinality(Client) => Counted = Client)
  BY <1>1, FS_Subset, FS_CardinalityType
<1> QED
  BY <1>2, <1>3

LEMMA PassHost ==
    ASSUME Inv, Pass(Host)
    PROVE  Inv'
<1> USE DEF Inv
<1>1. /\ UNCHANGED <<local, subMenu, localSubMenu, tcp_packet, toHost, ghost, used>>
      /\ waiting' = [waiting EXCEPT ![Host] = FALSE] /\ ready' = [ready EXCEPT ![Host] = 0]
      /\ toClient' = [c \in Client |-> Append(toClient[c], NReady(Host))]
      /\ waiting \in [Player -> BOOLEAN] /\ ready \in [Player -> Nat]
      /\ toHost \in [Client -> Seq(GoodPacket)] /\ toClient \in [Client -> Seq(GoodPacket)]
  BY DEF Pass, TypeInv
<1>2. /\ waiting' \in [Player -> BOOLEAN] /\ ready' \in [Player -> Nat]
      /\ ~waiting'[Host] /\ ready'[Host] = 0
      /\ \A c \in Client : waiting'[c] = waiting[c] /\ ready'[c] = ready[c]
  BY <1>1, Players01
<1>3. /\ value' \in [Player -> GoodMemory] /\ rounds' \in [Player -> 0..MaxRounds]
      /\ \A c \in Client : /\ Phase(c)' = Phase(c) /\ rounds'[c] = rounds[c]
                           /\ Passed(c)' = Passed(c)
      /\ Passed(Host)' = Passed(Host) + 1
      /\ tcp_packet[Host] = <<>>
  BY PassedGame, Players01
<1>4. /\ toClient' \in [Client -> Seq(GoodPacket)]
      /\ \A c \in Client : Grown(toClient'[c], toClient[c], NReady(Host))
  <2>1. \A c \in Client : Grown(Append(toClient[c], NReady(Host)), toClient[c], NReady(Host))
    BY <1>1, PacketTypes, Players01, AppendGrown
  <2> QED
    BY <1>1, <2>1 DEF Grown
<1>5. TypeInv'
  BY <1>1, <1>2, <1>3, <1>4 DEF TypeInv
<1>6. \A q \in Player : PlayerInv(q)'
  <2>1. PlayerInv(Host)'
    BY <1>1, <1>2, <1>3 DEF PlayerInv, OfRound
  <2>2. ASSUME NEW c \in Client PROVE PlayerInv(c)'
    <3>1. PlayerInv(c)
      BY Players01 DEF BarrierInv
    <3> QED
      BY <1>1, <1>2, <1>3, <3>1 DEF PlayerInv, OfRound
  <2> QED
    BY <2>1, <2>2, Players01
<1>7. ASSUME NEW c \in Client PROVE ToHostInv(c)' /\ ToClientInv(c)' /\ Behind(c)'
  <2>1. waiting[c] /\ ~Behind(c) /\ toHost[c] = <<>> /\ ToClientInv(c)
    BY AllCounted DEF Counted, BarrierInv
  <2>2. ToHostInv(c)'
    BY <1>1, <2>1 DEF ToHostInv
  <2>3. Passed(c) \in Int /\ Passed(Host) \in Int /\ Passed(c) = Passed(Host)
    BY <2>1, PhaseType, Players01 DEF Behind
  <2>4. Passed(c)' = Passed(Host)' - 1 /\ Behind(c)'
    BY <1>3, <2>3 DEF Behind
  <2>5. /\ \A i \in DOMAIN toClient[c] : ~toClient[c][i].ready
        /\ \A i \in DOMAIN toClient[c] : OfRound(toClient[c][i].changes, rounds[c])
        /\ ready[c] = 0
    BY <2>1 DEF ToClientInv
  <2>6. NReady(Host).ready /\ OfRound(NReady(Host).changes, rounds[c])
    BY DEF NReady, OfRound
  <2>7. \A i \in DOMAIN toClient'[c] : /\ toClient'[c][i].ready <=> i = Len(toClient[c]) + 1
                                       /\ OfRound(toClient'[c][i].changes, rounds[c])
    BY <1>4, <2>5, <2>6 DEF Grown
  <2>8. Len(toClient[c]) + 1 \in DOMAIN toClient'[c] /\ Len(toClient[c]) \in Nat
        /\ DOMAIN toClient'[c] = 1..(Len(toClient[c]) + 1)
    BY <1>4 DEF Grown
  <2>9. ToClientInv(c)'
    BY <1>2, <1>3, <2>1, <2>4, <2>5, <2>7, <2>8 DEF ToClientInv, OfRound
  <2> QED
    BY <2>2, <2>4, <2>9
<1>8. ready'[Host] = Cardinality(Counted')
  <2>1. Counted' = {}
    BY <1>7 DEF Counted
  <2> QED
    BY <1>2, <2>1, FS_EmptySet
<1>9. BarrierInv'
  BY <1>1, <1>6, <1>7, <1>8 DEF BarrierInv
<1>10. ASSUME NEW c \in Client, NEW i \in DOMAIN toClient'[c]
       PROVE  /\ toClient'[c][i].pnum # c
              /\ FromOwner(toClient'[c][i].changes, toClient'[c][i].pnum)
  <2>1. CASE i \in DOMAIN toClient[c]
    BY <1>4, <2>1 DEF OwnerInv, Grown
  <2>2. CASE i \notin DOMAIN toClient[c]
    BY <1>4, <2>2, Players01 DEF Grown, NReady, FromOwner
  <2> QED
    BY <2>1, <2>2
<1>11. OwnerInv'
  BY <1>1, <1>10 DEF OwnerInv, FromClient, FromOwner
<1> QED
  BY <1>5, <1>9, <1>11

LEMMA PassClient ==
    ASSUME Inv, NEW c \in Client, Pass(c)
    PROVE  Inv'
<1> USE DEF Inv
<1>1. c \in Player /\ c # Host /\ Host \in Player
  BY Players01
<1>2. /\ UNCHANGED <<local, subMenu, localSubMenu, tcp_packet, toHost, toClient, ghost, used>>
      /\ waiting' = [waiting EXCEPT ![c] = FALSE] /\ ready' = [ready EXCEPT ![c] = 0]
      /\ waiting \in [Player -> BOOLEAN] /\ ready \in [Player -> Nat]
      /\ ready[c] >= 1
  BY <1>1 DEF Pass, TypeInv, Awaited
<1>3. /\ waiting' \in [Player -> BOOLEAN] /\ ready' \in [Player -> Nat]
      /\ ~waiting'[c] /\ ready'[c] = 0
      /\ \A q \in Player : q # c => waiting'[q] = waiting[q] /\ ready'[q] = ready[q]
  BY <1>1, <1>2
<1>4. /\ value' \in [Player -> GoodMemory] /\ rounds' \in [Player -> 0..MaxRounds]
      /\ \A q \in Player : q # c => /\ Phase(q)' = Phase(q) /\ rounds'[q] = rounds[q]
                                    /\ Passed(q)' = Passed(q)
      /\ Passed(c)' = Passed(c) + 1
      /\ \/ Phase(c) = Inactive /\ Phase(c)' = Loading /\ rounds'[c] = rounds[c] + 1
         \/ Phase(c) = Loading /\ Phase(c)' = Ingame /\ rounds'[c] = rounds[c]
      /\ tcp_packet[c] = <<>>
  BY <1>1, PassedGame
<1>5. TypeInv'
  BY <1>2, <1>3, <1>4 DEF TypeInv
<1>6. \A q \in Player : PlayerInv(q)'
  <2>1. PlayerInv(c)'
    BY <1>2, <1>3, <1>4 DEF PlayerInv, OfRound
  <2>2. \A q \in Player : q # c => PlayerInv(q)'
    BY <1>2, <1>3, <1>4 DEF BarrierInv, PlayerInv, OfRound
  <2> QED
    BY <2>1, <2>2
<1>7. ToClientInv(c) /\ Behind(c) /\ \A i \in DOMAIN toClient[c] : ~toClient[c][i].ready
  <2>1. ToClientInv(c)
    BY DEF BarrierInv
  <2> QED
    BY <1>2, <2>1 DEF ToClientInv
<1>8. /\ Passed(c) = Passed(Host) - 1 /\ (Phase(c) = Loading <=> Phase(Host) # Loading)
      /\ toHost[c] = <<>>
  BY <1>7, RoundsAgree
<1>9. ~Behind(c)' /\ Passed(c)' = Passed(Host)'
      /\ \A d \in Client : d # c => (Behind(d)' <=> Behind(d))
  <2>1. Passed(c) \in Int /\ Passed(Host) \in Int
    BY <1>1, PhaseType
  <2>2. Passed(c)' = Passed(Host)'
    BY <1>1, <1>4, <1>8, <2>1
  <2>3. \A d \in Client : d \in Player
    BY Players01
  <2> QED
    BY <1>1, <1>4, <2>2, <2>3 DEF Behind
<1>10. ToClientInv(c)' /\ ToHostInv(c)'
  <2>1. \A i \in DOMAIN toClient[c] : OfRound(toClient[c][i].changes, rounds'[c])
    <3>1. CASE Phase(c) = Loading
      <4>1. rounds'[c] = rounds[c]
        BY <1>4, <3>1 DEF Loading, Inactive
      <4> QED
        BY <1>7, <4>1 DEF ToClientInv
    <3>2. CASE Phase(c) # Loading
      <4>1. DOMAIN toClient[c] = {}
        BY <1>7, <1>8, <3>2 DEF ToClientInv
      <4> QED
        BY <4>1
    <3> QED
      BY <3>1, <3>2
  <2>2. ToClientInv(c)'
    <3>1. Phase(Host)' = Phase(Host)
      BY <1>1, <1>4
    <3> QED
      BY <1>2, <1>3, <1>7, <1>9, <2>1, <3>1 DEF ToClientInv, OfRound
  <2>3. ToHostInv(c)'
    BY <1>2, <1>8 DEF ToHostInv
  <2> QED
    BY <2>2, <2>3
<1>11. ASSUME NEW d \in Client, d # c PROVE ToClientInv(d)' /\ ToHostInv(d)'
  <2>1. ToClientInv(d) /\ ToHostInv(d) /\ d \in Player
    BY Players01 DEF BarrierInv
  <2>2. /\ Phase(d)' = Phase(d) /\ rounds'[d] = rounds[d] /\ Passed(d)' = Passed(d)
        /\ Passed(Host)' = Passed(Host) /\ Phase(Host)' = Phase(Host)
        /\ (Behind(d)' <=> Behind(d)) /\ waiting'[d] = waiting[d] /\ ready'[d] = ready[d]
    BY <1>1, <1>3, <1>4, <1>9, <1>11, <2>1
  <2>3. ToClientInv(d)'
    BY <1>2, <2>1, <2>2 DEF ToClientInv, OfRound
  <2>4. ToHostInv(d)'
    BY <1>2, <2>1, <2>2 DEF ToHostInv, OfRound
  <2> QED
    BY <2>3, <2>4
<1>12. ready'[Host] = Cardinality(Counted')
  <2>1. c \notin Counted /\ c \notin Counted'
    BY <1>3, <1>7 DEF Counted
  <2>2. \A d \in Client : d # c => (d \in Counted <=> d \in Counted')
    BY <1>2, <1>3, <1>9, Players01 DEF Counted
  <2>3. Counted' = Counted
    BY <2>1, <2>2 DEF Counted
  <2> QED
    BY <1>1, <1>3, <2>3 DEF BarrierInv
<1>13. BarrierInv'
  BY <1>2, <1>6, <1>10, <1>11, <1>12 DEF BarrierInv
<1>14. OwnerInv'
  BY <1>2 DEF OwnerInv, FromClient, FromOwner
<1> QED
  BY <1>5, <1>13, <1>14

-----------------------------------------------------------------------------
(* The steps of receive_loop *)

\* What player p has after it has read.
After(p) == [value |-> value[p], local |-> local[p], skipped |-> ghost[p].skipped,
             touched |-> ghost[p].touched, stale |-> ghost[p].stale]'

\* read changes the reader only, in the way that ReadingEffect says.
LEMMA ReadStep ==
    ASSUME TypeInv, NEW p \in Player, NEW packet \in GoodPacket, Read(p, packet)
    PROVE  /\ value' \in [Player -> GoodMemory] /\ local' \in [Player -> [Memory -> Contents]]
           /\ ghost' \in [Player -> GoodGhost] /\ ready' \in [Player -> Nat]
           /\ \A q \in Player : q # p => /\ value'[q] = value[q] /\ local'[q] = local[q]
                                         /\ ghost'[q] = ghost[q] /\ ready'[q] = ready[q]
           /\ ready'[p] = IF packet.ready THEN ready[p] + 1 ELSE ready[p]
           /\ ghost'[p].sent = ghost[p].sent
           /\ AfterSome(p, packet, After(p), DOMAIN packet.changes)
<1> DEFINE after == AfterReading(p, packet)
           g == [ghost[p] EXCEPT !.skipped = after.skipped, !.touched = after.touched,
                                 !.stale = after.stale]
<1>1. AfterSome(p, packet, after, DOMAIN packet.changes)
  BY ReadingEffect
<1>2. after \in Reading
  BY <1>1 DEF AfterSome
<1>3. /\ value' = [value EXCEPT ![p] = after.value]
      /\ local' = [local EXCEPT ![p] = after.local]
      /\ ghost' = [ghost EXCEPT ![p] = g]
      /\ ready' = [ready EXCEPT ![p] = IF packet.ready THEN @ + 1 ELSE @]
  BY DEF Read
<1> HIDE DEF after
<1>4. /\ after.value \in GoodMemory /\ after.local \in [Memory -> Contents]
      /\ after.skipped \in SUBSET Memory /\ after.touched \in SUBSET Memory
      /\ after.stale \in BOOLEAN
      /\ after = [value |-> after.value, local |-> after.local, skipped |-> after.skipped,
                  touched |-> after.touched, stale |-> after.stale]
  BY <1>2 DEF Reading
<1>5. ghost[p] \in GoodGhost
  BY DEF TypeInv
<1>6. /\ g \in GoodGhost /\ g.sent = ghost[p].sent /\ g.skipped = after.skipped
      /\ g.touched = after.touched /\ g.stale = after.stale
  BY <1>4, <1>5 DEF GoodGhost
<1> HIDE DEF g
<1>7. /\ value \in [Player -> GoodMemory] /\ local \in [Player -> [Memory -> Contents]]
      /\ ghost \in [Player -> GoodGhost] /\ ready \in [Player -> Nat]
  BY DEF TypeInv
<1>8. value'[p] = after.value /\ local'[p] = after.local /\ ghost'[p] = g
  BY <1>3, <1>7
<1>9. After(p) = after
  BY <1>4, <1>6, <1>8 DEF After
<1>10. value' \in [Player -> GoodMemory] /\ \A q \in Player : q # p => value'[q] = value[q]
  BY <1>3, <1>4, <1>7
<1>11. /\ local' \in [Player -> [Memory -> Contents]]
       /\ \A q \in Player : q # p => local'[q] = local[q]
  BY <1>3, <1>4, <1>7
<1>12. ghost' \in [Player -> GoodGhost] /\ \A q \in Player : q # p => ghost'[q] = ghost[q]
  BY <1>3, <1>6, <1>7
<1>13. /\ ready' \in [Player -> Nat] /\ \A q \in Player : q # p => ready'[q] = ready[q]
       /\ ready'[p] = IF packet.ready THEN ready[p] + 1 ELSE ready[p]
  BY <1>3, <1>7
<1> QED
  BY <1>1, <1>6, <1>8, <1>9, <1>10, <1>11, <1>12, <1>13

\* Reading keeps a game in the menu or loading, if it was, and notices what is stale.
LEMMA ReadPhase ==
    ASSUME TypeInv, NEW p \in Player, NEW packet \in GoodPacket, Read(p, packet), rounds' = rounds,
           OfRound(packet.changes, rounds[p]), \A q \in Player : ~ghost[q].stale
    PROVE  /\ \A q \in Player : /\ Phase(q)' = Loading <=> Phase(q) = Loading
                                /\ Phase(q)' = Inactive <=> Phase(q) = Inactive
           /\ \A q \in Player : Passed(q)' = Passed(q)
           /\ \A c \in Client : Behind(c)' <=> Behind(c)
           /\ \A q \in Player : ~ghost'[q].stale
<1>1. /\ \A q \in Player : q # p => value'[q] = value[q] /\ ghost'[q] = ghost[q]
      /\ AfterSome(p, packet, After(p), DOMAIN packet.changes)
  BY ReadStep
<1>2. SamePhase(Before(p), After(p)) /\ After(p).stale => ghost[p].stale
  BY <1>1 DEF AfterSome
<1>3. ~ghost'[p].stale
  <2>1. After(p).stale = ghost'[p].stale
    BY DEF After
  <2>2. After(p).stale => ghost[p].stale \/ ~OfRound(packet.changes, rounds[p])
    BY <1>1 DEF AfterSome
  <2> QED
    BY <2>1, <2>2
<1>4. /\ RoundStarted(value'[p]) <=> RoundStarted(value[p])
      /\ ~RoundStarted(value[p]) => value'[p]["GameState"] = value[p]["GameState"]
  <2>1. SamePhase(Before(p), After(p))
    BY <1>1 DEF AfterSome
  <2> QED
    BY <2>1 DEF SamePhase, Before, After
<1>5. /\ Phase(p)' = Loading <=> Phase(p) = Loading
      /\ Phase(p)' = Inactive <=> Phase(p) = Inactive
  BY <1>4 DEF Phase, RoundStarted, Loading, Inactive, LoadFinished
<1>6. \A q \in Player : /\ Phase(q)' = Loading <=> Phase(q) = Loading
                        /\ Phase(q)' = Inactive <=> Phase(q) = Inactive
  BY <1>1, <1>5 DEF Phase
<1> QED
  BY <1>1, <1>3, <1>6, SamePassed

LEMMA ReceiveFromClientInv ==
    ASSUME Inv, NEW c \in Client, ReceiveFromClient(c)
    PROVE  Inv'
<1> USE DEF Inv
<1> DEFINE x == Head(toHost[c])
<1>1. /\ UNCHANGED <<subMenu, localSubMenu, tcp_packet, waiting, rounds, used>>
      /\ toHost[c] # <<>> /\ Read(Host, x)
      /\ toHost' = [toHost EXCEPT ![c] = Tail(@)]
      /\ toClient' = [d \in Client |-> IF d # c /\ ~x.ready THEN Append(toClient[d], x)
                                       ELSE toClient[d]]
      /\ toHost \in [Client -> Seq(GoodPacket)] /\ toClient \in [Client -> Seq(GoodPacket)]
      /\ c \in Player /\ Host \in Player /\ Host # c
  BY Players01 DEF ReceiveFromClient, RelayTo, TypeInv
<1>2. Shrunk(Tail(toHost[c]), toHost[c], x)
  BY <1>1, TailShrunk
<1>3. x \in GoodPacket /\ x = toHost[c][1] /\ 1 \in DOMAIN toHost[c]
  BY <1>2 DEF Shrunk
<1> HIDE DEF x
<1>4. /\ toHost' \in [Client -> Seq(GoodPacket)] /\ Shrunk(toHost'[c], toHost[c], x)
      /\ \A d \in Client : d # c => toHost'[d] = toHost[d]
  BY <1>1, <1>2 DEF Shrunk
<1>5. /\ toClient' \in [Client -> Seq(GoodPacket)] /\ toClient'[c] = toClient[c]
      /\ \A d \in Client : \/ toClient'[d] = toClient[d]
                           \/ /\ ~x.ready /\ d # c /\ Grown(toClient'[d], toClient[d], x)
  <2>1. \A d \in Client : Grown(Append(toClient[d], x), toClient[d], x)
    BY <1>1, <1>3, AppendGrown
  <2> QED
    BY <1>1, <2>1 DEF Grown
<1>6. ToHostInv(c) /\ ToClientInv(c) /\ ~Behind(c)
  BY <1>1 DEF BarrierInv, ToHostInv
<1>7. /\ rounds[c] = rounds[Host] /\ (Phase(c) = Loading <=> Phase(Host) = Loading)
      /\ OfRound(x.changes, rounds[c])
      /\ ~x.ready => Phase(Host) # Loading
  BY <1>3, <1>6, RoundsAgree DEF ToHostInv
<1>8. /\ value' \in [Player -> GoodMemory] /\ local' \in [Player -> [Memory -> Contents]]
      /\ ghost' \in [Player -> GoodGhost] /\ ready' \in [Player -> Nat]
      /\ \A q \in Player : q # Host => /\ value'[q] = value[q] /\ local'[q] = local[q]
                                       /\ ghost'[q] = ghost[q] /\ ready'[q] = ready[q]
      /\ ready'[Host] = IF x.ready THEN ready[Host] + 1 ELSE ready[Host]
  BY <1>1, <1>3, ReadStep
<1>9. /\ \A q \in Player : /\ Phase(q)' = Loading <=> Phase(q) = Loading
                           /\ Phase(q)' = Inactive <=> Phase(q) = Inactive
      /\ \A q \in Player : Passed(q)' = Passed(q)
      /\ \A d \in Client : Behind(d)' <=> Behind(d)
      /\ \A q \in Player : ~ghost'[q].stale
  <2>1. OfRound(x.changes, rounds[Host]) /\ \A q \in Player : ~ghost[q].stale
    BY <1>7 DEF BarrierInv
  <2> QED
    BY <1>1, <1>3, <2>1, ReadPhase
<1>10. TypeInv'
  BY <1>1, <1>4, <1>5, <1>8 DEF TypeInv
<1>11. \A q \in Player : PlayerInv(q)'
  BY <1>1, <1>9 DEF BarrierInv, PlayerInv, OfRound
<1>12. ToHostInv(c)'
  <2>1. ASSUME NEW i \in DOMAIN toHost'[c]
        PROVE  /\ toHost'[c][i].ready <=> (i = Len(toHost'[c]) /\ waiting[c])
               /\ ~toHost'[c][i].ready => Phase(c) # Loading
               /\ OfRound(toHost'[c][i].changes, rounds[c])
    <3>1. /\ i + 1 \in DOMAIN toHost[c] /\ toHost'[c][i] = toHost[c][i + 1]
          /\ Len(toHost'[c]) = Len(toHost[c]) - 1 /\ i \in Int /\ Len(toHost[c]) \in Int
      BY <1>4 DEF Shrunk
    <3>2. /\ toHost[c][i + 1].ready <=> (i + 1 = Len(toHost[c]) /\ waiting[c])
          /\ ~toHost[c][i + 1].ready => Phase(c) # Loading
          /\ OfRound(toHost[c][i + 1].changes, rounds[c])
      BY <1>6, <3>1 DEF ToHostInv
    <3> QED
      BY <3>1, <3>2
  <2> QED
    BY <1>1, <1>6, <1>9, <2>1 DEF ToHostInv, OfRound
<1>13. ASSUME NEW d \in Client PROVE ToHostInv(d)'
  <2>1. ToHostInv(d) /\ d \in Player
    BY Players01 DEF BarrierInv
  <2>2. d # c => ToHostInv(d)'
    BY <1>1, <1>4, <1>9, <2>1 DEF ToHostInv, OfRound
  <2> QED
    BY <1>12, <2>2
<1>14. ASSUME NEW d \in Client PROVE ToClientInv(d)'
  <2>1. ToClientInv(d) /\ d \in Player /\ d # Host
    BY Players01 DEF BarrierInv
  <2>2. /\ Passed(d)' = Passed(d) /\ Passed(Host)' = Passed(Host) /\ (Behind(d)' <=> Behind(d))
        /\ (Phase(Host)' = Loading <=> Phase(Host) = Loading)
        /\ ready'[d] = ready[d] /\ waiting'[d] = waiting[d] /\ rounds'[d] = rounds[d]
    BY <1>1, <1>8, <1>9, <2>1
  <2>3. CASE toClient'[d] = toClient[d]
    BY <2>1, <2>2, <2>3 DEF ToClientInv, OfRound
  <2>4. CASE toClient'[d] # toClient[d]
    <3>1. ~x.ready /\ Grown(toClient'[d], toClient[d], x)
      BY <1>5, <2>4
    <3>2. OfRound(x.changes, rounds[d]) /\ Phase(Host) # Loading
      BY <1>7, <3>1, RoundsAgree
    <3>3. /\ \A i \in DOMAIN toClient'[d] : OfRound(toClient'[d][i].changes, rounds[d])
          /\ \A i \in DOMAIN toClient'[d] : toClient'[d][i].ready =>
                 i \in DOMAIN toClient[d] /\ toClient[d][i].ready
          /\ \A i \in DOMAIN toClient[d] : toClient[d][i].ready =>
                 i \in DOMAIN toClient'[d] /\ toClient'[d][i].ready
      <4>1. \A i \in DOMAIN toClient[d] : OfRound(toClient[d][i].changes, rounds[d])
        BY <2>1 DEF ToClientInv
      <4>2. /\ \A i \in DOMAIN toClient'[d] : \/ i \in DOMAIN toClient[d] /\ toClient'[d][i] = toClient[d][i]
                                              \/ toClient'[d][i] = x
            /\ \A i \in DOMAIN toClient[d] : i \in DOMAIN toClient'[d] /\ toClient'[d][i] = toClient[d][i]
        BY <3>1 DEF Grown
      <4> QED
        BY <3>1, <3>2, <4>1, <4>2
    <3> QED
      BY <2>1, <2>2, <3>2, <3>3 DEF ToClientInv, OfRound
  <2> QED
    BY <2>3, <2>4
<1>15. ready'[Host] = Cardinality(Counted')
  <2>1. \A d \in Client : d # c => (d \in Counted <=> d \in Counted')
    BY <1>1, <1>4, <1>9 DEF Counted
  <2>2. c \notin Counted
    BY <1>1 DEF Counted
  <2>3. x.ready <=> (1 = Len(toHost[c]) /\ waiting[c])
    BY <1>3, <1>6 DEF ToHostInv
  <2>4. toHost'[c] = <<>> <=> Len(toHost[c]) = 1
    BY <1>4 DEF Shrunk
  <2>5. c \in Counted' <=> x.ready
    BY <1>1, <1>6, <1>9, <2>3, <2>4 DEF Counted
  <2>6. ready[Host] = Cardinality(Counted) /\ IsFiniteSet(Counted)
    BY Players01, FS_Subset DEF BarrierInv, Counted
  <2>7. CASE x.ready
    <3>1. Counted' = Counted \cup {c}
      BY <2>1, <2>5, <2>7 DEF Counted
    <3>2. Cardinality(Counted \cup {c}) = Cardinality(Counted) + 1
      BY <2>2, <2>6, FS_AddElement
    <3> QED
      BY <1>8, <2>6, <2>7, <3>1, <3>2
  <2>8. CASE ~x.ready
    <3>1. Counted' = Counted
      BY <2>1, <2>2, <2>5, <2>8 DEF Counted
    <3> QED
      BY <1>8, <2>6, <2>8, <3>1
  <2> QED
    BY <2>7, <2>8
<1>16. BarrierInv'
  BY <1>9, <1>11, <1>13, <1>14, <1>15 DEF BarrierInv
<1>17. ASSUME NEW i \in DOMAIN toHost'[c]
       PROVE  FromClient(toHost'[c][i], c)
  BY <1>4 DEF Shrunk, OwnerInv
<1>18. ASSUME NEW d \in Client, NEW i \in DOMAIN toClient'[d]
       PROVE  /\ toClient'[d][i].pnum # d
              /\ FromOwner(toClient'[d][i].changes, toClient'[d][i].pnum)
  <2>1. CASE i \in DOMAIN toClient[d] /\ toClient'[d][i] = toClient[d][i]
    BY <2>1 DEF OwnerInv
  <2>2. CASE d # c /\ toClient'[d][i] = x
    BY <1>3, <2>2 DEF OwnerInv, FromClient
  <2> QED
    BY <1>5, <2>1, <2>2 DEF Grown
<1>19. OwnerInv'
  <2>1. \A d \in Client : \A i \in DOMAIN toHost'[d] :
            FromClient(toHost'[d][i], d)
    BY <1>4, <1>17 DEF OwnerInv
  <2>2. \A q \in Player : FromOwner(tcp_packet'[q], q)
    BY <1>1 DEF OwnerInv
  <2> QED
    BY <1>18, <2>1, <2>2 DEF OwnerInv, FromClient, FromOwner
<1> QED
  BY <1>10, <1>16, <1>19

LEMMA ReceiveFromHostInv ==
    ASSUME Inv, NEW c \in Client, ReceiveFromHost(c)
    PROVE  Inv'
<1> USE DEF Inv
<1> DEFINE x == Head(toClient[c])
<1>1. /\ UNCHANGED <<subMenu, localSubMenu, tcp_packet, toHost, waiting, rounds, used>>
      /\ toClient[c] # <<>> /\ Read(c, x)
      /\ toClient' = [toClient EXCEPT ![c] = Tail(@)]
      /\ toClient \in [Client -> Seq(GoodPacket)]
      /\ c \in Player /\ Host \in Player /\ Host # c
  BY Players01 DEF ReceiveFromHost, TypeInv
<1>2. Shrunk(Tail(toClient[c]), toClient[c], x)
  BY <1>1, TailShrunk
<1>3. x \in GoodPacket /\ x = toClient[c][1] /\ 1 \in DOMAIN toClient[c]
  BY <1>2 DEF Shrunk
<1> HIDE DEF x
<1>4. /\ toClient' \in [Client -> Seq(GoodPacket)] /\ Shrunk(toClient'[c], toClient[c], x)
      /\ \A d \in Client : d # c => toClient'[d] = toClient[d]
  BY <1>1, <1>2 DEF Shrunk
<1>5. ToClientInv(c)
  BY DEF BarrierInv
<1>6. /\ value' \in [Player -> GoodMemory] /\ local' \in [Player -> [Memory -> Contents]]
      /\ ghost' \in [Player -> GoodGhost] /\ ready' \in [Player -> Nat]
      /\ \A q \in Player : q # c => /\ value'[q] = value[q] /\ local'[q] = local[q]
                                    /\ ghost'[q] = ghost[q] /\ ready'[q] = ready[q]
      /\ ready'[c] = IF x.ready THEN ready[c] + 1 ELSE ready[c]
  BY <1>1, <1>3, ReadStep
<1>7. /\ \A q \in Player : /\ Phase(q)' = Loading <=> Phase(q) = Loading
                           /\ Phase(q)' = Inactive <=> Phase(q) = Inactive
      /\ \A q \in Player : Passed(q)' = Passed(q)
      /\ \A d \in Client : Behind(d)' <=> Behind(d)
      /\ \A q \in Player : ~ghost'[q].stale
  <2>1. OfRound(x.changes, rounds[c]) /\ \A q \in Player : ~ghost[q].stale
    BY <1>3, <1>5 DEF BarrierInv, ToClientInv
  <2> QED
    BY <1>1, <1>3, <2>1, ReadPhase
<1>8. TypeInv'
  BY <1>1, <1>4, <1>6 DEF TypeInv
<1>9. \A q \in Player : PlayerInv(q)'
  BY <1>1, <1>7 DEF BarrierInv, PlayerInv, OfRound
<1>10. ASSUME NEW d \in Client PROVE ToHostInv(d)'
  <2>1. ToHostInv(d) /\ d \in Player
    BY Players01 DEF BarrierInv
  <2> QED
    BY <1>1, <1>7, <2>1 DEF ToHostInv, OfRound
<1>11. ToClientInv(c)'
  <2>1. /\ Passed(c)' = Passed(c) /\ Passed(Host)' = Passed(Host) /\ (Behind(c)' <=> Behind(c))
        /\ (Phase(Host)' = Loading <=> Phase(Host) = Loading)
        /\ waiting'[c] = waiting[c] /\ rounds'[c] = rounds[c]
    BY <1>1, <1>7
  <2>2. /\ \A i \in DOMAIN toClient'[c] : OfRound(toClient'[c][i].changes, rounds[c])
        /\ \A i, j \in DOMAIN toClient'[c] :
               toClient'[c][i].ready /\ toClient'[c][j].ready => i = j
    <3>1. \A i \in DOMAIN toClient'[c] : /\ i \in Int /\ i + 1 \in DOMAIN toClient[c]
                                         /\ toClient'[c][i] = toClient[c][i + 1]
      BY <1>4 DEF Shrunk
    <3>2. ASSUME NEW i \in DOMAIN toClient'[c], NEW j \in DOMAIN toClient'[c],
                 toClient'[c][i].ready, toClient'[c][j].ready
          PROVE  i = j
      <4>1. i + 1 = j + 1
        BY <1>5, <3>1, <3>2 DEF ToClientInv
      <4> QED
        BY <3>1, <4>1
    <3> QED
      BY <1>5, <3>1, <3>2 DEF ToClientInv
  <2>3. ASSUME Phase(Host) = Loading, NEW i \in DOMAIN toClient'[c], ~toClient'[c][i].ready
        PROVE  \E j \in DOMAIN toClient'[c] : j > i /\ toClient'[c][j].ready
    <3>1. i \in Nat /\ i + 1 \in DOMAIN toClient[c] /\ toClient'[c][i] = toClient[c][i + 1]
      BY <1>4 DEF Shrunk
    <3>2. PICK j \in DOMAIN toClient[c] : j > i + 1 /\ toClient[c][j].ready
      BY <1>5, <2>3, <3>1 DEF ToClientInv
    <3>3. j - 1 \in DOMAIN toClient'[c] /\ toClient[c][j] = toClient'[c][j - 1] /\ j - 1 > i
      BY <1>4, <3>1, <3>2 DEF Shrunk
    <3> QED
      BY <3>2, <3>3
  <2>4. (\E i \in DOMAIN toClient[c] : toClient[c][i].ready) <=>
            (x.ready \/ \E i \in DOMAIN toClient'[c] : toClient'[c][i].ready)
    <3>1. \A i \in DOMAIN toClient[c] :
              i = 1 \/ \E j \in DOMAIN toClient'[c] : toClient[c][i] = toClient'[c][j]
      BY <1>4 DEF Shrunk
    <3>2. \A j \in DOMAIN toClient'[c] : \E i \in DOMAIN toClient[c] : toClient[c][i] = toClient'[c][j]
      BY <1>4 DEF Shrunk
    <3> QED
      BY <1>3, <3>1, <3>2
  <2>5. x.ready => ~ \E i \in DOMAIN toClient'[c] : toClient'[c][i].ready
    <3>1. ASSUME x.ready, NEW i \in DOMAIN toClient'[c], toClient'[c][i].ready PROVE FALSE
      <4>1. i + 1 \in DOMAIN toClient[c] /\ toClient'[c][i] = toClient[c][i + 1] /\ i \in Nat \ {0}
        BY <1>4 DEF Shrunk
      <4>2. i + 1 = 1
        BY <1>3, <1>5, <3>1, <4>1 DEF ToClientInv
      <4> QED
        BY <4>1, <4>2
    <3> QED
      BY <3>1
  <2>6. IF Behind(c)
        THEN /\ waiting[c] /\ ready'[c] \in {0, 1}
             /\ ready'[c] = 1 <=> ~ \E i \in DOMAIN toClient'[c] : toClient'[c][i].ready
        ELSE /\ ready'[c] = 0
             /\ ~ \E i \in DOMAIN toClient'[c] : toClient'[c][i].ready
    <3>1. IF Behind(c)
          THEN /\ waiting[c] /\ ready[c] \in {0, 1}
               /\ ready[c] = 1 <=> ~ \E i \in DOMAIN toClient[c] : toClient[c][i].ready
          ELSE /\ ready[c] = 0
               /\ ~ \E i \in DOMAIN toClient[c] : toClient[c][i].ready
      BY <1>5 DEF ToClientInv
    <3> QED
      BY <1>6, <2>4, <2>5, <3>1
  <2>7. Passed(c) \in {Passed(Host) - 1, Passed(Host)}
    BY <1>5 DEF ToClientInv
  <2> QED
    BY <2>1, <2>2, <2>3, <2>6, <2>7 DEF ToClientInv, OfRound
<1>12. ASSUME NEW d \in Client, d # c PROVE ToClientInv(d)'
  <2>1. ToClientInv(d) /\ d \in Player
    BY Players01 DEF BarrierInv
  <2>2. /\ Passed(d)' = Passed(d) /\ Passed(Host)' = Passed(Host) /\ (Behind(d)' <=> Behind(d))
        /\ (Phase(Host)' = Loading <=> Phase(Host) = Loading)
        /\ ready'[d] = ready[d] /\ waiting'[d] = waiting[d] /\ rounds'[d] = rounds[d]
        /\ toClient'[d] = toClient[d]
    BY <1>1, <1>4, <1>6, <1>7, <1>12, <2>1
  <2> QED
    BY <2>1, <2>2 DEF ToClientInv, OfRound
<1>13. Counted' = Counted
  BY <1>1, <1>7 DEF Counted
<1>14. BarrierInv'
  BY <1>1, <1>6, <1>7, <1>9, <1>10, <1>11, <1>12, <1>13 DEF BarrierInv
<1>15. ASSUME NEW d \in Client, NEW i \in DOMAIN toClient'[d]
       PROVE  /\ toClient'[d][i].pnum # d
              /\ FromOwner(toClient'[d][i].changes, toClient'[d][i].pnum)
  <2>1. \E j \in DOMAIN toClient[d] : toClient'[d][i] = toClient[d][j]
    BY <1>4 DEF Shrunk
  <2> QED
    BY <2>1 DEF OwnerInv
<1>16. OwnerInv'
  BY <1>1, <1>15 DEF OwnerInv, FromClient, FromOwner
<1> QED
  BY <1>8, <1>14, <1>16

-----------------------------------------------------------------------------
(* The theorems *)

LEMMA InitInv == Init => Inv
<1> SUFFICES ASSUME Init PROVE Inv
  OBVIOUS
<1> USE DEF Init
<1>1. 0 \in Contents /\ Value \subseteq Contents /\ 0 \in GameState
  BY ValueAssumption DEF Contents, GameState, Inactive
<1>2. \A p \in Player : value[p]["GameState"] = 0 /\ Phase(p) # Loading
  BY MemoryFacts DEF MenuMessage, Phase, Loading
<1>3. value \in [Player -> GoodMemory]
  <2>1. \A p \in Player : value[p] \in [Memory -> Contents]
    BY <1>1
  <2> QED
    BY <1>1, <1>2, <2>1 DEF GoodMemory
<1>4. \A S : <<>> \in Seq(S)
  BY EmptySeq
<1>5. <<>> \in GoodChanges
  BY <1>4 DEF GoodChanges, NoTypeTwice
<1>6. /\ toHost \in [Client -> Seq(GoodPacket)] /\ toClient \in [Client -> Seq(GoodPacket)]
      /\ tcp_packet \in [Player -> GoodChanges]
  <2>1. <<>> \in Seq(GoodPacket)
    BY <1>4
  <2> HIDE DEF GoodPacket, GoodChanges
  <2> QED
    BY <1>5, <2>1
<1>7. /\ local \in [Player -> [Memory -> Contents]]
      /\ ghost \in [Player -> GoodGhost]
      /\ rounds \in [Player -> 0..MaxRounds]
  <2>1. [k \in Memory |-> 0] \in [Memory -> Contents]
    BY <1>1
  <2>2. [sent |-> [k \in Memory |-> 0], skipped |-> {}, touched |-> {}, stale |-> FALSE] \in GoodGhost
    BY <2>1 DEF GoodGhost
  <2>3. 0 \in 0..MaxRounds
    BY BoundsAssumption
  <2> HIDE DEF GoodGhost
  <2> QED
    BY <2>1, <2>2, <2>3
<1>8. TypeInv
  BY <1>3, <1>6, <1>7 DEF TypeInv, SubMenus
<1>9. /\ \A c \in Client : ~Behind(c)
      /\ \A c \in Client : toHost[c] = <<>> /\ toClient[c] = <<>> /\ ~waiting[c] /\ ready[c] = 0
      /\ \A p \in Player : tcp_packet[p] = <<>> /\ ~waiting[p] /\ ~ghost[p].stale
      /\ \A c \in Client : Passed(c) = Passed(Host)
      /\ ready[Host] = 0
  <2>1. \A c \in Client : c \in Player /\ Host \in Player
    BY Players01
  <2>2. \A p \in Player : rounds[p] = 0
    OBVIOUS
  <2>3. \A p \in Player : Passed(p) = 0
    <3> HIDE DEF Init
    <3> QED
      BY <1>2, <2>2 DEF Passed
  <2>4. \A p \in Player : ~ghost[p].stale
    OBVIOUS
  <2> QED
    BY <2>1, <2>3, <2>4, Players01 DEF Behind
<1>10. BarrierInv
  <2>1. Counted = {}
    BY <1>9 DEF Counted
  <2>2. ready[Host] = Cardinality(Counted)
    BY <1>9, <2>1, FS_EmptySet
  <2>3. \A p \in Player : PlayerInv(p)
    BY <1>9 DEF PlayerInv, OfRound
  <2>4. \A c \in Client : ToHostInv(c)
    BY <1>9 DEF ToHostInv
  <2>5. \A c \in Client : ToClientInv(c)
    <3>1. \A c \in Client : DOMAIN toClient[c] = {}
      BY <1>9
    <3> HIDE DEF Init
    <3> QED
      BY <1>9, <3>1 DEF ToClientInv
  <2> QED
    BY <1>9, <2>2, <2>3, <2>4, <2>5 DEF BarrierInv
<1>11. OwnerInv
  BY <1>9 DEF OwnerInv, FromClient, FromOwner
<1> QED
  BY <1>8, <1>10, <1>11 DEF Inv

LEMMA NextInv == Inv /\ [Next]_vars => Inv'
<1> SUFFICES ASSUME Inv, [Next]_vars PROVE Inv'
  OBVIOUS
<1>1. ASSUME NEW p \in Player, NEW k \in Memory, NEW v \in Value, Write(p, k, v) PROVE Inv'
  BY <1>1, WriteInv
<1>2. ASSUME NEW s \in SubMenus, EnterSubMenu(s) PROVE Inv'
  BY <1>2, EnterSubMenuInv
<1>3. ASSUME NEW p \in Player, NEW s \in GameState, Move(p, s) PROVE Inv'
  BY <1>3, MoveInv
<1>4. ASSUME NEW p \in Player, Arrive(p) PROVE Inv'
  BY <1>4, ArriveInv
<1>5. ASSUME NEW p \in Player, Pass(p) PROVE Inv'
  BY <1>5, PassHost, PassClient, Players01
<1>6. ASSUME NEW p \in Player, Send(p) PROVE Inv'
  BY <1>6, SendInv
<1>7. ASSUME NEW p \in Player, Finalize(p) PROVE Inv'
  BY <1>7, FinalizeInv
<1>8. ASSUME NEW c \in Client, ReceiveFromClient(c) PROVE Inv'
  BY <1>8, ReceiveFromClientInv
<1>9. ASSUME NEW c \in Client, ReceiveFromHost(c) PROVE Inv'
  BY <1>9, ReceiveFromHostInv
<1>10. CASE UNCHANGED vars
  <2> USE <1>10 DEF vars, streams
  <2>1. TypeInv'
    BY DEF Inv, TypeInv
  <2>2. BarrierInv'
    <3>1. \A q \in Player : PlayerInv(q)' /\ Phase(q)' = Phase(q)
      BY DEF Inv, BarrierInv, PlayerInv, OfRound, Phase
    <3> QED
      BY <3>1, StreamsKept DEF Inv, BarrierInv
  <2>3. OwnerInv'
    BY DEF Inv, OwnerInv, FromOwner
  <2> QED
    BY <2>1, <2>2, <2>3 DEF Inv
<1> QED
  BY <1>1, <1>2, <1>3, <1>4, <1>5, <1>6, <1>7, <1>8, <1>9, <1>10 DEF Next

LEMMA InvHolds == Spec => []Inv
BY InitInv, NextInv, PTL DEF Spec

LEMMA InvImpliesTypeOK == Inv => TypeOK
<1> SUFFICES ASSUME Inv PROVE TypeOK
  OBVIOUS
<1> USE DEF Inv
<1>1. GoodChange \subseteq Change
  BY DEF GoodChange
<1>2. Seq(GoodChange) \subseteq Seq(Change)
  BY <1>1
<1>3. GoodChanges \subseteq Seq(Change)
  BY <1>2 DEF GoodChanges
<1>4. GoodPacket \subseteq Packet
  BY <1>3 DEF GoodPacket, Packet
<1>5. Seq(GoodPacket) \subseteq Seq(Packet)
  <2> HIDE DEF GoodPacket, Packet
  <2> QED
    BY <1>4
<1>6. /\ value \in [Player -> [Memory -> Value \cup GameState]]
      /\ local \in [Player -> [Memory -> Value \cup GameState]]
  BY DEF TypeInv, GoodMemory, Contents
<1>7. ASSUME NEW p \in Player
      PROVE  /\ tcp_packet[p] \in Seq(Change)
             /\ \A i, j \in DOMAIN tcp_packet[p] :
                    tcp_packet[p][i].type = tcp_packet[p][j].type => i = j
  <2>1. tcp_packet[p] \in GoodChanges
    BY DEF TypeInv
  <2> QED
    BY <1>3, <2>1 DEF GoodChanges, NoTypeTwice
<1>8. toHost \in [Client -> Seq(Packet)] /\ toClient \in [Client -> Seq(Packet)]
  <2> HIDE DEF GoodPacket, Packet
  <2> QED
    BY <1>5 DEF TypeInv
<1>9. ASSUME NEW p \in Player PROVE ready[p] \in 0..Awaited(p)
  <2>1. CASE p = Host
    <3>1. IsFiniteSet(Client) /\ Counted \subseteq Client
      BY Players01 DEF Counted
    <3>2. Cardinality(Counted) \in Nat /\ Cardinality(Client) \in Nat
          /\ Cardinality(Counted) <= Cardinality(Client)
      BY <3>1, FS_Subset, FS_CardinalityType
    <3> QED
      BY <2>1, <3>2 DEF BarrierInv, Awaited
  <2>2. CASE p # Host
    <3>1. ToClientInv(p)
      BY <2>2, Players01 DEF BarrierInv
    <3> QED
      BY <2>2, <3>1 DEF ToClientInv, Awaited
  <2> QED
    BY <2>1, <2>2
<1> QED
  BY <1>6, <1>7, <1>8, <1>9 DEF TypeOK, TypeInv

\* The type invariant, which says of the code that a packet never has a message twice, and
\* that nobody counts more N_Ready than it waits for.
THEOREM TypeOKHolds == Spec => []TypeOK
BY InvHolds, InvImpliesTypeOK, PTL

\* read never takes a change that was made in an earlier round or an earlier visit of the
\* menu, for any number of players and rounds.
THEOREM NothingStaleHolds == Spec => []NothingStale
<1>1. Inv => NothingStale
  BY DEF Inv, BarrierInv, NothingStale
<1> QED
  BY <1>1, InvHolds, PTL

\* Reading leaves alone what the reader decides.
LEMMA ReadKeepsOwned ==
    ASSUME TypeInv, NEW p \in Player, NEW packet \in GoodPacket, Read(p, packet),
           packet.pnum # p, FromOwner(packet.changes, packet.pnum)
    PROVE  \A q \in Player : \A k \in Owned(q) : value'[q][k] = value[q][k]
<1>1. /\ \A q \in Player : q # p => value'[q] = value[q]
      /\ AfterSome(p, packet, After(p), DOMAIN packet.changes)
  BY ReadStep
<1>2. ASSUME NEW k \in Owned(p) PROVE value'[p][k] = value[p][k]
  <2>1. k \in Memory
    BY DEF Owned
  <2>2. ASSUME NEW i \in DOMAIN packet.changes
        PROVE  Target(packet.changes[i].type, packet.pnum) # k
    <3> DEFINE m == packet.changes[i].type
               o == packet.pnum
    <3>1. o \in Sender /\ (m \in MenuMessage => o = Host) /\ packet.changes # <<>>
      <4>1. packet.changes # <<>>
        BY <2>2
      <4> QED
        BY <4>1 DEF FromOwner
    <3>2. o # p /\ m \in Message
      <4>1. packet.changes \in Seq(GoodChange)
        BY DEF GoodPacket, GoodChanges
      <4>2. packet.changes[i] \in GoodChange
        BY <2>2, <4>1
      <4> QED
        BY <4>2 DEF GoodChange, Change
    <3> HIDE DEF m, o
    <3>3. CASE p \in Sender /\ k = Target("SpecialAttacks", p)
      BY <3>1, <3>2, <3>3, MessageAssumption DEF Target, Sender, m, o, MenuMessage
    <3>4. CASE p = Host /\ k \in MenuMessage
      BY <3>1, <3>2, <3>4 DEF Target, MenuMessage, m, o
    <3> QED
      BY <3>3, <3>4 DEF Owned
  <2>3. SameAt(Before(p), After(p), k)
    BY <1>1, <2>1, <2>2 DEF AfterSome
  <2> QED
    BY <2>3 DEF SameAt, Before, After
<1> QED
  BY <1>1, <1>2

\* A step that is not one of the games' own never changes a variable at the player who
\* decides about it: its own special attacks, and the host's menu.
THEOREM OwnersDecideHolds == Spec => OwnersDecide
<1> DEFINE Kept == \A p \in Player : \A k \in Owned(p) : value'[p][k] = value[p][k]
<1>1. ASSUME Inv, [Next]_vars, used' = used PROVE Kept
  <2> USE DEF Inv
  <2>1. value \in [Player -> GoodMemory] /\ used' = used
    BY <1>1 DEF TypeInv
  <2>2. \A p \in Player : "GameState" \notin Owned(p)
    BY DEF Owned, Target, MenuMessage
  <2>3. ASSUME NEW p \in Player, NEW k \in Memory, NEW v \in Value, Write(p, k, v) PROVE Kept
    <3>1. used \in [writes : Nat, moves : Nat] /\ used' = [used EXCEPT !.writes = @ + 1]
      BY <1>1, <2>3 DEF Write, TypeInv
    <3>2. used'.writes # used.writes
      BY <3>1
    <3> QED
      BY <2>1, <3>2
  <2>4. ASSUME NEW p \in Player, NEW s, value' = [value EXCEPT ![p]["GameState"] = s] PROVE Kept
    <3>1. \A q \in Player, k \in Memory : k # "GameState" => value'[q][k] = value[q][k]
      BY <2>1, <2>4 DEF GoodMemory
    <3> QED
      BY <2>2, <3>1 DEF Owned
  <2>5. ASSUME NEW p \in Player, NEW s \in GameState, Move(p, s) PROVE Kept
    BY <2>4, <2>5 DEF Move
  <2>6. ASSUME NEW p \in Player, Pass(p) PROVE Kept
    <3>1. \E s : value' = [value EXCEPT ![p]["GameState"] = s]
      BY <2>6 DEF Pass
    <3> QED
      BY <2>4, <3>1
  <2>7. ASSUME NEW c \in Client, ReceiveFromClient(c) PROVE Kept
    <3> DEFINE x == Head(toHost[c])
    <3>1. Read(Host, x) /\ toHost[c] # <<>> /\ toHost[c] \in Seq(GoodPacket)
      BY <1>1, <2>7 DEF ReceiveFromClient, TypeInv
    <3>2. x \in GoodPacket /\ x = toHost[c][1] /\ 1 \in DOMAIN toHost[c]
      BY <3>1, TailFacts
    <3>3. x.pnum = c /\ FromOwner(x.changes, x.pnum)
      BY <1>1, <3>2 DEF OwnerInv, FromClient
    <3> HIDE DEF x
    <3>4. c # Host /\ Host \in Player
      BY Players01
    <3> QED
      BY <1>1, <3>1, <3>2, <3>3, <3>4, ReadKeepsOwned
  <2>8. ASSUME NEW c \in Client, ReceiveFromHost(c) PROVE Kept
    <3> DEFINE x == Head(toClient[c])
    <3>1. Read(c, x) /\ toClient[c] # <<>> /\ toClient[c] \in Seq(GoodPacket)
      BY <1>1, <2>8 DEF ReceiveFromHost, TypeInv
    <3>2. x \in GoodPacket /\ x = toClient[c][1] /\ 1 \in DOMAIN toClient[c]
      BY <3>1, TailFacts
    <3>3. x.pnum # c /\ FromOwner(x.changes, x.pnum)
      BY <1>1, <3>2 DEF OwnerInv
    <3> HIDE DEF x
    <3>4. c \in Player
      BY Players01
    <3> QED
      BY <1>1, <3>1, <3>2, <3>3, <3>4, ReadKeepsOwned
  <2>9. ASSUME value' = value PROVE Kept
    BY <2>9
  <2>10. ASSUME NEW s \in SubMenus, EnterSubMenu(s) PROVE value' = value
    BY <2>10 DEF EnterSubMenu
  <2>11. ASSUME NEW p \in Player, Arrive(p) \/ Send(p) \/ Finalize(p) PROVE value' = value
    BY <2>11 DEF Arrive, Send, Finalize
  <2>12. ASSUME UNCHANGED vars PROVE value' = value
    BY <2>12 DEF vars
  <2> HIDE DEF Kept
  <2> QED
    BY <1>1, <2>3, <2>5, <2>6, <2>7, <2>8, <2>9, <2>10, <2>11, <2>12 DEF Next
<1>2. Inv /\ [Next]_vars => [used' = used => Kept]_vars
  BY <1>1
<1> QED
  BY <1>2, InvHolds, PTL DEF Spec, OwnersDecide
=============================================================================
