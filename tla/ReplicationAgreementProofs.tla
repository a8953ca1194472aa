---------------------- MODULE ReplicationAgreementProofs ----------------------
(***************************************************************************)
(* What the players of Replication agree on when nothing is under way any  *)
(* more: AgreeOrSwapped, WatchersFollow and SelectionIsShown, each from an *)
(* invariant about the last change of a variable that is under way.        *)
(***************************************************************************)
EXTENDS ReplicationProofs

-----------------------------------------------------------------------------
(* What is under way *)

\* A change of k is among the changes of s, and has data x.
Has(s, k) == \E i \in DOMAIN s : s[i].type = k
Brings(s, k, x) == \E i \in DOMAIN s : s[i].type = k /\ s[i].data = x

\* A change of k is in a packet of the stream w, and the last of them has data x.
Flies(w, k) == \E i \in DOMAIN w : Has(w[i].changes, k)
Newest(w, k, x) ==
    \E i \in DOMAIN w : /\ Brings(w[i].changes, k, x)
                        /\ \A j \in DOMAIN w : j > i => ~Has(w[j].changes, k)

\* The same from the host to client c, and from client c to the host, what is queued for
\* the next packet included.
FliesTo(c, k) == Has(tcp_packet[Host], k) \/ Flies(toClient[c], k)
NewestTo(c, k, x) ==
    IF Has(tcp_packet[Host], k) THEN Brings(tcp_packet[Host], k, x) ELSE Newest(toClient[c], k, x)

FliesFrom(c, k) == Has(tcp_packet[c], k) \/ Flies(toHost[c], k)
NewestFrom(c, k, x) ==
    IF Has(tcp_packet[c], k) THEN Brings(tcp_packet[c], k, x) ELSE Newest(toHost[c], k, x)

-----------------------------------------------------------------------------
(* The inductive invariant *)

\* The last change under way between the players is the last one that was sent.
NewestIsSent(k) ==
    /\ \A x : NewestFrom(1, k, x) => x = ghost[1].sent[k]
    /\ \A x : NewestTo(1, k, x) => x = ghost[0].sent[k]

\* Player p, for whom no change of k of the other player q is under way, has what q sent
\* last, or what it sent itself, which q will get, has got or has skipped.
Heard(p, q, toP, toQ, k) ==
    \/ toP
    \/ k \in ghost[p].skipped
    \/ local[p][k] = ghost[q].sent[k]
    \/ /\ local[p][k] = ghost[p].sent[k]
       /\ toQ \/ local[q][k] = ghost[p].sent[k] \/ k \in ghost[q].skipped

\* Client c will hold x of k when it has read what is under way.
WillHold(c, k, x) == IF FliesTo(c, k) THEN NewestTo(c, k, x) ELSE local[c][k] = x

\* Client c, who watches, will hold what the host holds, or what the host sent last, which
\* the other player will get, has got or has skipped, or will answer.
Follows(c, k) ==
    \/ k \in ghost[0].skipped
    \/ ~FliesTo(c, k) /\ k \in ghost[c].skipped
    \/ WillHold(c, k, local[0][k])
    \/ /\ WillHold(c, k, ghost[0].sent[k])
       /\ \/ FliesTo(1, k) \/ local[1][k] = ghost[0].sent[k]
          \/ k \in ghost[1].skipped \/ FliesFrom(1, k)

Watcher == Client \ {1}

PairInv(k) ==
    /\ NewestIsSent(k)
    /\ Heard(0, 1, FliesFrom(1, k), FliesTo(1, k), k)
    /\ Heard(1, 0, FliesTo(1, k), FliesFrom(1, k), k)

WatcherInv(k) ==
    \A c \in Watcher : Follows(c, k) /\ (k # "GameState" => value[c][k] = local[c][k])

\* The selection of the host is as the host has sent it last; since the host has been in
\* the sub menu each client has it, will get it, has skipped it, or has changed it itself.
SelectionInv(k) ==
    /\ local[0][k] = ghost[0].sent[k]
    /\ \A c \in Client :
          /\ \A x : NewestTo(c, k, x) => x = ghost[0].sent[k]
          /\ localSubMenu = "s_stagesel" =>
                 \/ k \in ghost[c].skipped \cup ghost[c].touched
                 \/ FliesTo(c, k)
                 \/ value[c][k] = local[0][k]

AgreeInv ==
    /\ \A k \in Shared : PairInv(k) /\ WatcherInv(k)
    /\ "StageSelection2P" \in Message => SelectionInv("StageSelection2P")

-----------------------------------------------------------------------------
(* How a step changes what is under way *)

LEMMA BringsHas == \A s, k : /\ \A x : Brings(s, k, x) => Has(s, k)
                             /\ Has(s, k) => \E x : Brings(s, k, x)
BY DEF Brings, Has

LEMMA NewestFlies == \A w, k, x : Newest(w, k, x) => Flies(w, k)
BY DEF Newest, Flies, Brings, Has

LEMMA NewestKnown ==
    /\ \A c, k, x : NewestTo(c, k, x) => FliesTo(c, k)
    /\ \A c, k, x : NewestFrom(c, k, x) => FliesFrom(c, k)
    /\ \A c, k, x : NewestTo(c, k, x)' => FliesTo(c, k)'
    /\ \A c, k, x : NewestFrom(c, k, x)' => FliesFrom(c, k)'
BY BringsHas, NewestFlies DEF NewestTo, FliesTo, NewestFrom, FliesFrom

\* A packet has one change of a message.
LEMMA BringsOne ==
    ASSUME NEW s \in GoodChanges, NEW k, NEW x, NEW y, Brings(s, k, x), Brings(s, k, y)
    PROVE  x = y
BY DEF Brings, GoodChanges, NoTypeTwice

LEMMA WayGrown ==
    ASSUME NEW new, NEW old, NEW p, Grown(new, old, p), NEW k
    PROVE  /\ Flies(new, k) <=> Has(p.changes, k) \/ Flies(old, k)
           /\ \A x : Newest(new, k, x) <=> IF Has(p.changes, k) THEN Brings(p.changes, k, x)
                                           ELSE Newest(old, k, x)
<1> DEFINE n == Len(old) + 1
<1>1. /\ n \in DOMAIN new /\ new[n] = p /\ n \in Int
      /\ \A i \in DOMAIN old : i \in DOMAIN new /\ new[i] = old[i] /\ i < n /\ i \in Int
      /\ \A i \in DOMAIN new : i = n \/ (i \in DOMAIN old /\ new[i] = old[i])
  BY DEF Grown
<1> HIDE DEF n
<1>2. Flies(new, k) <=> Has(p.changes, k) \/ Flies(old, k)
  BY <1>1 DEF Flies
<1>3. ASSUME NEW x, Has(p.changes, k) PROVE Newest(new, k, x) <=> Brings(p.changes, k, x)
  <2>1. \A j \in DOMAIN new : ~(j > n)
    BY <1>1
  <2> QED
    BY <1>1, <1>3, <2>1 DEF Newest
<1>4. ASSUME NEW x, ~Has(p.changes, k) PROVE Newest(new, k, x) <=> Newest(old, k, x)
  BY <1>1, <1>4, BringsHas DEF Newest
<1> QED
  BY <1>2, <1>3, <1>4

LEMMA WayShrunk ==
    ASSUME NEW new, NEW old, NEW p, Shrunk(new, old, p), NEW k
    PROVE  /\ Flies(old, k) <=> Has(p.changes, k) \/ Flies(new, k)
           /\ \A x : Newest(old, k, x) <=> IF Flies(new, k) THEN Newest(new, k, x)
                                           ELSE Brings(p.changes, k, x)
<1>1. /\ 1 \in DOMAIN old /\ old[1] = p
      /\ \A i \in DOMAIN new : /\ i + 1 \in DOMAIN old /\ new[i] = old[i + 1]
                               /\ i \in Int /\ i >= 1
      /\ \A i \in DOMAIN old : i = 1 \/ (i - 1 \in DOMAIN new /\ old[i] = new[i - 1])
      /\ \A i \in DOMAIN old : i \in Int
  BY DEF Shrunk
<1>2. Flies(old, k) <=> Has(p.changes, k) \/ Flies(new, k)
  BY <1>1 DEF Flies
<1>3. ASSUME NEW x, Newest(old, k, x), Flies(new, k) PROVE Newest(new, k, x)
  <2>1. PICK i \in DOMAIN old : /\ Brings(old[i].changes, k, x)
                                /\ \A j \in DOMAIN old : j > i => ~Has(old[j].changes, k)
    BY <1>3 DEF Newest
  <2>2. PICK j \in DOMAIN new : Has(new[j].changes, k)
    BY <1>3 DEF Flies
  <2>3. i # 1
    BY <1>1, <2>1, <2>2
  <2>4. i - 1 \in DOMAIN new /\ old[i] = new[i - 1]
    BY <1>1, <2>3
  <2>5. \A l \in DOMAIN new : l > i - 1 => ~Has(new[l].changes, k)
    BY <1>1, <2>1
  <2> QED
    BY <2>1, <2>4, <2>5 DEF Newest
<1>4. ASSUME NEW x, Newest(new, k, x) PROVE Newest(old, k, x)
  <2>1. PICK i \in DOMAIN new : /\ Brings(new[i].changes, k, x)
                                /\ \A j \in DOMAIN new : j > i => ~Has(new[j].changes, k)
    BY <1>4 DEF Newest
  <2>2. \A l \in DOMAIN old : l > i + 1 => ~Has(old[l].changes, k)
    BY <1>1, <2>1
  <2> QED
    BY <1>1, <2>1, <2>2 DEF Newest
<1>5. ASSUME NEW x, Newest(old, k, x), ~Flies(new, k) PROVE Brings(p.changes, k, x)
  <2>1. PICK i \in DOMAIN old : Brings(old[i].changes, k, x)
    BY <1>5 DEF Newest
  <2>2. i = 1
    BY <1>1, <1>5, <2>1, BringsHas DEF Flies
  <2> QED
    BY <1>1, <2>1, <2>2
<1>6. ASSUME NEW x, Brings(p.changes, k, x), ~Flies(new, k) PROVE Newest(old, k, x)
  <2>1. \A j \in DOMAIN old : j > 1 => ~Has(old[j].changes, k)
    BY <1>1, <1>6 DEF Flies
  <2> QED
    BY <1>1, <1>6, <2>1 DEF Newest
<1> QED
  BY <1>2, <1>3, <1>4, <1>5, <1>6, NewestFlies

\* Nothing has come under way or has left it.
WaysKept ==
    \A c \in Client : \A k :
        /\ FliesTo(c, k)' <=> FliesTo(c, k)
        /\ FliesFrom(c, k)' <=> FliesFrom(c, k)
        /\ \A x : NewestTo(c, k, x)' <=> NewestTo(c, k, x)
        /\ \A x : NewestFrom(c, k, x)' <=> NewestFrom(c, k, x)

LEMMA QuietWays ==
    ASSUME UNCHANGED <<tcp_packet, streams>>
    PROVE  WaysKept
BY DEF WaysKept, FliesTo, FliesFrom, NewestTo, NewestFrom, streams

LEMMA NothingHas == \A k : ~Has(<<>>, k)
BY DEF Has

\* A packet without changes, or with those that were queued, changes nothing.
LEMMA PacketWays ==
    ASSUME NEW tcp, NEW tcpNew, NEW old, NEW new, NEW k,
           \/ new = old /\ tcpNew = tcp
           \/ \E p : /\ Grown(new, old, p)
                     /\ \/ p.changes = tcp /\ tcpNew = <<>>
                        \/ p.changes = <<>> /\ tcpNew = tcp
    PROVE  /\ (Has(tcpNew, k) \/ Flies(new, k)) <=> (Has(tcp, k) \/ Flies(old, k))
           /\ \A x : (IF Has(tcpNew, k) THEN Brings(tcpNew, k, x) ELSE Newest(new, k, x))
                         <=> (IF Has(tcp, k) THEN Brings(tcp, k, x) ELSE Newest(old, k, x))
<1>1. CASE new = old /\ tcpNew = tcp
  BY <1>1
<1>2. ASSUME NEW p, Grown(new, old, p), p.changes = tcp, tcpNew = <<>>
      PROVE  /\ (Has(tcpNew, k) \/ Flies(new, k)) <=> (Has(tcp, k) \/ Flies(old, k))
             /\ \A x : (IF Has(tcpNew, k) THEN Brings(tcpNew, k, x) ELSE Newest(new, k, x))
                           <=> (IF Has(tcp, k) THEN Brings(tcp, k, x) ELSE Newest(old, k, x))
  BY <1>2, WayGrown, NothingHas
<1>3. ASSUME NEW p, Grown(new, old, p), p.changes = <<>>, tcpNew = tcp
      PROVE  /\ (Has(tcpNew, k) \/ Flies(new, k)) <=> (Has(tcp, k) \/ Flies(old, k))
             /\ \A x : (IF Has(tcpNew, k) THEN Brings(tcpNew, k, x) ELSE Newest(new, k, x))
                           <=> (IF Has(tcp, k) THEN Brings(tcp, k, x) ELSE Newest(old, k, x))
  BY <1>3, WayGrown, NothingHas
<1> QED
  BY <1>1, <1>2, <1>3

\* The streams to all the clients and from all of them.
LEMMA StreamWays ==
    ASSUME \A c \in Client :
               /\ \/ toClient'[c] = toClient[c] /\ tcp_packet'[Host] = tcp_packet[Host]
                  \/ \E p : /\ Grown(toClient'[c], toClient[c], p)
                            /\ \/ p.changes = tcp_packet[Host] /\ tcp_packet'[Host] = <<>>
                               \/ p.changes = <<>> /\ tcp_packet'[Host] = tcp_packet[Host]
               /\ \/ toHost'[c] = toHost[c] /\ tcp_packet'[c] = tcp_packet[c]
                  \/ \E p : /\ Grown(toHost'[c], toHost[c], p)
                            /\ \/ p.changes = tcp_packet[c] /\ tcp_packet'[c] = <<>>
                               \/ p.changes = <<>> /\ tcp_packet'[c] = tcp_packet[c]
    PROVE  WaysKept
<1> SUFFICES ASSUME NEW c \in Client, NEW k
             PROVE  /\ FliesTo(c, k)' <=> FliesTo(c, k)
                    /\ FliesFrom(c, k)' <=> FliesFrom(c, k)
                    /\ \A x : NewestTo(c, k, x)' <=> NewestTo(c, k, x)
                    /\ \A x : NewestFrom(c, k, x)' <=> NewestFrom(c, k, x)
  BY DEF WaysKept
<1>1. /\ (Has(tcp_packet'[Host], k) \/ Flies(toClient'[c], k))
             <=> (Has(tcp_packet[Host], k) \/ Flies(toClient[c], k))
      /\ \A x : (IF Has(tcp_packet'[Host], k) THEN Brings(tcp_packet'[Host], k, x)
                                              ELSE Newest(toClient'[c], k, x))
                    <=> (IF Has(tcp_packet[Host], k) THEN Brings(tcp_packet[Host], k, x)
                                                     ELSE Newest(toClient[c], k, x))
  BY PacketWays
<1>2. /\ (Has(tcp_packet'[c], k) \/ Flies(toHost'[c], k))
             <=> (Has(tcp_packet[c], k) \/ Flies(toHost[c], k))
      /\ \A x : (IF Has(tcp_packet'[c], k) THEN Brings(tcp_packet'[c], k, x)
                                           ELSE Newest(toHost'[c], k, x))
                    <=> (IF Has(tcp_packet[c], k) THEN Brings(tcp_packet[c], k, x)
                                                  ELSE Newest(toHost[c], k, x))
  BY PacketWays
<1>3. /\ FliesTo(c, k)' <=> FliesTo(c, k)
      /\ \A x : NewestTo(c, k, x)' <=> NewestTo(c, k, x)
  BY <1>1 DEF FliesTo, NewestTo, Flies, Newest, Has, Brings
<1>4. /\ FliesFrom(c, k)' <=> FliesFrom(c, k)
      /\ \A x : NewestFrom(c, k, x)' <=> NewestFrom(c, k, x)
  BY <1>2 DEF FliesFrom, NewestFrom, Flies, Newest, Has, Brings
<1> QED
  BY <1>3, <1>4

LEMMA ArriveWays == ASSUME Inv, NEW p \in Player, Arrive(p) PROVE WaysKept
<1> USE DEF Inv
<1>1. /\ tcp_packet' = tcp_packet /\ toClient' = toClient
      /\ toHost \in [Client -> Seq(GoodPacket)]
      /\ toHost' = IF p = Host THEN toHost ELSE [toHost EXCEPT ![p] = Append(@, NReady(p))]
  BY DEF Arrive, TypeInv
<1>2. NReady(p) \in GoodPacket /\ NReady(p).changes = <<>>
  BY PacketTypes
<1>3. ASSUME NEW c \in Client
      PROVE  \/ toHost'[c] = toHost[c]
             \/ Grown(toHost'[c], toHost[c], NReady(p))
  <2>1. Grown(Append(toHost[c], NReady(p)), toHost[c], NReady(p))
    BY <1>1, <1>2, AppendGrown
  <2> QED
    BY <1>1, <2>1
<1> QED
  BY <1>1, <1>2, <1>3, StreamWays

LEMMA PassWays == ASSUME Inv, NEW p \in Player, Pass(p) PROVE WaysKept
<1> USE DEF Inv
<1>1. /\ tcp_packet' = tcp_packet /\ toHost' = toHost
      /\ toClient \in [Client -> Seq(GoodPacket)]
      /\ toClient' = IF p = Host THEN [c \in Client |-> Append(toClient[c], NReady(p))] ELSE toClient
  BY DEF Pass, TypeInv
<1>2. NReady(p) \in GoodPacket /\ NReady(p).changes = <<>>
  BY PacketTypes
<1>3. ASSUME NEW c \in Client
      PROVE  \/ toClient'[c] = toClient[c]
             \/ Grown(toClient'[c], toClient[c], NReady(p))
  <2>1. Grown(Append(toClient[c], NReady(p)), toClient[c], NReady(p))
    BY <1>1, <1>2, AppendGrown
  <2> QED
    BY <1>1, <2>1
<1> QED
  BY <1>1, <1>2, <1>3, StreamWays

LEMMA FinalizeWays == ASSUME Inv, NEW p \in Player, Finalize(p) PROVE WaysKept
<1> USE DEF Inv
<1>1. /\ tcp_packet' = [tcp_packet EXCEPT ![p] = <<>>] /\ tcp_packet \in [Player -> GoodChanges]
      /\ toHost \in [Client -> Seq(GoodPacket)] /\ toClient \in [Client -> Seq(GoodPacket)]
  BY DEF Finalize, TypeInv
<1>2. Changes(p) \in GoodPacket /\ Changes(p).changes = tcp_packet[p]
  BY PacketTypes
<1>3. tcp_packet'[p] = <<>> /\ \A q \in Player : q # p => tcp_packet'[q] = tcp_packet[q]
  BY <1>1
<1>4. CASE p = Host
  <2>1. toHost' = toHost /\ toClient' = [c \in Client |-> Append(toClient[c], Changes(p))]
    BY <1>4 DEF Finalize
  <2>2. ASSUME NEW c \in Client
        PROVE  Grown(toClient'[c], toClient[c], Changes(p)) /\ tcp_packet'[c] = tcp_packet[c]
    <3>1. Grown(Append(toClient[c], Changes(p)), toClient[c], Changes(p))
      BY <1>1, <1>2, AppendGrown
    <3> QED
      BY <1>3, <1>4, <2>1, <3>1, Players01
  <2> QED
    BY <1>2, <1>3, <1>4, <2>1, <2>2, StreamWays
<1>5. CASE p # Host
  <2>1. toClient' = toClient /\ toHost' = [toHost EXCEPT ![p] = Append(@, Changes(p))]
        /\ tcp_packet'[Host] = tcp_packet[Host] /\ p \in Client
    BY <1>3, <1>5, Players01 DEF Finalize
  <2>2. ASSUME NEW c \in Client
        PROVE  \/ c # p /\ toHost'[c] = toHost[c] /\ tcp_packet'[c] = tcp_packet[c]
               \/ c = p /\ Grown(toHost'[c], toHost[c], Changes(p))
    <3>1. Grown(Append(toHost[c], Changes(c)), toHost[c], Changes(c)) \/ c # p
      BY <1>1, <1>2, AppendGrown
    <3> QED
      BY <1>1, <1>3, <2>1, <3>1, Players01
  <2> QED
    BY <1>2, <1>3, <2>1, <2>2, StreamWays
<1> QED
  BY <1>4, <1>5

\* A step that sends nothing and reads nothing.
LEMMA AgreeKept ==
    ASSUME AgreeInv, WaysKept, UNCHANGED <<local, localSubMenu>>,
           \A p \in Player : /\ ghost'[p].sent = ghost[p].sent
                             /\ ghost'[p].skipped = ghost[p].skipped
                             /\ ghost[p].touched \subseteq ghost'[p].touched,
           \A c \in Watcher, k \in Shared \ {"GameState"} : value'[c][k] = value[c][k],
           "StageSelection2P" \in Message => \A c \in Client :
               \/ value'[c]["StageSelection2P"] = value[c]["StageSelection2P"]
               \/ "StageSelection2P" \in ghost'[c].touched
    PROVE  AgreeInv'
<1>1. /\ 0 \in Player /\ 1 \in Player /\ 1 \in Client
      /\ \A c \in Watcher : c \in Client
      /\ \A c \in Client : c \in Player
  BY Players01 DEF Watcher, Host
<1>2. ASSUME NEW k \in Shared PROVE PairInv(k)' /\ WatcherInv(k)'
  <2>1. PairInv(k) /\ WatcherInv(k)
    BY DEF AgreeInv
  <2>2. PairInv(k)'
    BY <1>1, <2>1 DEF WaysKept, PairInv, NewestIsSent, Heard
  <2>3. WatcherInv(k)'
    BY <1>1, <2>1 DEF WaysKept, WatcherInv, Follows, WillHold
  <2> QED
    BY <2>2, <2>3
<1>3. ASSUME "StageSelection2P" \in Message PROVE SelectionInv("StageSelection2P")'
  <2>1. SelectionInv("StageSelection2P")
    BY <1>3 DEF AgreeInv
  <2> QED
    BY <1>1, <1>3, <2>1 DEF WaysKept, SelectionInv
<1> QED
  BY <1>2, <1>3 DEF AgreeInv

-----------------------------------------------------------------------------
(* The steps of the games, of the barrier, and of OnInput *)

\* A message that is about one variable, whoever sends it.
Plain == Message \ {"SpecialAttacks"}

LEMMA PlainFacts ==
    /\ Shared \subseteq Plain /\ Shared \cap MenuMessage = {}
    /\ "StageSelection2P" \in Message => "StageSelection2P" \in Plain
    /\ \A k \in Plain : \A p : Target(k, p) = k
    /\ \A k \in Plain : k \in Memory
    /\ \A k \in Plain, m \in Message : \A p : Target(m, p) = k <=> m = k
<1>1. \A k \in Plain : \A p : Target(k, p) = k
  BY DEF Plain, Target
<1>2. \A k \in Plain, m \in Message : \A p : Target(m, p) = k <=> m = k
  BY MessageAssumption DEF Plain, Target
<1>3. \A k \in Plain : k \in Memory
  <2>1. \A k \in Plain : Target(k, Host) \in Memory
    BY MemoryFacts, Players01 DEF Plain
  <2> QED
    BY <1>1, <2>1
<1>4. Shared \subseteq Plain /\ Shared \cap MenuMessage = {}
  BY DEF Shared, Plain, MenuMessage
<1>5. "StageSelection2P" \in Message => "StageSelection2P" \in Plain
  BY DEF Plain
<1> QED
  BY <1>1, <1>2, <1>3, <1>4, <1>5

LEMMA WatcherFacts ==
    /\ 0 \in Player /\ 1 \in Player /\ 1 \in Client /\ 0 \notin Client
    /\ \A c \in Watcher : c \in Client /\ c \notin Sender /\ c # 0 /\ c # 1
    /\ \A c \in Client : c \in Player /\ c # 0
BY Players01 DEF Watcher, Host, Sender

LEMMA WriteAgree ==
    ASSUME Inv, AgreeInv, NEW p \in Player, NEW k \in Memory, NEW v \in Value, Write(p, k, v)
    PROVE  AgreeInv'
<1>1. /\ UNCHANGED <<local, localSubMenu, tcp_packet, streams>>
      /\ value \in [Player -> GoodMemory] /\ ghost \in [Player -> GoodGhost]
      /\ value' = [value EXCEPT ![p][k] = v]
      /\ ghost' = [ghost EXCEPT ![p].touched = @ \cup {k}]
      /\ p \in Sender
  BY DEF Write, Inv, TypeInv
<1>2. /\ \A q \in Player : q # p => value'[q] = value[q]
      /\ \A j \in Memory : j # k => value'[p][j] = value[p][j]
  BY <1>1 DEF GoodMemory
<1>3. \A q \in Player : /\ ghost'[q].sent = ghost[q].sent
                        /\ ghost'[q].skipped = ghost[q].skipped
                        /\ ghost'[q].touched = IF q = p THEN ghost[q].touched \cup {k}
                                                        ELSE ghost[q].touched
  <2>1. ghost[p] \in GoodGhost
    BY <1>1
  <2> QED
    BY <1>1, <2>1 DEF GoodGhost
<1>4. \A c \in Watcher, j \in Shared : value'[c][j] = value[c][j]
  BY <1>1, <1>2, WatcherFacts
<1>5. ASSUME "StageSelection2P" \in Message, NEW c \in Client
      PROVE  \/ value'[c]["StageSelection2P"] = value[c]["StageSelection2P"]
             \/ "StageSelection2P" \in ghost'[c].touched
  <2>1. "StageSelection2P" \in Memory /\ c \in Player
    BY <1>5, PlainFacts, WatcherFacts
  <2> QED
    BY <1>2, <1>3, <2>1
<1> QED
  BY <1>1, <1>3, <1>4, <1>5, QuietWays, AgreeKept

\* A step that changes at most GameState in the games, and nothing that AgreeInv is about.
LEMMA GameStateAgree ==
    ASSUME Inv, AgreeInv, WaysKept, UNCHANGED <<local, localSubMenu, ghost>>,
           \/ value' = value
           \/ \E p \in Player : \E s : value' = [value EXCEPT ![p]["GameState"] = s]
    PROVE  AgreeInv'
<1>1. value \in [Player -> GoodMemory]
  BY DEF Inv, TypeInv
<1>2. \A q \in Player, k \in Memory : k # "GameState" => value'[q][k] = value[q][k]
  BY <1>1 DEF GoodMemory
<1>3. \A c \in Watcher, k \in Shared \ {"GameState"} : value'[c][k] = value[c][k]
  BY <1>2, WatcherFacts, PlainFacts
<1>4. ASSUME "StageSelection2P" \in Message, NEW c \in Client
      PROVE  value'[c]["StageSelection2P"] = value[c]["StageSelection2P"]
  BY <1>2, <1>4, WatcherFacts, PlainFacts
<1> QED
  BY <1>3, <1>4, AgreeKept

LEMMA OtherAgree ==
    ASSUME Inv, AgreeInv,
           \/ \E s \in SubMenus : EnterSubMenu(s)
           \/ \E p \in Player, s \in GameState : Move(p, s)
           \/ \E p \in Player : Arrive(p) \/ Pass(p) \/ Finalize(p)
           \/ UNCHANGED vars
    PROVE  AgreeInv'
<1>1. ASSUME NEW s \in SubMenus, EnterSubMenu(s) PROVE AgreeInv'
  BY <1>1, QuietWays, GameStateAgree DEF EnterSubMenu
<1>2. ASSUME NEW p \in Player, NEW s \in GameState, Move(p, s) PROVE AgreeInv'
  BY <1>2, QuietWays, GameStateAgree DEF Move
<1>3. ASSUME NEW p \in Player, Arrive(p) PROVE AgreeInv'
  BY <1>3, ArriveWays, GameStateAgree DEF Arrive
<1>4. ASSUME NEW p \in Player, Pass(p) PROVE AgreeInv'
  <2>1. \E s : value' = [value EXCEPT ![p]["GameState"] = s]
    BY <1>4 DEF Pass
  <2>2. UNCHANGED <<local, localSubMenu, ghost>>
    BY <1>4 DEF Pass
  <2> QED
    BY <1>4, <2>1, <2>2, PassWays, GameStateAgree
<1>5. ASSUME NEW p \in Player, Finalize(p) PROVE AgreeInv'
  BY <1>5, FinalizeWays, GameStateAgree DEF Finalize
<1>6. ASSUME UNCHANGED vars PROVE AgreeInv'
  BY <1>6, QuietWays, GameStateAgree DEF vars
<1> QED
  BY <1>1, <1>2, <1>3, <1>4, <1>5, <1>6

-----------------------------------------------------------------------------
(* send_system and send_menu *)

\* What Send does to a variable that is not one player's.
LEMMA SendKey ==
    ASSUME Inv, NEW p \in Player, Send(p), NEW k \in Plain
    PROVE  /\ p \in Sender /\ value' = value
           /\ \A q \in Player : q # p => local'[q] = local[q] /\ ghost'[q] = ghost[q]
           /\ local'[p][k] = IF k \in Noted(p) THEN value[p][k] ELSE local[p][k]
           /\ ghost'[p].sent[k] = IF k \in Noted(p) THEN value[p][k] ELSE ghost[p].sent[k]
           /\ k \in ghost'[p].skipped <=> (k \in ghost[p].skipped /\ k \notin Noted(p))
           /\ ghost'[p].touched = ghost[p].touched
<1> DEFINE noted == {Target(m, p) : m \in Noted(p)}
           sent == [j \in Memory |-> IF j \in noted THEN value[p][j] ELSE ghost[p].sent[j]]
           g == [ghost[p] EXCEPT !.sent = sent, !.skipped = @ \ noted]
<1>1. /\ value' = value /\ p \in Sender
      /\ local' = [local EXCEPT ![p] = [j \in Memory |-> IF j \in noted THEN value[p][j] ELSE @[j]]]
      /\ ghost' = [ghost EXCEPT ![p] = g]
      /\ local \in [Player -> [Memory -> Contents]] /\ ghost \in [Player -> GoodGhost]
  BY DEF Send, Inv, TypeInv
<1>2. k \in noted <=> k \in Noted(p)
  BY PlainFacts, NotedFacts DEF Inv
<1>3. k \in Memory
  BY PlainFacts
<1> HIDE DEF noted
<1>4. /\ local'[p] = [j \in Memory |-> IF j \in noted THEN value[p][j] ELSE local[p][j]]
      /\ ghost'[p] = g
      /\ \A q \in Player : q # p => local'[q] = local[q] /\ ghost'[q] = ghost[q]
  BY <1>1
<1>5. g.sent = sent /\ g.skipped = ghost[p].skipped \ noted /\ g.touched = ghost[p].touched
  <2>1. ghost[p] \in GoodGhost
    BY <1>1
  <2> HIDE DEF sent
  <2> QED
    BY <2>1 DEF GoodGhost
<1> HIDE DEF g
<1> QED
  BY <1>1, <1>2, <1>3, <1>4, <1>5

\* What it puts under way.
LEMMA SendHas ==
    ASSUME Inv, NEW p \in Player, Send(p), NEW k \in Plain
    PROVE  /\ \A q \in Player : q # p => tcp_packet'[q] = tcp_packet[q]
           /\ Has(tcp_packet'[p], k) <=> Has(tcp_packet[p], k) \/ k \in Noted(p)
           /\ \A x : Brings(tcp_packet'[p], k, x) <=> IF k \in Noted(p) THEN x = value[p][k]
                                                      ELSE Brings(tcp_packet[p], k, x)
           /\ k \in Noted(p) => ~Has(tcp_packet[p], k)
           /\ Has(tcp_packet[p], k) <=> k \in Queued(p)
<1>1. /\ \A q \in Player : q # p => tcp_packet'[q] = tcp_packet[q]
      /\ ToSet(tcp_packet'[p]) = ToSet(tcp_packet[p]) \cup {NewChange(p, m) : m \in Noted(p)}
  BY SendQueues DEF Inv
<1>2. \A s : /\ Has(s, k) <=> \E y \in ToSet(s) : y.type = k
             /\ \A x : Brings(s, k, x) <=> \E y \in ToSet(s) : y.type = k /\ y.data = x
  BY DEF Has, Brings, ToSet
<1>3. \A m \in Noted(p) : /\ NewChange(p, m).type = m
                          /\ m = k => NewChange(p, m).data = value[p][k]
  BY PlainFacts DEF NewChange
<1>4. Has(tcp_packet[p], k) <=> k \in Queued(p)
  BY DEF Has, Queued
<1>5. k \in Noted(p) => ~Has(tcp_packet[p], k)
  BY <1>4 DEF Noted
<1>6. Has(tcp_packet'[p], k) <=> Has(tcp_packet[p], k) \/ k \in Noted(p)
  BY <1>1, <1>2, <1>3
<1>7. ASSUME NEW x
      PROVE  Brings(tcp_packet'[p], k, x) <=> IF k \in Noted(p) THEN x = value[p][k]
                                              ELSE Brings(tcp_packet[p], k, x)
  <2>1. Brings(tcp_packet'[p], k, x)
            <=> \/ Brings(tcp_packet[p], k, x)
                \/ \E m \in Noted(p) : NewChange(p, m).type = k /\ NewChange(p, m).data = x
    BY <1>1, <1>2
  <2> QED
    BY <1>3, <1>5, <2>1, BringsHas
<1> QED
  BY <1>1, <1>4, <1>5, <1>6, <1>7

\* Of what the host sends, all clients will get the newest; of the other player's, the host.
LEMMA SendWays ==
    ASSUME Inv, NEW p \in Player, Send(p), NEW k \in Plain
    PROVE  /\ \A c \in Client :
                 /\ FliesTo(c, k)' <=> FliesTo(c, k) \/ (p = 0 /\ k \in Noted(p))
                 /\ \A x : NewestTo(c, k, x)' <=> IF p = 0 /\ k \in Noted(p) THEN x = value[p][k]
                                                  ELSE NewestTo(c, k, x)
           /\ FliesFrom(1, k)' <=> FliesFrom(1, k) \/ (p = 1 /\ k \in Noted(p))
           /\ \A x : NewestFrom(1, k, x)' <=> IF p = 1 /\ k \in Noted(p) THEN x = value[p][k]
                                              ELSE NewestFrom(1, k, x)
<1>1. /\ \A q \in Player : q # p => tcp_packet'[q] = tcp_packet[q]
      /\ Has(tcp_packet'[p], k) <=> Has(tcp_packet[p], k) \/ k \in Noted(p)
      /\ \A x : Brings(tcp_packet'[p], k, x) <=> IF k \in Noted(p) THEN x = value[p][k]
                                                 ELSE Brings(tcp_packet[p], k, x)
  BY SendHas
<1>2. UNCHANGED <<toHost, toClient>> /\ p \in Sender
  BY DEF Send, streams
<1>3. /\ Host = 0 /\ 0 \in Player /\ 1 \in Player
  BY WatcherFacts DEF Host
<1>4. ASSUME NEW c \in Client
      PROVE  /\ FliesTo(c, k)' <=> FliesTo(c, k) \/ (p = 0 /\ k \in Noted(p))
             /\ \A x : NewestTo(c, k, x)' <=> IF p = 0 /\ k \in Noted(p) THEN x = value[p][k]
                                              ELSE NewestTo(c, k, x)
  <2>1. /\ FliesTo(c, k)' <=> Has(tcp_packet'[0], k) \/ Flies(toClient[c], k)
        /\ \A x : NewestTo(c, k, x)' <=> IF Has(tcp_packet'[0], k) THEN Brings(tcp_packet'[0], k, x)
                                         ELSE Newest(toClient[c], k, x)
    BY <1>2, <1>3 DEF FliesTo, NewestTo, Flies, Newest, Has, Brings
  <2> QED
    BY <1>1, <1>3, <2>1 DEF FliesTo, NewestTo
<1>5. /\ FliesFrom(1, k)' <=> Has(tcp_packet'[1], k) \/ Flies(toHost[1], k)
      /\ \A x : NewestFrom(1, k, x)' <=> IF Has(tcp_packet'[1], k) THEN Brings(tcp_packet'[1], k, x)
                                         ELSE Newest(toHost[1], k, x)
  BY <1>2 DEF FliesFrom, NewestFrom, Flies, Newest, Has, Brings
<1>6. /\ FliesFrom(1, k)' <=> FliesFrom(1, k) \/ (p = 1 /\ k \in Noted(p))
      /\ \A x : NewestFrom(1, k, x)' <=> IF p = 1 /\ k \in Noted(p) THEN x = value[p][k]
                                         ELSE NewestFrom(1, k, x)
  BY <1>1, <1>3, <1>5 DEF FliesFrom, NewestFrom
<1> QED
  BY <1>4, <1>6

LEMMA SendAgree ==
    ASSUME Inv, AgreeInv, NEW p \in Player, Send(p)
    PROVE  AgreeInv'
<1>1. p = 0 \/ p = 1
  BY DEF Send, Sender
<1>2. ASSUME NEW k \in Shared PROVE PairInv(k)' /\ WatcherInv(k)'
  <2>1. PairInv(k) /\ WatcherInv(k) /\ k \in Plain
    BY PlainFacts DEF AgreeInv
  <2>2. /\ \A q \in Player : q # p => local'[q] = local[q] /\ ghost'[q] = ghost[q]
        /\ local'[p][k] = IF k \in Noted(p) THEN value[p][k] ELSE local[p][k]
        /\ ghost'[p].sent[k] = IF k \in Noted(p) THEN value[p][k] ELSE ghost[p].sent[k]
        /\ k \in ghost'[p].skipped <=> (k \in ghost[p].skipped /\ k \notin Noted(p))
        /\ value' = value
    BY <2>1, SendKey
  <2>3. /\ \A c \in Client :
              /\ FliesTo(c, k)' <=> FliesTo(c, k) \/ (p = 0 /\ k \in Noted(p))
              /\ \A x : NewestTo(c, k, x)' <=> IF p = 0 /\ k \in Noted(p) THEN x = value[p][k]
                                               ELSE NewestTo(c, k, x)
        /\ FliesFrom(1, k)' <=> FliesFrom(1, k) \/ (p = 1 /\ k \in Noted(p))
        /\ \A x : NewestFrom(1, k, x)' <=> IF p = 1 /\ k \in Noted(p) THEN x = value[p][k]
                                           ELSE NewestFrom(1, k, x)
    BY <2>1, SendWays
  <2>4. PairInv(k)'
    BY <1>1, <2>1, <2>2, <2>3, WatcherFacts DEF PairInv, NewestIsSent, Heard
  <2>5. ASSUME NEW c \in Watcher PROVE Follows(c, k)' /\ (k # "GameState" => value'[c][k] = local'[c][k])
    <3>1. Follows(c, k) /\ (k # "GameState" => value[c][k] = local[c][k])
      BY <2>1 DEF WatcherInv
    <3>2. c # p /\ c \in Player /\ c \in Client /\ 0 \in Player /\ 1 \in Player /\ 1 \in Client
      BY <1>1, WatcherFacts
    <3>3. Follows(c, k)'
      <4>1. CASE p = 0
        BY <2>2, <2>3, <3>1, <3>2, <4>1 DEF Follows, WillHold
      <4>2. CASE p = 1
        BY <2>2, <2>3, <3>1, <3>2, <4>2 DEF Follows, WillHold
      <4> QED
        BY <1>1, <4>1, <4>2
    <3> QED
      BY <2>2, <3>1, <3>2, <3>3
  <2> QED
    BY <2>4, <2>5 DEF WatcherInv
<1>3. ASSUME "StageSelection2P" \in Message PROVE SelectionInv("StageSelection2P")'
  <2> DEFINE k == "StageSelection2P"
  <2>1. SelectionInv(k) /\ k \in Plain
    BY <1>3, PlainFacts DEF AgreeInv
  <2>2. k \in Noted(p) => p = 0
    BY DEF Noted, Wanted, WantedInMenu, SystemMessage, Host
  <2>3. /\ \A q \in Player : q # p => local'[q] = local[q] /\ ghost'[q] = ghost[q]
        /\ local'[p][k] = IF k \in Noted(p) THEN value[p][k] ELSE local[p][k]
        /\ ghost'[p].sent[k] = IF k \in Noted(p) THEN value[p][k] ELSE ghost[p].sent[k]
        /\ k \in ghost'[p].skipped <=> (k \in ghost[p].skipped /\ k \notin Noted(p))
        /\ ghost'[p].touched = ghost[p].touched
        /\ value' = value
    BY <2>1, SendKey
  <2>4. \A c \in Client :
            /\ FliesTo(c, k)' <=> FliesTo(c, k) \/ (p = 0 /\ k \in Noted(p))
            /\ \A x : NewestTo(c, k, x)' <=> IF p = 0 /\ k \in Noted(p) THEN x = value[p][k]
                                             ELSE NewestTo(c, k, x)
    BY <2>1, SendWays
  <2>5. ASSUME localSubMenu' = "s_stagesel", k \notin Noted(p)
        PROVE  localSubMenu = "s_stagesel" \/ Has(tcp_packet[0], k)
    <3>1. localSubMenu' = IF p = Host /\ InMenu(value[p]) THEN subMenu ELSE localSubMenu
      BY DEF Send
    <3>2. CASE ~(p = Host /\ InMenu(value[p]))
      BY <2>5, <3>1, <3>2
    <3>3. CASE p = Host /\ InMenu(value[p]) /\ k \in Queued(p)
      <4>1. Has(tcp_packet[p], k)
        BY <2>1, <3>3, SendHas
      <4> QED
        BY <3>3, <4>1 DEF Host
    <3>4. CASE p = Host /\ InMenu(value[p]) /\ k \notin Queued(p)
      <4>1. k \notin Wanted(p)
        BY <2>5, <3>4 DEF Noted
      <4>2. ~FirstMenuEntry
        BY <1>3, <2>5, <3>1, <3>4, <4>1 DEF Wanted, WantedInMenu, SystemMessage
      <4> QED
        BY <2>5, <3>1, <3>4, <4>2 DEF FirstMenuEntry
    <3> QED
      BY <3>2, <3>3, <3>4
  <2>6. local'[0][k] = ghost'[0].sent[k]
    BY <1>1, <2>1, <2>3, WatcherFacts DEF SelectionInv
  <2>7. ASSUME NEW c \in Client
        PROVE  /\ \A x : NewestTo(c, k, x)' => x = ghost'[0].sent[k]
               /\ localSubMenu' = "s_stagesel" =>
                      \/ k \in ghost'[c].skipped \cup ghost'[c].touched
                      \/ FliesTo(c, k)'
                      \/ value'[c][k] = local'[0][k]
    <3>1. /\ \A x : NewestTo(c, k, x) => x = ghost[0].sent[k]
          /\ localSubMenu = "s_stagesel" =>
                 \/ k \in ghost[c].skipped \cup ghost[c].touched
                 \/ FliesTo(c, k)
                 \/ value[c][k] = local[0][k]
      BY <2>1 DEF SelectionInv
    <3>2. c # 0 /\ c \in Player /\ 0 \in Player
      BY WatcherFacts
    <3>3. Has(tcp_packet[0], k) => FliesTo(c, k)
      BY DEF FliesTo, Host
    <3> HIDE DEF k
    <3>4. CASE p = 0 /\ k \in Noted(p)
      BY <2>3, <2>4, <3>4
    <3>5. CASE k \notin Noted(p)
      <4>1. /\ local'[0][k] = local[0][k] /\ ghost'[0].sent[k] = ghost[0].sent[k]
            /\ k \in ghost'[c].skipped \cup ghost'[c].touched
                   <=> k \in ghost[c].skipped \cup ghost[c].touched
        BY <1>1, <2>3, <3>2, <3>5
      <4> QED
        BY <2>3, <2>4, <2>5, <3>1, <3>3, <3>5, <4>1
    <3> QED
      BY <2>2, <3>4, <3>5
  <2> QED
    BY <2>6, <2>7 DEF SelectionInv
<1> QED
  BY <1>2, <1>3 DEF AgreeInv

-----------------------------------------------------------------------------
(* read *)

\* What read does to a variable that is not one player's: it is left alone, a change of it
\* skipped, or it has what a change of the packet brings.
LEMMA ReadKey ==
    ASSUME Inv, NEW p \in Player, NEW packet \in GoodPacket, Read(p, packet), NEW k \in Plain
    PROVE  /\ \A q \in Player : q # p => /\ value'[q] = value[q] /\ local'[q] = local[q]
                                         /\ ghost'[q] = ghost[q]
           /\ ghost'[p].sent = ghost[p].sent
           /\ \/ /\ value'[p][k] = value[p][k] /\ local'[p][k] = local[p][k]
                 /\ k \in ghost'[p].skipped <=> k \in ghost[p].skipped \/ Has(packet.changes, k)
                 /\ k \in ghost'[p].touched <=> k \in ghost[p].touched
              \/ /\ Brings(packet.changes, k, local'[p][k]) /\ value'[p][k] = local'[p][k]
                 /\ k \notin ghost'[p].skipped
<1> DEFINE s == packet.changes
           o == packet.pnum
<1>1. /\ \A q \in Player : q # p => /\ value'[q] = value[q] /\ local'[q] = local[q]
                                    /\ ghost'[q] = ghost[q]
      /\ ghost'[p].sent = ghost[p].sent
      /\ AfterSome(p, packet, After(p), DOMAIN packet.changes)
  BY ReadStep DEF Inv
<1>2. /\ \A i \in DOMAIN s : Effect(Before(p), After(p), o, s[i])
      /\ \A j \in Memory : (\A i \in DOMAIN s : Target(s[i].type, o) # j) =>
             SameAt(Before(p), After(p), j)
  BY <1>1 DEF AfterSome
<1>3. \A i \in DOMAIN s : Target(s[i].type, o) = k <=> s[i].type = k
  <2>1. s \in Seq(GoodChange)
    BY DEF GoodPacket, GoodChanges
  <2>2. \A i \in DOMAIN s : s[i].type \in Message
    BY <2>1 DEF GoodChange, Change
  <2> QED
    BY <2>2, PlainFacts
<1>4. k \in Memory
  BY PlainFacts
<1>5. /\ Before(p).value = value[p] /\ Before(p).local = local[p]
      /\ Before(p).skipped = ghost[p].skipped /\ Before(p).touched = ghost[p].touched
      /\ After(p).value = value'[p] /\ After(p).local = local'[p]
      /\ After(p).skipped = ghost'[p].skipped /\ After(p).touched = ghost'[p].touched
  BY DEF Before, After
<1> HIDE DEF s, o
<1>6. CASE ~Has(s, k)
  <2>1. SameAt(Before(p), After(p), k)
    BY <1>2, <1>3, <1>4, <1>6 DEF Has
  <2> QED
    BY <1>1, <1>5, <1>6, <2>1 DEF SameAt, s
<1>7. CASE Has(s, k)
  <2>1. PICK i \in DOMAIN s : s[i].type = k
    BY <1>7 DEF Has
  <2>2. Effect(Before(p), After(p), o, s[i]) /\ Target(s[i].type, o) = k
    BY <1>2, <1>3, <2>1
  <2>3. CASE Takes(value[p], s[i])
    <3>1. /\ value'[p][k] = s[i].data /\ local'[p][k] = s[i].data /\ k \notin ghost'[p].skipped
      BY <1>5, <2>2, <2>3 DEF Effect
    <3> QED
      BY <1>1, <2>1, <3>1 DEF Brings, s
  <2>4. CASE ~Takes(value[p], s[i])
    <3>1. /\ value'[p][k] = value[p][k] /\ local'[p][k] = local[p][k]
          /\ k \in ghost'[p].skipped
          /\ k \in ghost'[p].touched <=> k \in ghost[p].touched
      BY <1>5, <2>2, <2>4 DEF Effect
    <3> QED
      BY <1>1, <1>7, <3>1 DEF s
  <2> QED
    BY <2>3, <2>4
<1> QED
  BY <1>6, <1>7

\* A stream whose first packet x is read, with what is queued behind it.
LEMMA WayRead ==
    ASSUME NEW tcp, NEW old, NEW new, NEW x, Shrunk(new, old, x), NEW k
    PROVE  /\ (Has(tcp, k) \/ Flies(old, k)) <=> (Has(tcp, k) \/ Flies(new, k)) \/ Has(x.changes, k)
           /\ \A y : (IF Has(tcp, k) THEN Brings(tcp, k, y) ELSE Newest(old, k, y)) <=>
                  IF Has(tcp, k) \/ Flies(new, k)
                  THEN IF Has(tcp, k) THEN Brings(tcp, k, y) ELSE Newest(new, k, y)
                  ELSE Brings(x.changes, k, y)
BY WayShrunk

\* The host reads x of client c and relays it.
LEMMA FromClientWays ==
    ASSUME Inv, NEW c \in Client, ReceiveFromClient(c), NEW k
    PROVE  \E x \in GoodPacket :
             /\ Read(Host, x) /\ FromOwner(x.changes, c)
             /\ FliesFrom(1, k) <=> FliesFrom(1, k)' \/ Has(x.changes, k)
             /\ \A y : NewestFrom(1, k, y) <=> IF FliesFrom(1, k)' THEN NewestFrom(1, k, y)'
                                               ELSE Brings(x.changes, k, y)
             /\ FliesTo(1, k)' <=> FliesTo(1, k)
             /\ \A y : NewestTo(1, k, y)' <=> NewestTo(1, k, y)
             /\ \A d \in Watcher :
                  /\ FliesTo(d, k)' <=> FliesTo(d, k) \/ Has(x.changes, k)
                  /\ \A y : NewestTo(d, k, y)' <=>
                         IF Has(tcp_packet[Host], k) THEN Brings(tcp_packet[Host], k, y)
                         ELSE IF Has(x.changes, k) THEN Brings(x.changes, k, y)
                         ELSE Newest(toClient[d], k, y)
<1> USE DEF Inv
<1> DEFINE x == Head(toHost[c])
<1>1. /\ UNCHANGED tcp_packet
      /\ toHost[c] # <<>> /\ Read(Host, x)
      /\ toHost' = [toHost EXCEPT ![c] = Tail(@)]
      /\ toClient' = [d \in Client |-> IF d # c /\ ~x.ready THEN Append(toClient[d], x)
                                       ELSE toClient[d]]
      /\ toHost \in [Client -> Seq(GoodPacket)] /\ toClient \in [Client -> Seq(GoodPacket)]
  BY DEF ReceiveFromClient, RelayTo, TypeInv
<1>2. Shrunk(Tail(toHost[c]), toHost[c], x)
  BY <1>1, TailShrunk
<1>3. x \in GoodPacket /\ x = toHost[c][1] /\ 1 \in DOMAIN toHost[c]
  BY <1>2 DEF Shrunk
<1>4. FromClient(x, c)
  BY <1>3 DEF OwnerInv
<1>5. FromOwner(x.changes, c) /\ (x.ready \/ c # 1 => x.changes = <<>>)
  BY <1>4, WatcherFacts DEF FromClient, FromOwner, Sender
<1> HIDE DEF x
<1>6. /\ Shrunk(toHost'[c], toHost[c], x)
      /\ \A d \in Client : d # c => toHost'[d] = toHost[d]
  BY <1>1, <1>2
<1>7. \A d \in Client : \/ toClient'[d] = toClient[d] /\ (d = c \/ x.changes = <<>>)
                        \/ d # c /\ Grown(toClient'[d], toClient[d], x)
  <2>1. \A d \in Client : Grown(Append(toClient[d], x), toClient[d], x)
    BY <1>1, <1>3, AppendGrown
  <2> QED
    BY <1>1, <1>5, <2>1
<1>8. /\ FliesFrom(1, k)' <=> Has(tcp_packet[1], k) \/ Flies(toHost'[1], k)
      /\ \A y : NewestFrom(1, k, y)' <=> IF Has(tcp_packet[1], k) THEN Brings(tcp_packet[1], k, y)
                                         ELSE Newest(toHost'[1], k, y)
      /\ \A d : /\ FliesTo(d, k)' <=> Has(tcp_packet[Host], k) \/ Flies(toClient'[d], k)
                /\ \A y : NewestTo(d, k, y)' <=>
                       IF Has(tcp_packet[Host], k) THEN Brings(tcp_packet[Host], k, y)
                       ELSE Newest(toClient'[d], k, y)
  BY <1>1 DEF FliesFrom, NewestFrom, FliesTo, NewestTo, Flies, Newest, Has, Brings
<1>9. /\ FliesFrom(1, k) <=> FliesFrom(1, k)' \/ Has(x.changes, k)
      /\ \A y : NewestFrom(1, k, y) <=> IF FliesFrom(1, k)' THEN NewestFrom(1, k, y)'
                                        ELSE Brings(x.changes, k, y)
  <2>1. CASE c = 1
    <3>1. Shrunk(toHost'[1], toHost[1], x)
      BY <1>6, <2>1
    <3>2. /\ Flies(toHost[1], k) <=> Has(x.changes, k) \/ Flies(toHost'[1], k)
          /\ \A y : Newest(toHost[1], k, y) <=> IF Flies(toHost'[1], k) THEN Newest(toHost'[1], k, y)
                                                ELSE Brings(x.changes, k, y)
      BY <3>1, WayShrunk
    <3> QED
      BY <1>8, <3>2 DEF FliesFrom, NewestFrom
  <2>2. CASE c # 1
    <3>1. x.changes = <<>> /\ toHost'[1] = toHost[1]
      BY <1>5, <1>6, <2>2, WatcherFacts
    <3>2. ~Has(x.changes, k) /\ \A y : ~Brings(x.changes, k, y)
      BY <3>1, NothingHas, BringsHas
    <3>3. /\ FliesFrom(1, k)' <=> FliesFrom(1, k)
          /\ \A y : NewestFrom(1, k, y)' <=> NewestFrom(1, k, y)
      BY <1>8, <3>1 DEF FliesFrom, NewestFrom
    <3> QED
      BY <3>2, <3>3, NewestKnown
  <2> QED
    BY <2>1, <2>2
<1>10. ASSUME NEW d \in Client, d # 1 \/ x.changes = <<>>
       PROVE  /\ FliesTo(d, k)' <=> FliesTo(d, k) \/ Has(x.changes, k)
              /\ \A y : NewestTo(d, k, y)' <=>
                     IF Has(tcp_packet[Host], k) THEN Brings(tcp_packet[Host], k, y)
                     ELSE IF Has(x.changes, k) THEN Brings(x.changes, k, y)
                     ELSE Newest(toClient[d], k, y)
  <2>1. CASE toClient'[d] = toClient[d] /\ (d = c \/ x.changes = <<>>)
    <3>1. ~Has(x.changes, k)
      BY <1>5, <1>10, <2>1, NothingHas
    <3> QED
      BY <1>8, <2>1, <3>1 DEF FliesTo
  <2>2. CASE Grown(toClient'[d], toClient[d], x)
    BY <1>8, <2>2, WayGrown DEF FliesTo
  <2> QED
    BY <1>7, <2>1, <2>2
<1>11. /\ FliesTo(1, k)' <=> FliesTo(1, k)
       /\ \A y : NewestTo(1, k, y)' <=> NewestTo(1, k, y)
  <2>1. CASE c = 1
    <3>1. toClient'[1] = toClient[1]
      BY <1>7, <2>1
    <3> QED
      BY <1>8, <3>1 DEF FliesTo, NewestTo
  <2>2. CASE c # 1
    <3>1. x.changes = <<>> /\ ~Has(x.changes, k)
      BY <1>5, <2>2, NothingHas
    <3> QED
      BY <1>10, <3>1, WatcherFacts DEF NewestTo
  <2> QED
    BY <2>1, <2>2
<1> QED
  BY <1>1, <1>3, <1>5, <1>9, <1>10, <1>11, WatcherFacts

\* Client c reads x of the host.
LEMMA FromHostWays ==
    ASSUME Inv, NEW c \in Client, ReceiveFromHost(c), NEW k
    PROVE  \E x \in GoodPacket :
             /\ Read(c, x)
             /\ FliesTo(c, k) <=> FliesTo(c, k)' \/ Has(x.changes, k)
             /\ \A y : NewestTo(c, k, y) <=> IF FliesTo(c, k)' THEN NewestTo(c, k, y)'
                                             ELSE Brings(x.changes, k, y)
             /\ \A d \in Client : d # c => /\ FliesTo(d, k)' <=> FliesTo(d, k)
                                           /\ \A y : NewestTo(d, k, y)' <=> NewestTo(d, k, y)
             /\ FliesFrom(1, k)' <=> FliesFrom(1, k)
             /\ \A y : NewestFrom(1, k, y)' <=> NewestFrom(1, k, y)
<1> USE DEF Inv
<1> DEFINE x == Head(toClient[c])
<1>1. /\ UNCHANGED <<tcp_packet, toHost>>
      /\ toClient[c] # <<>> /\ Read(c, x)
      /\ toClient' = [toClient EXCEPT ![c] = Tail(@)]
      /\ toClient \in [Client -> Seq(GoodPacket)]
  BY DEF ReceiveFromHost, TypeInv
<1>2. Shrunk(Tail(toClient[c]), toClient[c], x)
  BY <1>1, TailShrunk
<1>3. x \in GoodPacket
  BY <1>2 DEF Shrunk
<1> HIDE DEF x
<1>4. /\ Shrunk(toClient'[c], toClient[c], x)
      /\ \A d \in Client : d # c => toClient'[d] = toClient[d]
  BY <1>1, <1>2
<1>5. /\ FliesFrom(1, k)' <=> FliesFrom(1, k)
      /\ \A y : NewestFrom(1, k, y)' <=> NewestFrom(1, k, y)
      /\ \A d : /\ FliesTo(d, k)' <=> Has(tcp_packet[Host], k) \/ Flies(toClient'[d], k)
                /\ \A y : NewestTo(d, k, y)' <=>
                       IF Has(tcp_packet[Host], k) THEN Brings(tcp_packet[Host], k, y)
                       ELSE Newest(toClient'[d], k, y)
  BY <1>1 DEF FliesFrom, NewestFrom, FliesTo, NewestTo, Flies, Newest, Has, Brings
<1>6. /\ FliesTo(c, k) <=> FliesTo(c, k)' \/ Has(x.changes, k)
      /\ \A y : NewestTo(c, k, y) <=> IF FliesTo(c, k)' THEN NewestTo(c, k, y)'
                                      ELSE Brings(x.changes, k, y)
  BY <1>4, <1>5, WayRead DEF FliesTo, NewestTo
<1>7. \A d \in Client : d # c => /\ FliesTo(d, k)' <=> FliesTo(d, k)
                                 /\ \A y : NewestTo(d, k, y)' <=> NewestTo(d, k, y)
  BY <1>4, <1>5 DEF FliesTo, NewestTo
<1> QED
  BY <1>1, <1>3, <1>5, <1>6, <1>7

LEMMA ReceiveFromClientAgree ==
    ASSUME Inv, AgreeInv, NEW c \in Client, ReceiveFromClient(c)
    PROVE  AgreeInv'
<1>1. Host \in Player /\ Host = 0
  BY WatcherFacts DEF Host
<1>2. ASSUME NEW k \in Shared PROVE PairInv(k)' /\ WatcherInv(k)'
  <2>1. PairInv(k) /\ WatcherInv(k) /\ k \in Plain
    BY PlainFacts DEF AgreeInv
  <2>2. PICK x \in GoodPacket :
             /\ Read(Host, x)
             /\ FliesFrom(1, k) <=> FliesFrom(1, k)' \/ Has(x.changes, k)
             /\ \A y : NewestFrom(1, k, y) <=> IF FliesFrom(1, k)' THEN NewestFrom(1, k, y)'
                                               ELSE Brings(x.changes, k, y)
             /\ FliesTo(1, k)' <=> FliesTo(1, k)
             /\ \A y : NewestTo(1, k, y)' <=> NewestTo(1, k, y)
             /\ \A d \in Watcher :
                  /\ FliesTo(d, k)' <=> FliesTo(d, k) \/ Has(x.changes, k)
                  /\ \A y : NewestTo(d, k, y)' <=>
                         IF Has(tcp_packet[Host], k) THEN Brings(tcp_packet[Host], k, y)
                         ELSE IF Has(x.changes, k) THEN Brings(x.changes, k, y)
                         ELSE Newest(toClient[d], k, y)
    BY FromClientWays
  <2>3. /\ \A q \in Player : q # 0 => /\ value'[q] = value[q] /\ local'[q] = local[q]
                                      /\ ghost'[q] = ghost[q]
        /\ ghost'[0].sent = ghost[0].sent
        /\ \/ /\ local'[0][k] = local[0][k]
              /\ k \in ghost'[0].skipped <=> k \in ghost[0].skipped \/ Has(x.changes, k)
           \/ /\ Brings(x.changes, k, local'[0][k])
              /\ k \notin ghost'[0].skipped
    BY <1>1, <2>1, <2>2, ReadKey
  <2>4. /\ local'[1] = local[1] /\ ghost'[1] = ghost[1]
        /\ \A d \in Watcher : local'[d] = local[d] /\ ghost'[d] = ghost[d] /\ value'[d] = value[d]
    BY <2>3, WatcherFacts
  <2>5. \A y : /\ Brings(x.changes, k, y) => Has(x.changes, k)
               /\ NewestTo(1, k, y) => FliesTo(1, k)
    BY BringsHas, NewestKnown
  <2>6. NewestIsSent(k)'
    <3>1. \A y : NewestFrom(1, k, y)' => FliesFrom(1, k)'
      BY NewestKnown
    <3> QED
      BY <2>1, <2>2, <2>3, <2>4, <3>1 DEF PairInv, NewestIsSent
  <2>7. \/ FliesFrom(1, k)'
        \/ /\ ~Has(x.changes, k) /\ local'[0][k] = local[0][k]
           /\ k \in ghost'[0].skipped <=> k \in ghost[0].skipped
        \/ k \in ghost'[0].skipped
        \/ local'[0][k] = ghost[1].sent[k]
    BY <2>1, <2>2, <2>3, <2>5 DEF PairInv, NewestIsSent
  <2>8. PairInv(k)'
    BY <2>1, <2>2, <2>3, <2>4, <2>6, <2>7 DEF PairInv, Heard
  <2>9. ASSUME NEW d \in Watcher PROVE Follows(d, k)'
    <3>1. Follows(d, k) /\ d \in Client
      BY <2>1, WatcherFacts DEF WatcherInv
    <3>2. CASE ~Has(x.changes, k)
      <4>1. /\ local'[0][k] = local[0][k]
            /\ k \in ghost'[0].skipped <=> k \in ghost[0].skipped
        BY <2>3, <2>5, <3>2
      <4>2. /\ FliesTo(d, k)' <=> FliesTo(d, k)
            /\ \A y : NewestTo(d, k, y)' <=> NewestTo(d, k, y)
            /\ FliesFrom(1, k)' <=> FliesFrom(1, k)
        BY <2>2, <3>2 DEF NewestTo
      <4> QED
        BY <2>2, <2>3, <2>4, <3>1, <4>1, <4>2 DEF Follows, WillHold
    <3>3. CASE k \in ghost'[0].skipped
      BY <3>3 DEF Follows
    <3>4. CASE Has(x.changes, k) /\ k \notin ghost'[0].skipped
      <4>1. Brings(x.changes, k, local'[0][k]) /\ FliesTo(d, k)'
        BY <2>2, <2>3, <3>4
      <4>2. CASE ~Has(tcp_packet[Host], k)
        <5>1. \A y : Brings(x.changes, k, y) => NewestTo(d, k, y)'
          BY <2>2, <3>4, <4>2
        <5> QED
          BY <4>1, <5>1 DEF Follows, WillHold
      <4>3. CASE Has(tcp_packet[Host], k)
        <5>1. PICK y : Brings(tcp_packet[Host], k, y)
          BY <4>3, BringsHas
        <5>2. NewestTo(1, k, y) /\ FliesTo(1, k)
          BY <4>3, <5>1 DEF NewestTo, FliesTo
        <5>3. y = ghost[0].sent[k]
          BY <2>1, <5>2 DEF PairInv, NewestIsSent
        <5>4. NewestTo(d, k, y)' /\ FliesTo(1, k)' /\ y = ghost'[0].sent[k]
          BY <2>2, <2>3, <4>3, <5>1, <5>2, <5>3
        <5> QED
          BY <4>1, <5>4 DEF Follows, WillHold
      <4> QED
        BY <4>2, <4>3
    <3> QED
      BY <3>2, <3>3, <3>4
  <2> QED
    BY <2>1, <2>4, <2>8, <2>9 DEF WatcherInv
<1>3. ASSUME "StageSelection2P" \in Message PROVE SelectionInv("StageSelection2P")'
  <2> DEFINE k == "StageSelection2P"
  <2>1. SelectionInv(k) /\ k \in Plain /\ k \in MenuMessage
    BY <1>3, PlainFacts DEF AgreeInv, MenuMessage
  <2> HIDE DEF k
  <2>2. PICK x \in GoodPacket :
             /\ Read(Host, x) /\ FromOwner(x.changes, c)
             /\ FliesTo(1, k)' <=> FliesTo(1, k)
             /\ \A y : NewestTo(1, k, y)' <=> NewestTo(1, k, y)
             /\ \A d \in Watcher :
                  /\ FliesTo(d, k)' <=> FliesTo(d, k) \/ Has(x.changes, k)
                  /\ \A y : NewestTo(d, k, y)' <=>
                         IF Has(tcp_packet[Host], k) THEN Brings(tcp_packet[Host], k, y)
                         ELSE IF Has(x.changes, k) THEN Brings(x.changes, k, y)
                         ELSE Newest(toClient[d], k, y)
    BY FromClientWays
  <2>3. ~Has(x.changes, k)
    BY <1>1, <2>1, <2>2, WatcherFacts DEF FromOwner, Has
  <2>4. \A d \in Client : /\ FliesTo(d, k)' <=> FliesTo(d, k)
                          /\ \A y : NewestTo(d, k, y)' <=> NewestTo(d, k, y)
    BY <2>2, <2>3 DEF NewestTo, Watcher
  <2>5. /\ \A q \in Client : value'[q] = value[q] /\ ghost'[q] = ghost[q]
        /\ ghost'[0].sent = ghost[0].sent /\ local'[0][k] = local[0][k]
    <3>1. /\ \A q \in Player : q # 0 => value'[q] = value[q] /\ ghost'[q] = ghost[q]
          /\ ghost'[0].sent = ghost[0].sent
          /\ local'[0][k] = local[0][k] \/ Brings(x.changes, k, local'[0][k])
      BY <1>1, <2>1, <2>2, ReadKey
    <3>2. \A y : ~Brings(x.changes, k, y)
      BY <2>3, BringsHas
    <3> QED
      BY <3>1, <3>2, WatcherFacts
  <2>6. localSubMenu' = localSubMenu
    BY DEF ReceiveFromClient
  <2>7. SelectionInv(k)'
    BY <2>1, <2>4, <2>5, <2>6 DEF SelectionInv
  <2> QED
    BY <2>7 DEF k
<1> QED
  BY <1>2, <1>3 DEF AgreeInv

LEMMA ReceiveFromHostAgree ==
    ASSUME Inv, AgreeInv, NEW c \in Client, ReceiveFromHost(c)
    PROVE  AgreeInv'
<1>1. c \in Player /\ c # 0 /\ 0 \in Player /\ (c = 1 \/ c \in Watcher)
  BY WatcherFacts DEF Watcher
<1>2. ASSUME NEW k \in Shared PROVE PairInv(k)' /\ WatcherInv(k)'
  <2>1. PairInv(k) /\ WatcherInv(k) /\ k \in Plain
    BY PlainFacts DEF AgreeInv
  <2>2. PICK x \in GoodPacket :
             /\ Read(c, x)
             /\ FliesTo(c, k) <=> FliesTo(c, k)' \/ Has(x.changes, k)
             /\ \A y : NewestTo(c, k, y) <=> IF FliesTo(c, k)' THEN NewestTo(c, k, y)'
                                             ELSE Brings(x.changes, k, y)
             /\ \A d \in Client : d # c => /\ FliesTo(d, k)' <=> FliesTo(d, k)
                                           /\ \A y : NewestTo(d, k, y)' <=> NewestTo(d, k, y)
             /\ FliesFrom(1, k)' <=> FliesFrom(1, k)
             /\ \A y : NewestFrom(1, k, y)' <=> NewestFrom(1, k, y)
    BY FromHostWays
  <2>3. /\ \A q \in Player : q # c => /\ value'[q] = value[q] /\ local'[q] = local[q]
                                      /\ ghost'[q] = ghost[q]
        /\ ghost'[c].sent = ghost[c].sent
        /\ \/ /\ value'[c][k] = value[c][k] /\ local'[c][k] = local[c][k]
              /\ k \in ghost'[c].skipped <=> k \in ghost[c].skipped \/ Has(x.changes, k)
           \/ /\ Brings(x.changes, k, local'[c][k]) /\ value'[c][k] = local'[c][k]
              /\ k \notin ghost'[c].skipped
    BY <1>1, <2>1, <2>2, ReadKey
  <2>4. \A y : Brings(x.changes, k, y) => Has(x.changes, k)
    BY BringsHas
  <2>5. /\ value'[0] = value[0] /\ local'[0] = local[0] /\ ghost'[0] = ghost[0]
        /\ ghost'[1].sent = ghost[1].sent
        /\ c # 1 => local'[1] = local[1] /\ ghost'[1] = ghost[1]
        /\ \A d \in Watcher : d # c => /\ value'[d] = value[d] /\ local'[d] = local[d]
                                       /\ ghost'[d] = ghost[d]
    BY <1>1, <2>3, WatcherFacts
  <2>6. NewestIsSent(k)'
    <3>1. \A y : NewestTo(c, k, y)' => FliesTo(c, k)'
      BY NewestKnown
    <3>2. \A y : NewestTo(1, k, y)' => NewestTo(1, k, y)
      BY <2>2, <3>1, WatcherFacts
    <3> QED
      BY <2>1, <2>2, <2>5, <3>2 DEF PairInv, NewestIsSent
  <2>7. c = 1 =>
            \/ FliesTo(1, k)'
            \/ /\ local'[1][k] = local[1][k] /\ (FliesTo(1, k)' <=> FliesTo(1, k))
               /\ k \in ghost'[1].skipped <=> k \in ghost[1].skipped
            \/ k \in ghost'[1].skipped
            \/ local'[1][k] = ghost[0].sent[k]
    <3>1. CASE Has(x.changes, k) /\ ~FliesTo(c, k)' /\ k \notin ghost'[c].skipped
      <4>1. NewestTo(c, k, local'[c][k])
        BY <2>2, <2>3, <3>1
      <4> QED
        BY <2>1, <4>1 DEF PairInv, NewestIsSent
    <3>2. CASE ~Has(x.changes, k)
      BY <2>2, <2>3, <2>4, <3>2
    <3> QED
      BY <3>1, <3>2
  <2>8. PairInv(k)'
    <3>1. CASE c = 1
      BY <2>1, <2>2, <2>5, <2>6, <2>7, <3>1 DEF PairInv, Heard
    <3>2. CASE c # 1
      BY <2>1, <2>2, <2>5, <2>6, <3>2, WatcherFacts DEF PairInv, Heard
    <3> QED
      BY <3>1, <3>2
  <2>9. ASSUME NEW d \in Watcher, d # c
        PROVE  Follows(d, k)' /\ (k # "GameState" => value'[d][k] = local'[d][k])
    <3>1. Follows(d, k) /\ (k # "GameState" => value[d][k] = local[d][k]) /\ d \in Client
      BY <2>1, <2>9, WatcherFacts DEF WatcherInv
    <3>2. FliesTo(1, k) \/ local[1][k] = ghost[0].sent[k] \/ k \in ghost[1].skipped
              => \/ FliesTo(1, k)' \/ local'[1][k] = ghost[0].sent[k] \/ k \in ghost'[1].skipped
      <4>1. CASE c = 1
        BY <2>2, <2>3, <2>4, <2>7, <4>1
      <4>2. CASE c # 1
        BY <2>2, <2>5, <4>2, WatcherFacts
      <4> QED
        BY <4>1, <4>2
    <3> QED
      BY <2>2, <2>5, <2>9, <3>1, <3>2 DEF Follows, WillHold
  <2>10. ASSUME c \in Watcher
         PROVE  Follows(c, k)' /\ (k # "GameState" => value'[c][k] = local'[c][k])
    <3>1. Follows(c, k) /\ (k # "GameState" => value[c][k] = local[c][k]) /\ c # 1
      BY <2>1, <2>10, WatcherFacts DEF WatcherInv
    <3>2. \A y, z : Brings(x.changes, k, y) /\ Brings(x.changes, k, z) => y = z
      <4>1. x.changes \in GoodChanges
        BY DEF GoodPacket
      <4> QED
        BY <4>1, BringsOne
    <3>3. ASSUME NEW y, WillHold(c, k, y)
          PROVE  WillHold(c, k, y)' \/ (~FliesTo(c, k)' /\ k \in ghost'[c].skipped)
      <4>1. CASE FliesTo(c, k)'
        BY <2>2, <3>3, <4>1 DEF WillHold
      <4>2. CASE ~FliesTo(c, k)' /\ ~Has(x.changes, k)
        BY <2>2, <2>3, <2>4, <3>3, <4>2 DEF WillHold
      <4>3. CASE ~FliesTo(c, k)' /\ Has(x.changes, k)
        <5>1. Brings(x.changes, k, y)
          BY <2>2, <3>3, <4>3 DEF WillHold
        <5> QED
          BY <2>3, <3>2, <4>3, <5>1 DEF WillHold
      <4> QED
        BY <4>1, <4>2, <4>3
    <3>4. ~FliesTo(c, k) /\ k \in ghost[c].skipped => ~FliesTo(c, k)' /\ k \in ghost'[c].skipped
      BY <2>2, <2>3, <2>4
    <3>5. /\ FliesTo(1, k)' <=> FliesTo(1, k)
          /\ local'[1][k] = local[1][k] /\ ghost'[1] = ghost[1]
      BY <2>2, <2>5, <3>1, WatcherFacts
    <3>6. Follows(c, k)'
      BY <2>2, <2>5, <3>1, <3>3, <3>4, <3>5 DEF Follows
    <3> QED
      BY <2>3, <3>1, <3>6
  <2> QED
    BY <2>8, <2>9, <2>10 DEF WatcherInv
<1>3. ASSUME "StageSelection2P" \in Message PROVE SelectionInv("StageSelection2P")'
  <2> DEFINE k == "StageSelection2P"
  <2>1. SelectionInv(k) /\ k \in Plain
    BY <1>3, PlainFacts DEF AgreeInv
  <2> HIDE DEF k
  <2>2. PICK x \in GoodPacket :
             /\ Read(c, x)
             /\ FliesTo(c, k) <=> FliesTo(c, k)' \/ Has(x.changes, k)
             /\ \A y : NewestTo(c, k, y) <=> IF FliesTo(c, k)' THEN NewestTo(c, k, y)'
                                             ELSE Brings(x.changes, k, y)
             /\ \A d \in Client : d # c => /\ FliesTo(d, k)' <=> FliesTo(d, k)
                                           /\ \A y : NewestTo(d, k, y)' <=> NewestTo(d, k, y)
    BY FromHostWays
  <2>3. /\ \A q \in Player : q # c => /\ value'[q] = value[q] /\ local'[q] = local[q]
                                      /\ ghost'[q] = ghost[q]
        /\ \/ /\ value'[c][k] = value[c][k]
              /\ k \in ghost'[c].skipped <=> k \in ghost[c].skipped \/ Has(x.changes, k)
              /\ k \in ghost'[c].touched <=> k \in ghost[c].touched
           \/ Brings(x.changes, k, value'[c][k])
    BY <1>1, <2>1, <2>2, ReadKey
  <2>4. \A y : /\ Brings(x.changes, k, y) => Has(x.changes, k)
               /\ NewestTo(c, k, y)' => FliesTo(c, k)'
    <3>1. \A y : NewestTo(c, k, y)' => FliesTo(c, k)'
      BY NewestKnown
    <3> QED
      BY <3>1, BringsHas
  <2>5. /\ local'[0] = local[0] /\ ghost'[0] = ghost[0] /\ localSubMenu' = localSubMenu
    BY <1>1, <2>3 DEF ReceiveFromHost
  <2>6. /\ local[0][k] = ghost[0].sent[k]
        /\ \A d \in Client :
              /\ \A y : NewestTo(d, k, y) => y = ghost[0].sent[k]
              /\ localSubMenu = "s_stagesel" =>
                     \/ k \in ghost[d].skipped \cup ghost[d].touched
                     \/ FliesTo(d, k)
                     \/ value[d][k] = local[0][k]
    BY <2>1 DEF SelectionInv
  <2>7. \A y : NewestTo(c, k, y)' => y = ghost[0].sent[k]
    BY <2>2, <2>4, <2>6
  <2>8. ASSUME localSubMenu = "s_stagesel"
        PROVE  \/ k \in ghost'[c].skipped \cup ghost'[c].touched
               \/ FliesTo(c, k)'
               \/ value'[c][k] = local[0][k]
    <3>1. CASE ~Has(x.changes, k)
      BY <2>2, <2>3, <2>4, <2>6, <2>8, <3>1
    <3>2. CASE Has(x.changes, k) /\ ~FliesTo(c, k)' /\ k \notin ghost'[c].skipped
      <4>1. NewestTo(c, k, value'[c][k])
        BY <2>2, <2>3, <3>2
      <4> QED
        BY <2>6, <4>1
    <3> QED
      BY <3>1, <3>2
  <2>9. ASSUME NEW d \in Client
        PROVE  /\ \A y : NewestTo(d, k, y)' => y = ghost'[0].sent[k]
               /\ localSubMenu' = "s_stagesel" =>
                      \/ k \in ghost'[d].skipped \cup ghost'[d].touched
                      \/ FliesTo(d, k)'
                      \/ value'[d][k] = local'[0][k]
    <3>1. CASE d = c
      BY <2>5, <2>7, <2>8, <3>1
    <3>2. CASE d # c
      BY <2>2, <2>3, <2>5, <2>6, <3>2, WatcherFacts
    <3> QED
      BY <3>1, <3>2
  <2>10. SelectionInv(k)'
    BY <2>5, <2>6, <2>9 DEF SelectionInv
  <2> QED
    BY <2>10 DEF k
<1> QED
  BY <1>2, <1>3 DEF AgreeInv

-----------------------------------------------------------------------------
(* The theorems *)

LEMMA AgreeInit == Init => AgreeInv
<1> SUFFICES ASSUME Init PROVE AgreeInv
  OBVIOUS
<1>1. /\ local = [p \in Player |-> [k \in Memory |-> 0]] /\ localSubMenu = "s_battlemode"
      /\ tcp_packet = [p \in Player |-> <<>>]
      /\ toHost = [c \in Client |-> <<>>] /\ toClient = [c \in Client |-> <<>>]
      /\ ghost = [p \in Player |-> [sent |-> [k \in Memory |-> 0], skipped |-> {},
                                    touched |-> {}, stale |-> FALSE]]
      /\ \A p \in Player : \A k \in Memory \ MenuMessage : value[p][k] = 0
  BY DEF Init
<1>2. \A c \in Client : \A k : /\ ~FliesTo(c, k) /\ ~FliesFrom(c, k)
                               /\ \A x : ~NewestTo(c, k, x) /\ ~NewestFrom(c, k, x)
  <2>1. \A c \in Client : \A k : ~FliesTo(c, k) /\ ~FliesFrom(c, k)
    BY <1>1, NothingHas, WatcherFacts DEF FliesTo, FliesFrom, Flies, Host
  <2> QED
    BY <2>1, NewestKnown
<1>3. \A p \in Player, k \in Plain : local[p][k] = 0 /\ ghost[p].sent[k] = 0
  BY <1>1, PlainFacts
<1>4. ASSUME NEW k \in Shared PROVE PairInv(k) /\ WatcherInv(k)
  <2>1. k \in Plain /\ k \in Memory \ MenuMessage
    BY PlainFacts
  <2>2. PairInv(k)
    BY <1>2, <1>3, <2>1, WatcherFacts DEF PairInv, NewestIsSent, Heard
  <2>3. WatcherInv(k)
    BY <1>1, <1>2, <1>3, <2>1, WatcherFacts DEF WatcherInv, Follows, WillHold
  <2> QED
    BY <2>2, <2>3
<1>5. ASSUME "StageSelection2P" \in Message PROVE SelectionInv("StageSelection2P")
  BY <1>1, <1>2, <1>3, <1>5, PlainFacts, WatcherFacts DEF SelectionInv
<1> QED
  BY <1>4, <1>5 DEF AgreeInv

LEMMA AgreeNext == Inv /\ AgreeInv /\ [Next]_vars => AgreeInv'
<1> SUFFICES ASSUME Inv, AgreeInv, [Next]_vars PROVE AgreeInv'
  OBVIOUS
<1>1. ASSUME NEW p \in Player, NEW k \in Memory, NEW v \in Value, Write(p, k, v) PROVE AgreeInv'
  BY <1>1, WriteAgree
<1>2. ASSUME NEW s \in SubMenus, EnterSubMenu(s) PROVE AgreeInv'
  BY <1>2, OtherAgree
<1>3. ASSUME NEW p \in Player, NEW s \in GameState, Move(p, s) PROVE AgreeInv'
  BY <1>3, OtherAgree
<1>4. ASSUME NEW p \in Player, Arrive(p) \/ Pass(p) \/ Finalize(p) PROVE AgreeInv'
  BY <1>4, OtherAgree
<1>5. ASSUME NEW p \in Player, Send(p) PROVE AgreeInv'
  BY <1>5, SendAgree
<1>6. ASSUME NEW c \in Client, ReceiveFromClient(c) PROVE AgreeInv'
  BY <1>6, ReceiveFromClientAgree
<1>7. ASSUME NEW c \in Client, ReceiveFromHost(c) PROVE AgreeInv'
  BY <1>7, ReceiveFromHostAgree
<1>8. CASE UNCHANGED vars
  BY <1>8, OtherAgree
<1> QED
  BY <1>1, <1>2, <1>3, <1>4, <1>5, <1>6, <1>7, <1>8 DEF Next

LEMMA AgreeHolds == Spec => []AgreeInv
BY InvHolds, AgreeInit, AgreeNext, PTL DEF Spec

LEMMA SettledFlies ==
    ASSUME Settled
    PROVE  \A c \in Client : \A k : ~FliesTo(c, k) /\ ~FliesFrom(c, k)
BY NothingHas, WatcherFacts DEF Settled, FliesTo, FliesFrom, Flies, Host

\* When nothing is under way any more, the two players agree on what both of them may
\* change, or each holds the other's last change: there is no third outcome, whatever
\* was changed, skipped and relayed in which order.
THEOREM AgreeOrSwappedHolds == Spec => []AgreeOrSwapped
<1>1. AgreeInv => AgreeOrSwapped
  <2> SUFFICES ASSUME AgreeInv, Settled, NEW k \in Shared, \A p \in Sender : UpToDate(p, k)
               PROVE  \/ value[0][k] = value[1][k]
                      \/ value[0][k] = ghost[1].sent[k] /\ value[1][k] = ghost[0].sent[k]
    BY DEF AgreeOrSwapped
  <2>1. PairInv(k)
    BY DEF AgreeInv
  <2>2. ~FliesTo(1, k) /\ ~FliesFrom(1, k)
    BY SettledFlies, WatcherFacts
  <2>3. /\ value[0][k] = local[0][k] /\ k \notin ghost[0].skipped
        /\ value[1][k] = local[1][k] /\ k \notin ghost[1].skipped
    BY DEF UpToDate, Sender
  <2> QED
    BY <2>1, <2>2, <2>3 DEF PairInv, Heard
<1> QED
  BY <1>1, AgreeHolds, PTL

\* When nothing is under way and the two players agree, those who watch agree with them,
\* however many there are and however the host's own changes and those it relayed were
\* interleaved.
THEOREM WatchersFollowHolds == Spec => []WatchersFollow
<1>1. AgreeInv => WatchersFollow
  <2> SUFFICES ASSUME AgreeInv, Settled, NEW k \in Shared \ {"GameState"},
                      \A p \in Sender : UpToDate(p, k), value[0][k] = value[1][k],
                      NEW p \in Player, k \notin ghost[p].skipped
               PROVE  value[p][k] = value[0][k]
    BY DEF WatchersFollow
  <2>1. /\ value[0][k] = local[0][k] /\ k \notin ghost[0].skipped
        /\ value[1][k] = local[1][k] /\ k \notin ghost[1].skipped
    BY DEF UpToDate, Sender
  <2>2. CASE p = 0 \/ p = 1
    BY <2>2
  <2>3. CASE p \in Watcher
    <3>1. Follows(p, k) /\ value[p][k] = local[p][k]
      BY <2>3 DEF AgreeInv, WatcherInv
    <3>2. ~FliesTo(p, k) /\ ~FliesTo(1, k) /\ ~FliesFrom(1, k)
      BY <2>3, SettledFlies, WatcherFacts
    <3> QED
      BY <2>1, <3>1, <3>2 DEF Follows, WillHold
  <2> QED
    BY <2>2, <2>3 DEF Watcher, Client, Host
<1> QED
  BY <1>1, AgreeHolds, PTL

\* When nothing is under way and the host is in the sub menu, its selection is everybody's,
\* unless their game was elsewhere when it came or has changed it since.
THEOREM SelectionIsShownHolds == Spec => []SelectionIsShown
<1>1. AgreeInv => SelectionIsShown
  <2> DEFINE k == "StageSelection2P"
  <2> SUFFICES ASSUME AgreeInv, Settled, InMenu(value[Host]), ~waiting[Host],
                      subMenu = "s_stagesel", k \in Message, NEW c \in Client,
                      k \notin ghost[c].skipped \cup ghost[c].touched
               PROVE  value[c][k] = value[Host][k]
    BY DEF SelectionIsShown
  <2>1. SelectionInv(k)
    BY DEF AgreeInv
  <2>2. ~FliesTo(c, k)
    BY SettledFlies
  <2>3. k \notin Wanted(Host)
    BY DEF Settled, Sender, Host
  <2>4. ~FirstMenuEntry /\ ~Differs(Host, k)
    BY <2>3 DEF Wanted, WantedInMenu, SystemMessage
  <2>5. localSubMenu = "s_stagesel" /\ local[0][k] = value[0][k]
    BY <2>4 DEF FirstMenuEntry, Differs, Target, Host
  <2> QED
    BY <2>1, <2>2, <2>5 DEF SelectionInv, Host
<1> QED
  BY <1>1, AgreeHolds, PTL
=============================================================================
