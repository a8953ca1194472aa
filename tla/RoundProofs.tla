------------------------------ MODULE RoundProofs ------------------------------
(***************************************************************************)
(* What holds of a round for every way to play it, every threshold and every *)
(* number of datagrams on the way: the packets on the way lead the other   *)
(* machine from what it knows of the player to what the owner had when they *)
(* were sent.                                                              *)
(***************************************************************************)
EXTENDS RoundReadingProofs

-----------------------------------------------------------------------------
(* What a machine knows of the player *)

\* Machine m, and the copy that it is still to write, know the HP v, the action v, or the
\* rings, deaths and items shown of v and powers between those of v.low and v.high.
Follows(what, m, v) ==
    \/ /\ what = "hp"
       /\ m.body.hp = v
       /\ m.write_player => m.mirror.hp = v
    \/ /\ what = "action"
       /\ m.body.action = v
       /\ m.write_player => m.mirror.action = v
    \/ /\ what = "powers"
       /\ m.body.rings = v.rings /\ m.body.deaths = v.deaths /\ m.body.shown = v.shown
       /\ v.low \subseteq m.body.powers /\ m.body.powers \subseteq v.high
       /\ m.write_player => v.low \subseteq m.mirror.powers /\ m.mirror.powers \subseteq v.high

\* A message makes of the knowledge b the knowledge c, a packet of a that of b.
Turns(what, b, msg, c) ==
    \A m : Replica(m) /\ Follows(what, m, b) => Follows(what, Read(m, msg), c)

Leads(what, a, p, b) ==
    \A m : Replica(m) /\ Follows(what, m, a) => Follows(what, ReadAll(m, p), b)

\* Whatever the other machine reads, it stays one that sends no packet and whose
\* switches are reset.
LEMMA ReadReplica ==
    ASSUME NEW m, Replica(m), NEW msg \in AnyMessage
    PROVE  Replica(Read(m, msg))
<1>1. msg.type \in MirroredType \cup HandledType \cup PlainType
  BY EveryType, MessageFields DEF AnyMessage
<1> QED
  BY <1>1, ReadMirrored, ReadHandled, ReadPlain

LEMMA ReadAllReplica ==
    ASSUME NEW m, Replica(m), NEW p \in Seq(AnyMessage)
    PROVE  Replica(ReadAll(m, p))
<1>0. Len(p) \in Nat
  BY LenProperties
<1>1. PICK f : Reading(f, m, p) /\ ReadAll(m, p) = f[Len(p)]
  BY ReadAllIs
<1> DEFINE T == {n \in Nat : n <= Len(p) => Replica(f[n])}
<1>2. 0 \in T
  BY <1>1 DEF Reading
<1>3. ASSUME NEW n \in Nat, n \in T PROVE n + 1 \in T
  <2>1. SUFFICES ASSUME n + 1 <= Len(p) PROVE Replica(f[n + 1])
    OBVIOUS
  <2>2. n + 1 \in 1..Len(p) /\ (n + 1) - 1 = n /\ Replica(f[n])
    BY <1>0, <1>3, <2>1
  <2>3. f[n + 1] = Read(f[n], p[n + 1])
    BY <1>1, <2>2 DEF Reading
  <2>4. p[n + 1] \in AnyMessage
    BY <2>2, ElementOfSeq
  <2> QED
    BY <2>2, <2>3, <2>4, ReadReplica
<1>4. T = Nat
  <2> HIDE DEF T
  <2>1. T \subseteq Nat
    BY DEF T
  <2> QED
    BY <1>2, <1>3, <2>1, SetInduction
<1>5. Len(p) \in T
  <2> HIDE DEF T
  <2> QED
    BY <1>0, <1>4
<1> QED
  BY <1>0, <1>1, <1>5

\* An empty packet leads from a knowledge to itself, a message more leads further.
LEMMA LeadsNothing ==
    ASSUME NEW what, NEW a
    PROVE  Leads(what, a, <<>>, a)
BY ReadNothing DEF Leads

LEMMA LeadsFurther ==
    ASSUME NEW what, NEW a, NEW p \in Seq(AnyMessage), NEW b, Leads(what, a, p, b),
           NEW msg \in AnyMessage, NEW c, Turns(what, b, msg, c)
    PROVE  Leads(what, a, Append(p, msg), c)
<1> SUFFICES ASSUME NEW m, Replica(m), Follows(what, m, a)
             PROVE  Follows(what, ReadAll(m, Append(p, msg)), c)
  BY DEF Leads
<1>1. Replica(ReadAll(m, p)) /\ Follows(what, ReadAll(m, p), b)
  BY ReadAllReplica DEF Leads
<1>2. ReadAll(m, Append(p, msg)) = Read(ReadAll(m, p), msg)
  BY ReadAppended
<1> QED
  BY <1>1, <1>2 DEF Turns

\* Knowledge that every message of some types leaves alone.
LEMMA LeadsNowhere ==
    ASSUME NEW what, NEW v, NEW p \in Seq(AnyMessage),
           \A i \in DOMAIN p : Turns(what, v, p[i], v)
    PROVE  Leads(what, v, p, v)
<1> SUFFICES ASSUME NEW m, Replica(m), Follows(what, m, v)
             PROVE  Follows(what, ReadAll(m, p), v)
  BY DEF Leads
<1>0. Len(p) \in Nat /\ DOMAIN p = 1..Len(p)
  BY LenProperties
<1>1. PICK f : Reading(f, m, p) /\ ReadAll(m, p) = f[Len(p)]
  BY ReadAllIs
<1> DEFINE T == {n \in Nat : n <= Len(p) => Replica(f[n]) /\ Follows(what, f[n], v)}
<1>2. 0 \in T
  BY <1>1 DEF Reading
<1>3. ASSUME NEW n \in Nat, n \in T PROVE n + 1 \in T
  <2>1. SUFFICES ASSUME n + 1 <= Len(p)
                 PROVE  Replica(f[n + 1]) /\ Follows(what, f[n + 1], v)
    OBVIOUS
  <2>2. n + 1 \in 1..Len(p) /\ (n + 1) - 1 = n /\ Replica(f[n]) /\ Follows(what, f[n], v)
    BY <1>0, <1>3, <2>1
  <2>3. f[n + 1] = Read(f[n], p[n + 1])
    BY <1>1, <2>2 DEF Reading
  <2>4. p[n + 1] \in AnyMessage
    BY <2>2, ElementOfSeq
  <2> QED
    BY <1>0, <2>2, <2>3, <2>4, ReadReplica DEF Turns
<1>4. T = Nat
  <2> HIDE DEF T
  <2>1. T \subseteq Nat
    BY DEF T
  <2> QED
    BY <1>2, <1>3, <2>1, SetInduction
<1>5. Len(p) \in T
  <2> HIDE DEF T
  <2> QED
    BY <1>0, <1>4
<1> QED
  BY <1>0, <1>1, <1>5

-----------------------------------------------------------------------------
\* Replica x has read what was sent before stream s, which leads it to the knowledge v.
Chain(what, x, s, v) ==
    \E r : /\ Follows(what, x, r[0])
           /\ \A k \in 1..Len(s) : Leads(what, r[k - 1], s[k], r[k])
           /\ r[Len(s)] = v

\* With nothing under way the other machine knows; once it has read a packet, the
\* others lead it on.
LEMMA ChainSettled ==
    ASSUME NEW what, NEW x, NEW v, Chain(what, x, <<>>, v)
    PROVE  Follows(what, x, v)
<1>1. Len(<<>>) = 0
  OBVIOUS
<1> QED
  BY <1>1 DEF Chain

LEMMA ChainStart ==
    ASSUME NEW what, NEW x, NEW v, Follows(what, x, v)
    PROVE  Chain(what, x, <<>>, v)
<1> DEFINE r == [k \in {0} |-> v]
<1>1. Len(<<>>) = 0 /\ r[0] = v /\ \A k \in 1..Len(<<>>) : Leads(what, r[k - 1], <<>>[k], r[k])
  OBVIOUS
<1> HIDE DEF r
<1> QED
  BY <1>1 DEF Chain

\* What the replica does itself leaves its knowledge alone.
LEMMA ChainStays ==
    ASSUME NEW what, NEW x, NEW s, NEW v, Chain(what, x, s, v),
           NEW y, \A a : Follows(what, x, a) => Follows(what, y, a)
    PROVE  Chain(what, y, s, v)
BY DEF Chain

LEMMA ChainRead ==
    ASSUME NEW what, NEW x, Replica(x), NEW S, NEW s \in Seq(S), s # <<>>,
           NEW v, Chain(what, x, s, v)
    PROVE  Chain(what, ReadAll(x, Head(s)), Tail(s), v)
<1>0. /\ Len(s) \in Nat /\ Len(s) # 0 /\ Head(s) = s[1] /\ Len(Tail(s)) = Len(s) - 1
      /\ \A k \in 1..Len(Tail(s)) : Tail(s)[k] = s[k + 1]
  BY HeadTailProperties, LenProperties, EmptySeq
<1>1. PICK r : /\ Follows(what, x, r[0])
               /\ \A k \in 1..Len(s) : Leads(what, r[k - 1], s[k], r[k])
               /\ r[Len(s)] = v
  BY DEF Chain
<1> DEFINE q == [k \in 0..(Len(s) - 1) |-> r[k + 1]]
<1>2. Follows(what, ReadAll(x, Head(s)), q[0])
  <2>1. 1 \in 1..Len(s) /\ 1 - 1 = 0 /\ q[0] = r[1]
    BY <1>0
  <2>2. Leads(what, r[0], s[1], r[1])
    BY <1>1, <2>1
  <2> QED
    BY <1>0, <1>1, <2>1, <2>2 DEF Leads
<1>3. ASSUME NEW k \in 1..Len(Tail(s)) PROVE Leads(what, q[k - 1], Tail(s)[k], q[k])
  <2>1. k + 1 \in 1..Len(s) /\ (k + 1) - 1 = k /\ q[k - 1] = r[k] /\ q[k] = r[k + 1]
    BY <1>0
  <2> QED
    BY <1>0, <1>1, <2>1
<1>4. q[Len(Tail(s))] = v
  BY <1>0, <1>1
<1> HIDE DEF q
<1> QED
  BY <1>2, <1>3, <1>4 DEF Chain

\* Knowledge that is as good as the last.
LEMMA ChainBetter ==
    ASSUME NEW what, NEW x, Replica(x), NEW S, NEW s \in Seq(S), NEW v, Chain(what, x, s, v),
           \A i \in 1..Len(s) : s[i] \in Seq(AnyMessage),
           NEW w, Leads(what, v, <<>>, w)
    PROVE  Chain(what, x, s, w)
<1>0. Len(s) \in Nat
  BY LenProperties
<1>1. PICK r : /\ Follows(what, x, r[0])
               /\ \A k \in 1..Len(s) : Leads(what, r[k - 1], s[k], r[k])
               /\ r[Len(s)] = v
  BY DEF Chain
<1>2. \A m : Replica(m) /\ Follows(what, m, v) => Follows(what, m, w)
  BY ReadNothing DEF Leads
<1> DEFINE q == [k \in 0..Len(s) |-> IF k = Len(s) THEN w ELSE r[k]]
<1>3. Follows(what, x, q[0])
  BY <1>0, <1>1, <1>2
<1>4. ASSUME NEW k \in 1..Len(s) PROVE Leads(what, q[k - 1], s[k], q[k])
  <2>1. q[k - 1] = r[k - 1] /\ Leads(what, r[k - 1], s[k], r[k])
    BY <1>0, <1>1
  <2>2. CASE k = Len(s)
    <3>1. q[k] = w /\ r[k] = v
      BY <1>0, <1>1, <2>2
    <3>2. ASSUME NEW m, Replica(m), Follows(what, m, r[k - 1])
          PROVE  Follows(what, ReadAll(m, s[k]), w)
      <4>1. Replica(ReadAll(m, s[k]))
        BY <3>2, ReadAllReplica
      <4> QED
        BY <1>2, <2>1, <3>1, <3>2, <4>1 DEF Leads
    <3> HIDE DEF q
    <3> QED
      BY <2>1, <3>1, <3>2 DEF Leads
  <2>3. CASE k # Len(s)
    BY <1>0, <2>1, <2>3
  <2> QED
    BY <2>2, <2>3
<1>5. q[Len(s)] = w
  BY <1>0
<1> HIDE DEF q
<1> QED
  BY <1>3, <1>4, <1>5 DEF Chain

\* Another packet is sent.
LEMMA ChainSent ==
    ASSUME NEW what, NEW x, Replica(x), NEW s \in Seq(Seq(TcpMessage)), NEW v,
           Chain(what, x, s, v),
           NEW p \in Seq(TcpMessage), NEW w, Leads(what, v, p, w)
    PROVE  Chain(what, x, Sent(s, p), w)
<1>1. CASE p = <<>>
  <2>1. \A i \in 1..Len(s) : s[i] \in Seq(AnyMessage)
    <3>1. TcpMessage \subseteq AnyMessage
      BY DEF TcpMessage, AnyMessage, Messages
    <3>2. \A i \in 1..Len(s) : s[i] \in Seq(TcpMessage)
      BY ElementOfSeq
    <3> QED
      BY <3>1, <3>2
  <2> QED
    BY <1>1, <2>1, ChainBetter DEF Sent
<1>2. CASE p # <<>>
  <2> DEFINE t == Append(s, p)
  <2>0. /\ Len(s) \in Nat /\ Len(t) = Len(s) + 1 /\ t[Len(s) + 1] = p
        /\ \A k \in 1..Len(s) : t[k] = s[k]
    BY AppendProperties, LenProperties
  <2> HIDE DEF t
  <2>1. PICK r : /\ Follows(what, x, r[0])
                 /\ \A k \in 1..Len(s) : Leads(what, r[k - 1], s[k], r[k])
                 /\ r[Len(s)] = v
    BY DEF Chain
  <2> DEFINE q == [k \in 0..(Len(s) + 1) |-> IF k = Len(s) + 1 THEN w ELSE r[k]]
  <2>2. Follows(what, x, q[0])
    BY <2>0, <2>1
  <2>3. ASSUME NEW k \in 1..Len(t) PROVE Leads(what, q[k - 1], t[k], q[k])
    <3>1. CASE k = Len(s) + 1
      <4>1. q[k - 1] = v /\ t[k] = p /\ q[k] = w
        BY <2>0, <2>1, <3>1
      <4> HIDE DEF q
      <4> QED
        BY <4>1
    <3>2. CASE k # Len(s) + 1
      <4>1. k \in 1..Len(s) /\ q[k - 1] = r[k - 1] /\ t[k] = s[k] /\ q[k] = r[k]
        BY <2>0, <3>2
      <4> HIDE DEF q
      <4> QED
        BY <2>1, <4>1
    <3> QED
      BY <3>1, <3>2
  <2>4. q[Len(t)] = w
    BY <2>0
  <2> HIDE DEF q
  <2>5. Chain(what, x, t, w)
    BY <2>2, <2>3, <2>4 DEF Chain
  <2> QED
    BY <1>2, <2>5 DEF Sent, t
<1> QED
  BY <1>1, <1>2

-----------------------------------------------------------------------------
(* What each message makes of what a machine knows *)

\* What the other machine knows is in the copy that the next message is compared with.
LEMMA SeenFollows ==
    ASSUME NEW m, Replica(m), NEW v
    PROVE  /\ Follows("hp", m, v) => Seen(m).hp = v
           /\ Follows("action", m, v) => Seen(m).action = v
           /\ Follows("powers", m, v) =>
                  v.low \subseteq Seen(m).powers /\ Seen(m).powers \subseteq v.high
BY DEF Follows, Seen, Copied

LEMMA SeenType ==
    ASSUME NEW m, Replica(m) PROVE Seen(m) \in Mirror /\ m.body \in Body
BY BodyType DEF Seen, Replica

\* Which messages change the HP, and how: P_HP writes both the HP it was told and what
\* was added.
LEMMA HPKept ==
    ASSUME NEW v, NEW msg \in AnyMessage, msg.type # "P_HP"
    PROVE  Turns("hp", v, msg, v)
<1> SUFFICES ASSUME NEW m, Replica(m), Follows("hp", m, v)
             PROVE  Follows("hp", Read(m, msg), v)
  BY DEF Turns
<1> DEFINE n == Read(m, msg)
<1>1. m.body.hp = v /\ Seen(m).hp = v /\ Seen(m) \in Mirror /\ m.body \in Body
  BY SeenFollows, SeenType DEF Follows
<1>2. msg.type \in MirroredType \cup HandledType \cup PlainType
  BY EveryType, MessageFields DEF AnyMessage
<1>3. CASE msg.type \in MirroredType
  <2>1. n.write_player = FALSE /\ n.body = Written(m.body, Taken(Seen(m), msg))
    BY <1>3, ReadMirrored
  <2>2. Taken(Seen(m), msg).hp = v
    <3>1. msg.type \in {"P_Action", "P_Powerups", "P_Position", "P_Motion"}
      BY <1>3 DEF MirroredType
    <3> QED
      BY <1>1, <3>1 DEF Taken, Mirror
  <2>3. n.body.hp = v
    BY <1>1, <2>1, <2>2 DEF Written, Body
  <2> HIDE DEF n
  <2> QED
    BY <2>1, <2>3 DEF Follows, n
<1>4. CASE msg.type \in HandledType
  <2>1. n.mirror = Seen(m) /\ n.body = HandledBody(m.body, msg)
    BY <1>4, ReadHandled
  <2>2. HandledBody(m.body, msg).hp = v
    <3>1. CASE msg.type = "P_Damage"
      BY <1>1, <3>1 DEF HandledBody, Item, Barriers, Wounded, Dead, Body
    <3>2. CASE msg.type # "P_Damage"
      BY <1>1, <1>4, <3>2 DEF HandledBody, HandledType, Item, Barriers, Dead, Body
    <3> QED
      BY <3>1, <3>2
  <2> HIDE DEF n
  <2> QED
    BY <1>1, <2>1, <2>2 DEF Follows, n
<1>5. CASE msg.type \in PlainType
  BY <1>1, <1>5, ReadPlain DEF Follows
<1> QED
  BY <1>2, <1>3, <1>4, <1>5

LEMMA HPTold ==
    ASSUME NEW u, NEW d \in Int \X Int
    PROVE  Turns("hp", u, Message("P_HP", d), d[1] + d[2])
<1> DEFINE msg == Message("P_HP", d)
           v == d[1] + d[2]
<1>0. msg.type = "P_HP" /\ msg.data = d /\ msg \in AnyMessage
  <2>1. d \in Content("P_HP") /\ "P_HP" \in TcpType \cup UdpType
    BY ContentOf DEF TcpType
  <2> QED
    BY <2>1, MessageType DEF AnyMessage
<1> HIDE DEF msg
<1> SUFFICES ASSUME NEW m, Replica(m)
             PROVE  Follows("hp", Read(m, msg), v)
  BY DEF Turns, msg
<1> DEFINE n == Read(m, msg)
<1>1. Seen(m) \in Mirror /\ m.body \in Body
  BY SeenType
<1>2. n.write_player = FALSE /\ n.body = Written(m.body, Taken(Seen(m), msg))
  BY <1>0, ReadMirrored DEF MirroredType
<1>3. Taken(Seen(m), msg).hp = v
  BY <1>0, <1>1 DEF Taken, Mirror
<1>4. n.body.hp = v
  BY <1>1, <1>2, <1>3 DEF Written, Body
<1> HIDE DEF n, v
<1> QED
  BY <1>2, <1>4 DEF Follows, n, v

\* Which messages leave the action as it is known.
LEMMA ActionKept ==
    ASSUME NEW v, NEW msg \in AnyMessage,
           \/ msg.type \notin {"P_Action", "P_Damage", "P_Kill"}
           \/ msg.type = "P_Kill" /\ v = "dead"
    PROVE  Turns("action", v, msg, v)
<1> SUFFICES ASSUME NEW m, Replica(m), Follows("action", m, v)
             PROVE  Follows("action", Read(m, msg), v)
  BY DEF Turns
<1> DEFINE n == Read(m, msg)
<1>1. m.body.action = v /\ Seen(m).action = v /\ Seen(m) \in Mirror /\ m.body \in Body
  BY SeenFollows, SeenType DEF Follows
<1>2. msg.type \in MirroredType \cup HandledType \cup PlainType
  BY EveryType, MessageFields DEF AnyMessage
<1>3. CASE msg.type \in MirroredType
  <2>1. n.write_player = FALSE /\ n.body = Written(m.body, Taken(Seen(m), msg))
    BY <1>3, ReadMirrored
  <2>2. Taken(Seen(m), msg).action = v
    <3>1. msg.type \in {"P_HP", "P_Powerups", "P_Position", "P_Motion"}
      BY <1>3 DEF MirroredType
    <3> QED
      BY <1>1, <3>1 DEF Taken, Mirror
  <2>3. n.body.action = v
    BY <1>1, <2>1, <2>2 DEF Written, Body
  <2> HIDE DEF n
  <2> QED
    BY <2>1, <2>3 DEF Follows, n
<1>4. CASE msg.type \in HandledType
  <2>1. n.mirror = Seen(m) /\ n.body = HandledBody(m.body, msg)
    BY <1>4, ReadHandled
  <2>2. HandledBody(m.body, msg).action = v
    BY <1>1, <1>4 DEF HandledBody, HandledType, Item, Barriers, Dead, Body
  <2> HIDE DEF n
  <2> QED
    BY <1>1, <2>1, <2>2 DEF Follows, n
<1>5. CASE msg.type \in PlainType
  BY <1>1, <1>5, ReadPlain DEF Follows
<1> QED
  BY <1>2, <1>3, <1>4, <1>5

\* P_Action makes good whatever the packet did before.
LEMMA ActionTold ==
    ASSUME NEW a, NEW p \in Seq(AnyMessage), NEW d \in Action
    PROVE  Leads("action", a, Append(p, Message("P_Action", d)), d)
<1> DEFINE msg == Message("P_Action", d)
<1>0. msg.type = "P_Action" /\ msg.data = d /\ msg \in AnyMessage
  <2>1. d \in Content("P_Action") /\ "P_Action" \in TcpType \cup UdpType
    BY ContentOf DEF TcpType
  <2> QED
    BY <2>1, MessageType DEF AnyMessage
<1> HIDE DEF msg
<1> SUFFICES ASSUME NEW k, Replica(k)
             PROVE  Follows("action", ReadAll(k, Append(p, msg)), d)
  BY DEF Leads, msg
<1> DEFINE m == ReadAll(k, p)
           n == Read(m, msg)
<1>1. Replica(m) /\ ReadAll(k, Append(p, msg)) = n
  BY <1>0, ReadAllReplica, ReadAppended
<1> HIDE DEF m
<1>2. Seen(m) \in Mirror /\ m.body \in Body
  BY <1>1, SeenType
<1>3. n.write_player = FALSE /\ n.body = Written(m.body, Taken(Seen(m), msg))
  BY <1>0, <1>1, ReadMirrored DEF MirroredType
<1>4. Taken(Seen(m), msg).action = d
  BY <1>0, <1>2 DEF Taken, Mirror
<1>5. n.body.action = d
  BY <1>2, <1>3, <1>4 DEF Written, Body
<1> HIDE DEF n
<1> QED
  BY <1>1, <1>3, <1>5 DEF Follows

-----------------------------------------------------------------------------
(* Powers, rings, deaths and the items shown *)

View == [low : SUBSET Item, high : SUBSET Item, rings : Nat, deaths : Nat,
         shown : Seq({1, 2})]

\* A message of a type that is sent.
LEMMA MessageIs ==
    ASSUME NEW t \in TcpType \cup UdpType, NEW d \in Content(t)
    PROVE  Message(t, d) \in AnyMessage /\ Message(t, d).type = t /\ Message(t, d).data = d
BY MessageType DEF AnyMessage

\* Which messages leave the powers known, and what the others make of them.
LEMMA PowersKept ==
    ASSUME NEW v, NEW msg \in AnyMessage, msg.type \notin HandledType, msg.type # "P_Powerups"
    PROVE  Turns("powers", v, msg, v)
<1> SUFFICES ASSUME NEW m, Replica(m), Follows("powers", m, v)
             PROVE  Follows("powers", Read(m, msg), v)
  BY DEF Turns
<1> DEFINE n == Read(m, msg)
           c == Taken(Seen(m), msg)
<1>1. /\ v.low \subseteq Seen(m).powers /\ Seen(m).powers \subseteq v.high
      /\ Seen(m) \in Mirror /\ m.body \in Body
  BY SeenFollows, SeenType
<1>2. msg.type \in MirroredType \cup PlainType
  BY EveryType, MessageFields DEF AnyMessage
<1>3. CASE msg.type \in MirroredType
  <2>1. n.write_player = FALSE /\ n.body = Written(m.body, c)
    BY <1>3, ReadMirrored
  <2>2. c.powers = Seen(m).powers
    <3>1. msg.type \in {"P_HP", "P_Action", "P_Position", "P_Motion"}
      BY <1>3 DEF MirroredType
    <3> QED
      BY <1>1, <3>1 DEF Taken, Mirror
  <2> HIDE DEF c
  <2>3. /\ n.body.powers = Seen(m).powers /\ n.body.rings = m.body.rings
        /\ n.body.deaths = m.body.deaths /\ n.body.shown = m.body.shown
    BY <1>1, <2>1, <2>2 DEF Written, Body
  <2> HIDE DEF n
  <2> QED
    BY <1>1, <2>1, <2>3 DEF Follows, n
<1>4. CASE msg.type \in PlainType
  BY <1>4, ReadPlain DEF Follows
<1> QED
  BY <1>2, <1>3, <1>4

LEMMA PowersTold ==
    ASSUME NEW v \in View, NEW d \in SUBSET Item
    PROVE  Turns("powers", v, Message("P_Powerups", d), [v EXCEPT !.low = d, !.high = d])
<1> DEFINE msg == Message("P_Powerups", d)
<1>0. msg.type = "P_Powerups" /\ msg.data = d /\ msg \in AnyMessage
  <2>1. d \in Content("P_Powerups") /\ "P_Powerups" \in TcpType \cup UdpType
    BY ContentOf DEF TcpType
  <2> QED
    BY <2>1, MessageIs
<1> HIDE DEF msg
<1> SUFFICES ASSUME NEW m, Replica(m), Follows("powers", m, v)
             PROVE  Follows("powers", Read(m, msg), [v EXCEPT !.low = d, !.high = d])
  BY DEF Turns, msg
<1> DEFINE n == Read(m, msg)
           c == Taken(Seen(m), msg)
<1>1. Seen(m) \in Mirror /\ m.body \in Body
  BY SeenType
<1>2. n.write_player = FALSE /\ n.body = Written(m.body, c)
  BY <1>0, ReadMirrored DEF MirroredType
<1>3. c.powers = d
  BY <1>0, <1>1 DEF Taken, Mirror
<1> HIDE DEF c
<1>4. /\ n.body.powers = d /\ n.body.rings = m.body.rings
      /\ n.body.deaths = m.body.deaths /\ n.body.shown = m.body.shown
  BY <1>1, <1>2, <1>3 DEF Written, Body
<1> HIDE DEF n
<1>5. Follows("powers", n, [v EXCEPT !.low = d, !.high = d])
  BY <1>2, <1>4 DEF Follows, View
<1> QED
  BY <1>5 DEF n

\* What a message of a hook makes of the view v, when it does not come of a hit.
ViewAfter(v, msg) ==
    CASE msg.type = "S_Rings" -> [v EXCEPT !.rings = msg.data[1] + msg.data[2]]
      [] msg.type = "P_Kill" -> [v EXCEPT !.deaths = @ + 1]
      [] msg.type \in Item -> [v EXCEPT !.low = @ \cup {msg.type}, !.high = @ \cup {msg.type}]
      [] msg.type = "S_ItemBoxItem" -> [v EXCEPT !.shown = Append(@, msg.data)]

LEMMA EventTold ==
    ASSUME NEW v \in View, NEW msg \in AnyMessage, msg.type \in HandledType \ {"P_Damage"}
    PROVE  Turns("powers", v, msg, ViewAfter(v, msg))
<1> SUFFICES ASSUME NEW m, Replica(m), Follows("powers", m, v)
             PROVE  Follows("powers", Read(m, msg), ViewAfter(v, msg))
  BY DEF Turns
<1> DEFINE n == Read(m, msg)
           w == ViewAfter(v, msg)
<1>1. /\ v.low \subseteq Seen(m).powers /\ Seen(m).powers \subseteq v.high
      /\ Seen(m) \in Mirror /\ m.body \in Body
      /\ v.low \subseteq m.body.powers /\ m.body.powers \subseteq v.high
      /\ v.rings = m.body.rings /\ v.deaths = m.body.deaths /\ v.shown = m.body.shown
  BY SeenFollows, SeenType DEF Follows
<1>2. /\ n.mirror = Seen(m) /\ n.body = HandledBody(m.body, msg)
      /\ n.write_player = (msg.type \in {"P_Damage", "P_Kill"})
  BY ReadHandled
<1> HIDE DEF n
<1>3. CASE msg.type = "S_Rings"
  <2>1. n.body = [m.body EXCEPT !.rings = msg.data[1] + msg.data[2]]
    BY <1>2, <1>3 DEF HandledBody, Item, Barriers
  <2>2. w = [v EXCEPT !.rings = msg.data[1] + msg.data[2]]
    BY <1>3 DEF ViewAfter, Item, Barriers
  <2>3. ~n.write_player
    BY <1>2, <1>3
  <2> HIDE DEF w
  <2> QED
    BY <1>1, <2>1, <2>2, <2>3 DEF Follows, View, Body, n, w
<1>4. CASE msg.type = "P_Kill"
  <2>1. n.body = Dead(m.body)
    BY <1>2, <1>4 DEF HandledBody, Item, Barriers
  <2>2. w = [v EXCEPT !.deaths = @ + 1]
    BY <1>4 DEF ViewAfter, Item, Barriers
  <2> HIDE DEF w
  <2> QED
    BY <1>1, <1>2, <2>1, <2>2 DEF Follows, View, Body, Dead, n, w
<1>5. CASE msg.type \in Item
  <2>1. n.body = [m.body EXCEPT !.powers = @ \cup {msg.type}]
    BY <1>2, <1>5 DEF HandledBody, Item, Barriers
  <2>2. w = [v EXCEPT !.low = @ \cup {msg.type}, !.high = @ \cup {msg.type}]
    BY <1>5 DEF ViewAfter, Item, Barriers
  <2>3. ~n.write_player
    BY <1>2, <1>5 DEF Item, Barriers
  <2> HIDE DEF w
  <2> QED
    BY <1>1, <2>1, <2>2, <2>3 DEF Follows, View, Body, n, w
<1>6. CASE msg.type = "S_ItemBoxItem"
  <2>1. n.body = [m.body EXCEPT !.shown = Append(@, msg.data)]
    BY <1>2, <1>6 DEF HandledBody, Item, Barriers
  <2>2. w = [v EXCEPT !.shown = Append(@, msg.data)]
    BY <1>6 DEF ViewAfter, Item, Barriers
  <2>3. ~n.write_player
    BY <1>2, <1>6
  <2> HIDE DEF w
  <2> QED
    BY <1>1, <2>1, <2>2, <2>3 DEF Follows, View, Body, n, w
<1> QED
  BY <1>3, <1>4, <1>5, <1>6 DEF HandledType

\* A hit comes upon a player whose powers are known, and who is not invincible: it may
\* leave the copy with the barriers.
ViewHit(v) ==
    IF v.low \cap Barriers # {} THEN [v EXCEPT !.low = @ \ Barriers]
    ELSE IF v.rings > 0 THEN [v EXCEPT !.rings = 0]
    ELSE [v EXCEPT !.deaths = @ + 1]

\* A hit comes upon a player whose powers are known, and takes the barriers, the rings or
\* a life, on both machines.
LEMMA HitTold ==
    ASSUME NEW v \in View, v.low = v.high, "S_Invincibility" \notin v.low
    PROVE  Turns("powers", v, Message("P_Damage", <<>>), ViewHit(v))
<1> DEFINE msg == Message("P_Damage", <<>>)
<1>0. msg.type = "P_Damage" /\ msg \in AnyMessage
  <2>1. <<>> \in Content("P_Damage") /\ "P_Damage" \in TcpType \cup UdpType
    BY ContentOf DEF TcpType
  <2> QED
    BY <2>1, MessageIs
<1> HIDE DEF msg
<1> SUFFICES ASSUME NEW m, Replica(m), Follows("powers", m, v)
             PROVE  Follows("powers", Read(m, msg), ViewHit(v))
  BY DEF Turns, msg
<1> DEFINE n == Read(m, msg)
           w == ViewHit(v)
<1>1. /\ v.low = Seen(m).powers /\ v.low = m.body.powers
      /\ Seen(m) \in Mirror /\ m.body \in Body
      /\ v.rings = m.body.rings /\ v.deaths = m.body.deaths /\ v.shown = m.body.shown
  <2>1. /\ v.low \subseteq Seen(m).powers /\ Seen(m).powers \subseteq v.high
        /\ Seen(m) \in Mirror /\ m.body \in Body
    BY SeenFollows, SeenType
  <2>2. /\ v.low \subseteq m.body.powers /\ m.body.powers \subseteq v.high
        /\ v.rings = m.body.rings /\ v.deaths = m.body.deaths /\ v.shown = m.body.shown
    BY DEF Follows
  <2> QED
    BY <2>1, <2>2
<1>2. n.mirror = Seen(m) /\ n.body = Wounded(m.body)
  <2>1. n.mirror = Seen(m) /\ n.body = HandledBody(m.body, msg)
    BY <1>0, ReadHandled DEF HandledType
  <2> QED
    BY <1>0, <1>1, <2>1 DEF HandledBody, Item, Barriers
<1> HIDE DEF n
<1>3. CASE v.low \cap Barriers # {}
  <2>1. n.body = [m.body EXCEPT !.powers = @ \ Barriers, !.action = "hurt"]
    BY <1>1, <1>2, <1>3 DEF Wounded
  <2>2. w = [v EXCEPT !.low = @ \ Barriers]
    BY <1>3 DEF ViewHit
  <2> HIDE DEF w
  <2>3. /\ n.body.powers = v.low \ Barriers /\ n.body.rings = v.rings
        /\ n.body.deaths = v.deaths /\ n.body.shown = v.shown
    BY <1>1, <2>1 DEF Body
  <2>4. /\ w.low = v.low \ Barriers /\ w.high = v.low /\ w.rings = v.rings
        /\ w.deaths = v.deaths /\ w.shown = v.shown
    BY <2>2 DEF View
  <2>5. Follows("powers", n, w)
    BY <1>1, <1>2, <2>3, <2>4 DEF Follows
  <2> QED
    BY <2>5 DEF n, w
<1>4. CASE v.low \cap Barriers = {} /\ v.rings > 0
  <2>1. n.body = [m.body EXCEPT !.action = "hurt", !.rings = 0]
    BY <1>1, <1>2, <1>4 DEF Wounded
  <2>2. w = [v EXCEPT !.rings = 0]
    BY <1>4 DEF ViewHit
  <2> HIDE DEF w
  <2>3. /\ n.body.powers = v.low /\ n.body.rings = 0
        /\ n.body.deaths = v.deaths /\ n.body.shown = v.shown
    BY <1>1, <2>1 DEF Body
  <2>4. /\ w.low = v.low /\ w.high = v.low /\ w.rings = 0
        /\ w.deaths = v.deaths /\ w.shown = v.shown
    BY <2>2 DEF View
  <2>5. Follows("powers", n, w)
    BY <1>1, <1>2, <2>3, <2>4 DEF Follows
  <2> QED
    BY <2>5 DEF n, w
<1>5. CASE v.low \cap Barriers = {} /\ ~(v.rings > 0)
  <2>1. n.body = Dead(m.body)
    BY <1>1, <1>2, <1>5 DEF Wounded
  <2>2. w = [v EXCEPT !.deaths = @ + 1]
    BY <1>5 DEF ViewHit
  <2> HIDE DEF w
  <2>3. /\ n.body.powers = v.low /\ n.body.rings = v.rings
        /\ n.body.deaths = v.deaths + 1 /\ n.body.shown = v.shown
    BY <1>1, <2>1 DEF Body, Dead
  <2>4. /\ w.low = v.low /\ w.high = v.low /\ w.rings = v.rings
        /\ w.deaths = v.deaths + 1 /\ w.shown = v.shown
    BY <2>2 DEF View
  <2>5. Follows("powers", n, w)
    BY <1>1, <1>2, <2>3, <2>4 DEF Follows
  <2> QED
    BY <2>5 DEF n, w
<1> QED
  BY <1>3, <1>4, <1>5

\* Knowing less of the powers.
LEMMA LeadsWeaker ==
    ASSUME NEW a, NEW p, NEW b, NEW c, Leads("powers", a, p, b),
           b.rings = c.rings, b.deaths = c.deaths, b.shown = c.shown,
           c.low \subseteq b.low, b.high \subseteq c.high
    PROVE  Leads("powers", a, p, c)
BY DEF Leads, Follows

-----------------------------------------------------------------------------
(* The inductive invariant *)

\* What the hooks and the end of a round tell: all that a packet holds between two frames.
HookType == {"S_Rings", "P_HP", "P_Damage", "P_Kill", "S_ItemBoxItem", "S_Win"} \cup Item

TypeInv ==
    /\ machine \in [{Owner, Other} -> Machine]
    /\ Player(owner) /\ Replica(other)
    /\ owner.tcp_packet \in Seq(Messages(HookType))
    /\ due \subseteq Timer
    /\ stream \in Seq(Seq(TcpMessage))
    /\ datagrams \in Seq(Seq(UdpMessage)) /\ Len(datagrams) <= MaxDatagrams
    /\ left \in Nat
    /\ mixed \subseteq {"powers", "action"}

\* A hit or a death that is not told yet shows in the owner o.
PacketInv(o) ==
    /\ HoldsType(o.tcp_packet, "P_Damage") => o.body.action \in {"hurt", "dead"}
    /\ HoldsType(o.tcp_packet, "P_Kill") => o.body.action = "dead"

\* The packets under way lead the other machine x to the HP of owner o.
HPInv(o, x, s) ==
    \E v : Chain("hp", x, s, v) /\ Leads("hp", v, o.tcp_packet, o.body.hp)

\* The packets that were sent lead x to the action the owner had then; a hit that is not
\* told yet will have P_Action follow it.
ActionInv(o, x, s, changed) ==
    "action" \notin changed =>
        /\ HoldsType(o.tcp_packet, "P_Damage") => o.mirror.action \notin {"hurt", "dead"}
        /\ Chain("action", x, s, o.mirror.action)

\* The items that the packet of the frame gives.
Given(p) == {item \in Item : HoldsType(p, item)}

\* What the packet of the frame makes known of the owner: of the powers, those that the
\* owner has and what is given, and nothing but what the owner has or had.
Present(o) ==
    [low |-> o.body.powers \cup Given(o.tcp_packet), high |-> o.body.powers \cup o.mirror.powers,
     rings |-> o.body.rings, deaths |-> o.body.deaths, shown |-> o.body.shown]

PowersInv(o, x, s, changed) ==
    "powers" \notin changed =>
        \E v \in View : /\ v.low = o.mirror.powers /\ v.high = o.mirror.powers
                        /\ Chain("powers", x, s, v)
                        /\ Leads("powers", v, o.tcp_packet, Present(o))

EventInv(o, x, s, changed) ==
    /\ PacketInv(o)
    /\ HPInv(o, x, s)
    /\ ActionInv(o, x, s, changed)
    /\ PowersInv(o, x, s, changed)

Inv == TypeInv /\ EventInv(owner, other, stream, mixed)

-----------------------------------------------------------------------------
(* Types *)

\* Packets of fewer types are packets of more types.
LEMMA TypesWithin ==
    ASSUME NEW S, NEW T, S \subseteq T
    PROVE  Messages(S) \subseteq Messages(T) /\ Seq(Messages(S)) \subseteq Seq(Messages(T))
<1>1. Messages(S) \subseteq Messages(T)
  BY DEF Messages
<1> QED
  BY <1>1

LEMMA HookTypes ==
    /\ HookType \subseteq TcpType /\ TcpType \subseteq TcpType \cup UdpType
    /\ UdpType \subseteq TcpType \cup UdpType
BY DEF HookType, TcpType, Item

LEMMA PacketTypes ==
    /\ Seq(Messages(HookType)) \subseteq Seq(TcpMessage)
    /\ Seq(TcpMessage) \subseteq Seq(AnyMessage)
    /\ Seq(UdpMessage) \subseteq Seq(AnyMessage)
    /\ TcpMessage \subseteq AnyMessage /\ UdpMessage \subseteq AnyMessage
    /\ Messages(HookType) \subseteq TcpMessage
BY HookTypes, TypesWithin DEF TcpMessage, UdpMessage, AnyMessage

\* What an invariant needs to know of the owner's machine.
Owned(o) == Player(o) /\ o.tcp_packet \in Seq(Messages(HookType))

\* The parts of the owner that the invariant is about.
LEMMA OwnedTypes ==
    ASSUME NEW o, Owned(o)
    PROVE  /\ o.body \in Body /\ o.mirror \in Mirror /\ o.tcp_packet \in Seq(AnyMessage)
           /\ o.tcp_packet \in Seq(TcpMessage)
BY BodyType, PacketTypes DEF Owned, Player

\* o2 is the owner after something of type t has been told, once or perhaps not again.
LEMMA TellingOwned ==
    ASSUME NEW o, Owned(o), NEW o2, NEW t \in HookType, NEW d \in Content(t),
           NEW dupes \in BOOLEAN, NEW b, Telling(o, o2, t, d, dupes, b)
    PROVE  /\ Owned(o2) /\ o2.body = b /\ o2.mirror = o.mirror
           /\ Message(t, d) \in AnyMessage /\ Message(t, d).type = t /\ Message(t, d).data = d
           /\ o2.tcp_packet \in {o.tcp_packet, Append(o.tcp_packet, Message(t, d))}
           /\ dupes \/ ~HoldsType(o.tcp_packet, t) =>
                  o2.tcp_packet = Append(o.tcp_packet, Message(t, d))
           /\ \A u : HoldsType(o2.tcp_packet, u) =>
                         HoldsType(o.tcp_packet, u) \/ u = t
<1> DEFINE msg == Message(t, d)
<1>1. msg \in Messages(HookType) /\ msg \in AnyMessage /\ msg.type = t /\ msg.data = d
  BY MessageType, PacketTypes
<1> HIDE DEF msg
<1>2. /\ o2.tcp_packet = Appended(o.tcp_packet, msg, dupes) /\ Player(o2)
      /\ o2.body = b /\ o2.mirror = o.mirror /\ o.tcp_packet \in Seq(Messages(HookType))
  BY DEF Telling, Owned, msg
<1>3. /\ o2.tcp_packet \in Seq(Messages(HookType))
      /\ o2.tcp_packet \in {o.tcp_packet, Append(o.tcp_packet, msg)}
      /\ dupes => o2.tcp_packet = Append(o.tcp_packet, msg)
      /\ ~HoldsType(o.tcp_packet, msg.type) => o2.tcp_packet = Append(o.tcp_packet, msg)
  <2> DEFINE appended == Appended(o.tcp_packet, msg, dupes)
  <2>1. /\ appended \in Seq(Messages(HookType))
        /\ appended \in {o.tcp_packet, Append(o.tcp_packet, msg)}
        /\ dupes => appended = Append(o.tcp_packet, msg)
        /\ ~HoldsType(o.tcp_packet, msg.type) => appended = Append(o.tcp_packet, msg)
    BY <1>1, <1>2, AppendedType, Zenon
  <2> HIDE DEF appended
  <2> QED
    BY <1>2, <2>1, Zenon DEF appended
<1>4. ASSUME NEW u, HoldsType(Append(o.tcp_packet, msg), u)
      PROVE  HoldsType(o.tcp_packet, u) \/ u = t
  <2> DEFINE messages == Messages(HookType)
  <2>1. o.tcp_packet \in Seq(messages) /\ msg \in messages
    BY <1>1, <1>2
  <2> HIDE DEF messages
  <2>2. HoldsType(o.tcp_packet, u) \/ msg.type = u
    BY <1>4, <2>1, HoldsAppend
  <2> QED
    BY <1>1, <2>2
<1> QED
  BY <1>1, <1>2, <1>3, <1>4 DEF Owned, msg

-----------------------------------------------------------------------------
(* What the owner tells, and the invariant *)

\* Nothing of the HP, of the action, of the powers is touched.
LEMMA HPUntouched ==
    ASSUME NEW o, Owned(o), NEW x, NEW s, HPInv(o, x, s),
           NEW o2, o2.body.hp = o.body.hp, NEW msg \in AnyMessage, msg.type # "P_HP",
           o2.tcp_packet \in {o.tcp_packet, Append(o.tcp_packet, msg)}
    PROVE  HPInv(o2, x, s)
<1>1. PICK v : Chain("hp", x, s, v) /\ Leads("hp", v, o.tcp_packet, o.body.hp)
  BY DEF HPInv
<1>2. Leads("hp", v, Append(o.tcp_packet, msg), o.body.hp)
  BY <1>1, OwnedTypes, HPKept, LeadsFurther
<1> QED
  BY <1>1, <1>2 DEF HPInv

\* The HP changes: P_HP tells of it, and leads the other machine on.
LEMMA HPChanged ==
    ASSUME NEW o, Owned(o), NEW x, NEW s, HPInv(o, x, s),
           NEW o2, NEW k \in Int, o2.body.hp = o.body.hp + k,
           o2.tcp_packet = Append(o.tcp_packet, Message("P_HP", <<o.body.hp, k>>))
    PROVE  HPInv(o2, x, s)
<1>1. PICK v : Chain("hp", x, s, v) /\ Leads("hp", v, o.tcp_packet, o.body.hp)
  BY DEF HPInv
<1> DEFINE d == <<o.body.hp, k>>
<1>2. d \in Int \X Int /\ d[1] = o.body.hp /\ d[2] = k
  BY OwnedTypes DEF Body
<1> HIDE DEF d
<1>3. Turns("hp", o.body.hp, Message("P_HP", d), d[1] + d[2])
  BY <1>2, HPTold
<1>4. Message("P_HP", d) \in AnyMessage
  <2>1. d \in Content("P_HP") /\ "P_HP" \in TcpType \cup UdpType
    BY <1>2, ContentOf DEF TcpType
  <2> QED
    BY <2>1, MessageIs
<1>5. Leads("hp", v, Append(o.tcp_packet, Message("P_HP", d)), d[1] + d[2])
  BY <1>1, <1>3, <1>4, OwnedTypes, LeadsFurther
<1> QED
  BY <1>1, <1>2, <1>5 DEF HPInv, d

\* Nothing is told of the action, or the exception for a hit in the same frame allows
\* it.
LEMMA ActionUntouched ==
    ASSUME NEW o, NEW x, NEW s, NEW changed, NEW changed2, ActionInv(o, x, s, changed),
           changed \subseteq changed2, NEW o2, o2.mirror = o.mirror,
           HoldsType(o2.tcp_packet, "P_Damage") /\ "action" \notin changed2 =>
               HoldsType(o.tcp_packet, "P_Damage") \/ o.mirror.action \notin {"hurt", "dead"}
    PROVE  ActionInv(o2, x, s, changed2)
BY DEF ActionInv

\* What is told is what happens to the view of the powers.
LEMMA PowersStep ==
    ASSUME NEW o, Owned(o), NEW x, NEW s, NEW changed, NEW changed2,
           PowersInv(o, x, s, changed), changed \subseteq changed2,
           NEW o2, o2.mirror = o.mirror, NEW msg \in AnyMessage,
           NEW w, Turns("powers", Present(o), msg, w),
           o2.tcp_packet = Append(o.tcp_packet, msg),
           w.rings = Present(o2).rings, w.deaths = Present(o2).deaths,
           w.shown = Present(o2).shown,
           Present(o2).low \subseteq w.low, w.high \subseteq Present(o2).high
    PROVE  PowersInv(o2, x, s, changed2)
<1> SUFFICES ASSUME "powers" \notin changed2
             PROVE  \E v \in View : /\ v.low = o2.mirror.powers /\ v.high = o2.mirror.powers
                                    /\ Chain("powers", x, s, v)
                                    /\ Leads("powers", v, o2.tcp_packet, Present(o2))
  BY DEF PowersInv
<1>1. PICK v \in View : /\ v.low = o.mirror.powers /\ v.high = o.mirror.powers
                        /\ Chain("powers", x, s, v)
                        /\ Leads("powers", v, o.tcp_packet, Present(o))
  BY DEF PowersInv
<1>2. Leads("powers", v, o2.tcp_packet, w)
  BY <1>1, OwnedTypes, LeadsFurther
<1>3. Leads("powers", v, o2.tcp_packet, Present(o2))
  <2> DEFINE q == Present(o2)
  <2> HIDE DEF q
  <2>1. Leads("powers", v, o2.tcp_packet, q)
    BY <1>2, LeadsWeaker DEF q
  <2> QED
    BY <2>1 DEF q
<1> QED
  BY <1>1, <1>3

\* Nothing is told of the powers, or the exception for a hit in the same frame allows
\* it.
LEMMA PowersUntouched ==
    ASSUME NEW o, NEW x, NEW s, NEW changed, NEW changed2,
           PowersInv(o, x, s, changed), changed \subseteq changed2,
           NEW o2, o2.mirror = o.mirror, o2.tcp_packet = o.tcp_packet,
           Present(o).rings = Present(o2).rings, Present(o).deaths = Present(o2).deaths,
           Present(o).shown = Present(o2).shown,
           \/ /\ Present(o2).low \subseteq Present(o).low
              /\ Present(o).high \subseteq Present(o2).high
           \/ "powers" \in changed2
    PROVE  PowersInv(o2, x, s, changed2)
<1> SUFFICES ASSUME "powers" \notin changed2
             PROVE  \E v \in View : /\ v.low = o2.mirror.powers /\ v.high = o2.mirror.powers
                                    /\ Chain("powers", x, s, v)
                                    /\ Leads("powers", v, o2.tcp_packet, Present(o2))
  BY DEF PowersInv
<1>1. PICK v \in View : /\ v.low = o.mirror.powers /\ v.high = o.mirror.powers
                        /\ Chain("powers", x, s, v)
                        /\ Leads("powers", v, o.tcp_packet, Present(o))
  BY DEF PowersInv
<1>2. Leads("powers", v, o2.tcp_packet, Present(o2))
  <2> DEFINE q == Present(o2)
             p == Present(o)
  <2> HIDE DEF q, p
  <2>1. Leads("powers", v, o2.tcp_packet, q)
    BY <1>1, LeadsWeaker DEF q, p
  <2> QED
    BY <2>1 DEF q
<1> QED
  BY <1>1, <1>2

-----------------------------------------------------------------------------
(* What happens to the owner *)

\* The items that a packet gives, with one more.
LEMMA GivenAppend ==
    ASSUME NEW p \in Seq(AnyMessage), NEW msg \in AnyMessage
    PROVE  Given(Append(p, msg)) = Given(p) \cup ({msg.type} \cap Item)
BY HoldsAppend DEF Given

\* An owner whose powers no hit has mixed up is presented in types.
LEMMA PresentType ==
    ASSUME NEW o, Owned(o)
    PROVE  /\ Present(o) \in View
           /\ Present(o).low = o.body.powers \cup Given(o.tcp_packet)
           /\ Present(o).high = o.body.powers \cup o.mirror.powers
           /\ Present(o).rings = o.body.rings /\ Present(o).deaths = o.body.deaths
           /\ Present(o).shown = o.body.shown
<1>1. o.body \in Body /\ o.mirror \in Mirror /\ Given(o.tcp_packet) \subseteq Item
  BY OwnedTypes DEF Given
<1>2. /\ o.body.powers \subseteq Item /\ o.mirror.powers \subseteq Item
      /\ o.body.rings \in Nat /\ o.body.deaths \in Nat /\ o.body.shown \in Seq({1, 2})
  BY <1>1 DEF Body, Mirror
<1> QED
  BY <1>1, <1>2 DEF Present, View

\* o2 is the owner after something of type t has been told and has made b of the body.
Tells(o, o2, t, d, b) ==
    /\ Owned(o2) /\ o2.body = b /\ o2.mirror = o.mirror
    /\ o2.tcp_packet = Append(o.tcp_packet, Message(t, d))
    /\ Message(t, d) \in AnyMessage /\ Message(t, d).type = t /\ Message(t, d).data = d
    /\ \A u : HoldsType(o2.tcp_packet, u) => HoldsType(o.tcp_packet, u) \/ u = t
    /\ Given(o2.tcp_packet) = Given(o.tcp_packet) \cup ({t} \cap Item)

\* A hook tells unless the packet of the frame has one of its type already.
LEMMA HookTold ==
    ASSUME NEW o, Owned(o), NEW o2, NEW t \in HookType, NEW d \in Content(t),
           NEW dupes \in BOOLEAN, NEW b, Telling(o, o2, t, d, dupes, b),
           dupes \/ ~HoldsType(o.tcp_packet, t)
    PROVE  Tells(o, o2, t, d, b)
<1>1. /\ Owned(o2) /\ o2.body = b /\ o2.mirror = o.mirror
      /\ Message(t, d) \in AnyMessage /\ Message(t, d).type = t /\ Message(t, d).data = d
  BY TellingOwned
<1>2. o2.tcp_packet = Append(o.tcp_packet, Message(t, d))
  BY TellingOwned
<1>3. \A u : HoldsType(o2.tcp_packet, u) => HoldsType(o.tcp_packet, u) \/ u = t
  BY TellingOwned
<1>4. Given(o2.tcp_packet) = Given(o.tcp_packet) \cup ({t} \cap Item)
  <2> DEFINE msg == Message(t, d)
  <2>1. msg \in AnyMessage /\ msg.type = t /\ o2.tcp_packet = Append(o.tcp_packet, msg)
    BY <1>1, <1>2
  <2> HIDE DEF msg
  <2> QED
    BY <2>1, OwnedTypes, GivenAppend
<1> QED
  BY <1>1, <1>2, <1>3, <1>4 DEF Tells

\* What has to be so of something told, that the invariant holds afterwards.
LEMMA ToldInv ==
    ASSUME NEW o, Owned(o), NEW x, NEW s, NEW changed, EventInv(o, x, s, changed),
           NEW changed2, changed \subseteq changed2,
           NEW o2, NEW t, NEW d, NEW b, Tells(o, o2, t, d, b),
           o.body.action \in {"hurt", "dead"} \/ t = "P_Damage" => b.action \in {"hurt", "dead"},
           o.body.action = "dead" \/ t = "P_Kill" => b.action = "dead",
           \/ t # "P_HP" /\ b.hp = o.body.hp
           \/ \E k \in Int : t = "P_HP" /\ d = <<o.body.hp, k>> /\ b.hp = o.body.hp + k,
           t = "P_Damage" /\ "action" \notin changed2 => o.mirror.action \notin {"hurt", "dead"},
           "powers" \notin changed2 =>
               \E w : /\ Turns("powers", Present(o), Message(t, d), w)
                      /\ w.rings = b.rings /\ w.deaths = b.deaths /\ w.shown = b.shown
                      /\ b.powers \cup Given(o.tcp_packet) \cup ({t} \cap Item) \subseteq w.low
                      /\ w.high \subseteq b.powers \cup o.mirror.powers
    PROVE  EventInv(o2, x, s, changed2)
<1> DEFINE msg == Message(t, d)
<1>1. /\ Owned(o2) /\ o2.body = b /\ o2.mirror = o.mirror
      /\ o2.tcp_packet = Append(o.tcp_packet, msg)
      /\ msg \in AnyMessage /\ msg.type = t /\ msg.data = d
      /\ \A u : HoldsType(o2.tcp_packet, u) => HoldsType(o.tcp_packet, u) \/ u = t
      /\ Given(o2.tcp_packet) = Given(o.tcp_packet) \cup ({t} \cap Item)
  BY DEF Tells
<1>2. PacketInv(o2)
  BY <1>1 DEF PacketInv, EventInv
<1>3. HPInv(o2, x, s)
  <2>1. CASE t # "P_HP" /\ b.hp = o.body.hp
    <3> HIDE DEF msg
    <3> QED
      BY <1>1, <2>1, HPUntouched DEF EventInv
  <2>2. CASE \E k \in Int : t = "P_HP" /\ d = <<o.body.hp, k>> /\ b.hp = o.body.hp + k
    <3>1. PICK k \in Int : t = "P_HP" /\ d = <<o.body.hp, k>> /\ b.hp = o.body.hp + k
      BY <2>2
    <3>2. /\ o2.tcp_packet = Append(o.tcp_packet, Message("P_HP", <<o.body.hp, k>>))
          /\ o2.body.hp = o.body.hp + k /\ HPInv(o, x, s)
      BY <1>1, <3>1 DEF EventInv
    <3> QED
      BY <3>2, HPChanged
  <2> QED
    BY <2>1, <2>2
<1>4. ActionInv(o2, x, s, changed2)
  <2>1. HoldsType(o2.tcp_packet, "P_Damage") /\ "action" \notin changed2 =>
            HoldsType(o.tcp_packet, "P_Damage") \/ o.mirror.action \notin {"hurt", "dead"}
    BY <1>1
  <2> QED
    BY <1>1, <2>1, ActionUntouched DEF EventInv
<1>5. PowersInv(o2, x, s, changed2)
  <2>1. CASE "powers" \in changed2
    BY <2>1 DEF PowersInv
  <2>2. CASE "powers" \notin changed2
    <3> HIDE DEF msg
    <3>1. PICK w : /\ Turns("powers", Present(o), msg, w)
                   /\ w.rings = b.rings /\ w.deaths = b.deaths /\ w.shown = b.shown
                   /\ b.powers \cup Given(o.tcp_packet) \cup ({t} \cap Item) \subseteq w.low
                   /\ w.high \subseteq b.powers \cup o.mirror.powers
      BY <2>2 DEF msg
    <3>2. /\ Present(o2).low \subseteq w.low /\ w.high \subseteq Present(o2).high
          /\ Present(o2).rings = w.rings /\ Present(o2).deaths = w.deaths
          /\ Present(o2).shown = w.shown
      BY <1>1, <3>1, PresentType
    <3> QED
      BY <1>1, <3>1, <3>2, PowersStep DEF EventInv
  <2> QED
    BY <2>1, <2>2
<1> QED
  BY <1>2, <1>3, <1>4, <1>5 DEF EventInv

\* The same of what is not told by a hook.
LEMMA SilentInv ==
    ASSUME NEW o, NEW x, NEW s, NEW changed, EventInv(o, x, s, changed),
           NEW o2, o2.mirror = o.mirror, o2.tcp_packet = o.tcp_packet,
           HoldsType(o.tcp_packet, "P_Damage") => o2.body.action \in {"hurt", "dead"},
           HoldsType(o.tcp_packet, "P_Kill") => o2.body.action = "dead",
           o2.body.hp = o.body.hp, o2.body.rings = o.body.rings,
           o2.body.deaths = o.body.deaths, o2.body.shown = o.body.shown,
           o2.body.powers \subseteq o.body.powers \cup Given(o.tcp_packet),
           o.body.powers \subseteq o2.body.powers \cup o.mirror.powers
    PROVE  EventInv(o2, x, s, changed)
<1>1. PacketInv(o2)
  BY DEF PacketInv
<1>2. HPInv(o2, x, s)
  BY DEF HPInv, EventInv
<1>3. ActionInv(o2, x, s, changed)
  BY DEF ActionInv, EventInv
<1>4. PowersInv(o2, x, s, changed)
  <2>1. /\ Present(o).rings = Present(o2).rings /\ Present(o).deaths = Present(o2).deaths
        /\ Present(o).shown = Present(o2).shown
        /\ Present(o2).low \subseteq Present(o).low
        /\ Present(o).high \subseteq Present(o2).high
    BY DEF Present
  <2> QED
    BY <2>1, PowersUntouched DEF EventInv
<1> QED
  BY <1>1, <1>2, <1>3, <1>4 DEF EventInv

-----------------------------------------------------------------------------
(* The events of the owner *)

\* What each hook, and each way to play, does to the owner leaves the invariant true.
LEMMA RingsOwned ==
    ASSUME NEW o, Owned(o), NEW x, NEW s, NEW changed, EventInv(o, x, s, changed)
    PROVE  Owned(AddRings_cpp(o, 1)) /\ EventInv(AddRings_cpp(o, 1), x, s, changed)
<1> DEFINE o2 == AddRings_cpp(o, 1)
           d == <<o.body.rings, 1>>
           b == [o.body EXCEPT !.rings = @ + 1]
<1>1. o.body \in Body
  BY OwnedTypes
<1>2. d \in Content("S_Rings") /\ "S_Rings" \in HookType /\ d[1] + d[2] = o.body.rings + 1
  BY <1>1, ContentOf DEF Body, HookType
<1>3. /\ b.hp = o.body.hp /\ b.action = o.body.action /\ b.powers = o.body.powers
      /\ b.rings = o.body.rings + 1 /\ b.deaths = o.body.deaths /\ b.shown = o.body.shown
  BY <1>1 DEF Body
<1>4. Telling(o, o2, "S_Rings", d, TRUE, b)
  BY AddRingsTells DEF Owned
<1> HIDE DEF o2, d, b
<1>5. Tells(o, o2, "S_Rings", d, b)
  BY <1>2, <1>4, HookTold
<1>6. \E w : /\ Turns("powers", Present(o), Message("S_Rings", d), w)
             /\ w.rings = b.rings /\ w.deaths = b.deaths /\ w.shown = b.shown
             /\ b.powers \cup Given(o.tcp_packet) \cup ({"S_Rings"} \cap Item) \subseteq w.low
             /\ w.high \subseteq b.powers \cup o.mirror.powers
  <2> DEFINE v == Present(o)
             msg == Message("S_Rings", d)
             w == ViewAfter(v, msg)
  <2>1. /\ v \in View /\ v.low = o.body.powers \cup Given(o.tcp_packet)
        /\ v.high = o.body.powers \cup o.mirror.powers
        /\ v.deaths = o.body.deaths /\ v.shown = o.body.shown
    BY PresentType
  <2>2. msg \in AnyMessage /\ msg.type = "S_Rings" /\ msg.data = d
    BY <1>5 DEF Tells
  <2> HIDE DEF v, msg
  <2>3. Turns("powers", v, msg, w)
    BY <2>1, <2>2, EventTold DEF HandledType
  <2>4. w = [v EXCEPT !.rings = o.body.rings + 1]
    BY <1>2, <2>2 DEF ViewAfter, Item, Barriers
  <2> HIDE DEF w
  <2>5. /\ w.low = v.low /\ w.high = v.high /\ w.rings = o.body.rings + 1
        /\ w.deaths = v.deaths /\ w.shown = v.shown /\ {"S_Rings"} \cap Item = {}
    BY <2>1, <2>4 DEF View, Item, Barriers
  <2> QED
    BY <1>3, <2>1, <2>3, <2>5 DEF v, msg
<1>7. EventInv(o2, x, s, changed)
  BY <1>3, <1>5, <1>6, ToldInv
<1> QED
  BY <1>5, <1>7 DEF Tells, o2

LEMMA HPOwned ==
    ASSUME NEW o, Owned(o), NEW x, NEW s, NEW changed, EventInv(o, x, s, changed),
           NEW k \in Int
    PROVE  Owned(AddHP_cpp(o, k)) /\ EventInv(AddHP_cpp(o, k), x, s, changed)
<1> DEFINE o2 == AddHP_cpp(o, k)
           d == <<o.body.hp, k>>
           b == [o.body EXCEPT !.hp = @ + k]
<1>1. o.body \in Body
  BY OwnedTypes
<1>2. d \in Content("P_HP") /\ "P_HP" \in HookType
  BY <1>1, ContentOf DEF Body, HookType
<1>3. /\ b.hp = o.body.hp + k /\ b.action = o.body.action /\ b.powers = o.body.powers
      /\ b.rings = o.body.rings /\ b.deaths = o.body.deaths /\ b.shown = o.body.shown
  BY <1>1 DEF Body
<1>4. Telling(o, o2, "P_HP", d, TRUE, b)
  BY AddHPTells DEF Owned
<1>0. \E j \in Int : "P_HP" = "P_HP" /\ d = <<o.body.hp, j>> /\ b.hp = o.body.hp + j
  BY <1>3
<1> HIDE DEF o2, d, b
<1>5. Tells(o, o2, "P_HP", d, b)
  BY <1>2, <1>4, HookTold
<1>6. \E w : /\ Turns("powers", Present(o), Message("P_HP", d), w)
             /\ w.rings = b.rings /\ w.deaths = b.deaths /\ w.shown = b.shown
             /\ b.powers \cup Given(o.tcp_packet) \cup ({"P_HP"} \cap Item) \subseteq w.low
             /\ w.high \subseteq b.powers \cup o.mirror.powers
  <2> DEFINE v == Present(o)
             msg == Message("P_HP", d)
  <2>1. /\ v \in View /\ v.low = o.body.powers \cup Given(o.tcp_packet)
        /\ v.high = o.body.powers \cup o.mirror.powers
        /\ v.rings = o.body.rings /\ v.deaths = o.body.deaths /\ v.shown = o.body.shown
    BY PresentType
  <2>2. msg \in AnyMessage /\ msg.type = "P_HP" /\ msg.data = d
    BY <1>5 DEF Tells
  <2> HIDE DEF v, msg
  <2>3. Turns("powers", v, msg, v) /\ {"P_HP"} \cap Item = {}
    BY <2>2, PowersKept DEF HandledType, Item, Barriers
  <2> QED
    BY <1>3, <2>1, <2>3 DEF v, msg
<1>7. EventInv(o2, x, s, changed)
  BY <1>0, <1>3, <1>5, <1>6, ToldInv
<1> QED
  BY <1>5, <1>7 DEF Tells, o2

LEMMA KillOwned ==
    ASSUME NEW o, Owned(o), NEW x, NEW s, NEW changed, EventInv(o, x, s, changed)
    PROVE  Owned(KillPlayer_cpp(o)) /\ EventInv(KillPlayer_cpp(o), x, s, changed)
<1> DEFINE o2 == KillPlayer_cpp(o)
           b == Dead(o.body)
<1>1. o.body \in Body
  BY OwnedTypes
<1>2. <<>> \in Content("P_Kill") /\ "P_Kill" \in HookType
  BY ContentOf DEF HookType
<1>3. /\ b.hp = o.body.hp /\ b.action = "dead" /\ b.powers = o.body.powers
      /\ b.rings = o.body.rings /\ b.deaths = o.body.deaths + 1 /\ b.shown = o.body.shown
  BY <1>1 DEF Body, Dead
<1>4. Telling(o, o2, "P_Kill", <<>>, TRUE, b)
  BY KillPlayerTells DEF Owned
<1> HIDE DEF o2, b
<1>5. Tells(o, o2, "P_Kill", <<>>, b)
  BY <1>2, <1>4, HookTold
<1>6. \E w : /\ Turns("powers", Present(o), Message("P_Kill", <<>>), w)
             /\ w.rings = b.rings /\ w.deaths = b.deaths /\ w.shown = b.shown
             /\ b.powers \cup Given(o.tcp_packet) \cup ({"P_Kill"} \cap Item) \subseteq w.low
             /\ w.high \subseteq b.powers \cup o.mirror.powers
  <2> DEFINE v == Present(o)
             msg == Message("P_Kill", <<>>)
             w == ViewAfter(v, msg)
  <2>1. /\ v \in View /\ v.low = o.body.powers \cup Given(o.tcp_packet)
        /\ v.high = o.body.powers \cup o.mirror.powers
        /\ v.rings = o.body.rings /\ v.deaths = o.body.deaths /\ v.shown = o.body.shown
    BY PresentType
  <2>2. msg \in AnyMessage /\ msg.type = "P_Kill"
    BY <1>5 DEF Tells
  <2> HIDE DEF v, msg
  <2>3. Turns("powers", v, msg, w)
    BY <2>1, <2>2, EventTold DEF HandledType
  <2>4. w = [v EXCEPT !.deaths = @ + 1]
    BY <2>2 DEF ViewAfter, Item, Barriers
  <2> HIDE DEF w
  <2>5. /\ w.low = v.low /\ w.high = v.high /\ w.rings = v.rings
        /\ w.deaths = v.deaths + 1 /\ w.shown = v.shown /\ {"P_Kill"} \cap Item = {}
    BY <2>1, <2>4 DEF View, Item, Barriers
  <2> QED
    BY <1>3, <2>1, <2>3, <2>5 DEF v, msg
<1>7. EventInv(o2, x, s, changed)
  BY <1>3, <1>5, <1>6, ToldInv
<1> QED
  BY <1>5, <1>7 DEF Tells, o2

LEMMA ShowOwned ==
    ASSUME NEW o, Owned(o), NEW x, NEW s, NEW changed, EventInv(o, x, s, changed),
           NEW tnum \in {1, 2}
    PROVE  /\ Owned(DisplayItemBoxItem_hax(o, tnum))
           /\ EventInv(DisplayItemBoxItem_hax(o, tnum), x, s, changed)
<1> DEFINE o2 == DisplayItemBoxItem_hax(o, tnum)
           b == [o.body EXCEPT !.shown = Append(@, tnum)]
<1>1. o.body \in Body
  BY OwnedTypes
<1>2. tnum \in Content("S_ItemBoxItem") /\ "S_ItemBoxItem" \in HookType
  BY ContentOf DEF HookType
<1>3. /\ b.hp = o.body.hp /\ b.action = o.body.action /\ b.powers = o.body.powers
      /\ b.rings = o.body.rings /\ b.deaths = o.body.deaths
      /\ b.shown = Append(o.body.shown, tnum)
  BY <1>1 DEF Body
<1>4. Telling(o, o2, "S_ItemBoxItem", tnum, TRUE, b)
  BY ShowTells DEF Owned
<1> HIDE DEF o2, b
<1>5. Tells(o, o2, "S_ItemBoxItem", tnum, b)
  BY <1>2, <1>4, HookTold
<1>6. \E w : /\ Turns("powers", Present(o), Message("S_ItemBoxItem", tnum), w)
             /\ w.rings = b.rings /\ w.deaths = b.deaths /\ w.shown = b.shown
             /\ b.powers \cup Given(o.tcp_packet) \cup ({"S_ItemBoxItem"} \cap Item)
                    \subseteq w.low
             /\ w.high \subseteq b.powers \cup o.mirror.powers
  <2> DEFINE v == Present(o)
             msg == Message("S_ItemBoxItem", tnum)
             w == ViewAfter(v, msg)
  <2>1. /\ v \in View /\ v.low = o.body.powers \cup Given(o.tcp_packet)
        /\ v.high = o.body.powers \cup o.mirror.powers
        /\ v.rings = o.body.rings /\ v.deaths = o.body.deaths /\ v.shown = o.body.shown
    BY PresentType
  <2>2. msg \in AnyMessage /\ msg.type = "S_ItemBoxItem" /\ msg.data = tnum
    BY <1>5 DEF Tells
  <2> HIDE DEF v, msg
  <2>3. Turns("powers", v, msg, w)
    BY <2>1, <2>2, EventTold DEF HandledType
  <2>4. w = [v EXCEPT !.shown = Append(@, tnum)]
    BY <2>2 DEF ViewAfter, Item, Barriers
  <2> HIDE DEF w
  <2>5. /\ w.low = v.low /\ w.high = v.high /\ w.rings = v.rings
        /\ w.deaths = v.deaths /\ w.shown = Append(v.shown, tnum)
        /\ {"S_ItemBoxItem"} \cap Item = {}
    BY <2>1, <2>4 DEF View, Item, Barriers
  <2> QED
    BY <1>3, <2>1, <2>3, <2>5 DEF v, msg
<1>7. EventInv(o2, x, s, changed)
  BY <1>3, <1>5, <1>6, ToldInv
<1> QED
  BY <1>5, <1>7 DEF Tells, o2

\* An item that is told already is not told again, and the player has it.
LEMMA ItemOwned ==
    ASSUME NEW o, Owned(o), NEW x, NEW s, NEW changed, EventInv(o, x, s, changed),
           NEW item \in Item
    PROVE  Owned(Item_hax(o, item)) /\ EventInv(Item_hax(o, item), x, s, changed)
<1> DEFINE o2 == Item_hax(o, item)
           b == [o.body EXCEPT !.powers = @ \cup {item}]
<1>1. o.body \in Body
  BY OwnedTypes
<1>2. <<>> \in Content(item) /\ item \in HookType /\ item \in Item
  BY ContentOf DEF HookType
<1>3. /\ b.hp = o.body.hp /\ b.action = o.body.action
      /\ b.powers = o.body.powers \cup {item}
      /\ b.rings = o.body.rings /\ b.deaths = o.body.deaths /\ b.shown = o.body.shown
  BY <1>1 DEF Body
<1>4. Telling(o, o2, item, <<>>, FALSE, b)
  BY ItemTells DEF Owned
<1> HIDE DEF o2, b
<1>5. CASE HoldsType(o.tcp_packet, item)
  <2>1. o2.tcp_packet = o.tcp_packet
    <3>1. Message(item, <<>>).type = item
      BY DEF Message
    <3> QED
      BY <1>4, <1>5, <3>1 DEF Telling, Appended
  <2>2. Owned(o2) /\ o2.body = b /\ o2.mirror = o.mirror
    BY <1>4, <2>1 DEF Telling, Owned
  <2>3. item \in Given(o.tcp_packet)
    BY <1>5 DEF Given
  <2>4. EventInv(o2, x, s, changed)
    <3>1. PacketInv(o)
      BY DEF EventInv
    <3> QED
      BY <1>3, <2>1, <2>2, <2>3, <3>1, SilentInv DEF PacketInv
  <2> QED
    BY <2>2, <2>4 DEF o2
<1>6. CASE ~HoldsType(o.tcp_packet, item)
  <2>1. Tells(o, o2, item, <<>>, b)
    BY <1>2, <1>4, <1>6, HookTold
  <2>2. \E w : /\ Turns("powers", Present(o), Message(item, <<>>), w)
               /\ w.rings = b.rings /\ w.deaths = b.deaths /\ w.shown = b.shown
               /\ b.powers \cup Given(o.tcp_packet) \cup ({item} \cap Item) \subseteq w.low
               /\ w.high \subseteq b.powers \cup o.mirror.powers
    <3> DEFINE v == Present(o)
               msg == Message(item, <<>>)
               w == ViewAfter(v, msg)
    <3>1. /\ v \in View /\ v.low = o.body.powers \cup Given(o.tcp_packet)
          /\ v.high = o.body.powers \cup o.mirror.powers
          /\ v.rings = o.body.rings /\ v.deaths = o.body.deaths /\ v.shown = o.body.shown
      BY PresentType
    <3>2. msg \in AnyMessage /\ msg.type = item
      BY <2>1 DEF Tells
    <3> HIDE DEF v, msg
    <3>3. Turns("powers", v, msg, w)
      <4>1. msg.type \in HandledType \ {"P_Damage"}
        BY <1>2, <3>2 DEF HandledType, Item, Barriers
      <4> QED
        BY <3>1, <3>2, <4>1, EventTold
    <3>4. w = [v EXCEPT !.low = @ \cup {item}, !.high = @ \cup {item}]
      BY <1>2, <3>2 DEF ViewAfter, Item, Barriers
    <3> HIDE DEF w
    <3>5. /\ w.low = v.low \cup {item} /\ w.high = v.high \cup {item} /\ w.rings = v.rings
          /\ w.deaths = v.deaths /\ w.shown = v.shown
      BY <3>1, <3>4 DEF View
    <3> QED
      BY <1>3, <3>1, <3>3, <3>5 DEF v, msg
  <2>3. item \notin {"P_Damage", "P_Kill", "P_HP"}
    BY <1>2 DEF Item, Barriers
  <2>4. EventInv(o2, x, s, changed)
    BY <1>3, <2>1, <2>2, <2>3, ToldInv
  <2> QED
    BY <2>1, <2>4 DEF Tells, o2
<1> QED
  BY <1>5, <1>6

\* A hit that finds the powers or the action as they were in the last copy.
LEMMA HitOwned ==
    ASSUME NEW o, Owned(o), NEW x, NEW s, NEW changed, EventInv(o, x, s, changed),
           ~Unharmed(o)
    PROVE  /\ Owned(DamagePlayer_cpp(o))
           /\ EventInv(DamagePlayer_cpp(o), x, s, changed \cup Changed(o))
<1> DEFINE o2 == DamagePlayer_cpp(o)
           b == Wounded(o.body)
           changed2 == changed \cup Changed(o)
<1>1. o.body \in Body
  BY OwnedTypes
<1>2. <<>> \in Content("P_Damage") /\ "P_Damage" \in HookType
  BY ContentOf DEF HookType
<1>3. /\ b.hp = o.body.hp /\ b.action \in {"hurt", "dead"}
      /\ o.body.action \notin {"hurt", "dead"} /\ "S_Invincibility" \notin o.body.powers
  BY <1>1 DEF Body, Wounded, Dead, Unharmed, Invincible
<1>4. Telling(o, o2, "P_Damage", <<>>, FALSE, b)
  BY DamagePlayerTells DEF Owned
<1>5. ~HoldsType(o.tcp_packet, "P_Damage")
  BY <1>3 DEF EventInv, PacketInv
<1>6. Tells(o, o2, "P_Damage", <<>>, b)
  <2> HIDE DEF o2, b
  <2> QED
    BY <1>2, <1>4, <1>5, HookTold
<1>7. ASSUME "powers" \notin changed2
      PROVE  \E w : /\ Turns("powers", Present(o), Message("P_Damage", <<>>), w)
                    /\ w.rings = b.rings /\ w.deaths = b.deaths /\ w.shown = b.shown
                    /\ b.powers \cup Given(o.tcp_packet) \cup ({"P_Damage"} \cap Item)
                           \subseteq w.low
                    /\ w.high \subseteq b.powers \cup o.mirror.powers
  <2> DEFINE v == Present(o)
             msg == Message("P_Damage", <<>>)
             w == ViewHit(v)
  <2>1. o.body.powers = o.mirror.powers /\ Given(o.tcp_packet) = {}
    BY <1>7 DEF Changed, Given
  <2>2. /\ v \in View /\ v.low = o.body.powers /\ v.high = o.body.powers
        /\ v.rings = o.body.rings /\ v.deaths = o.body.deaths /\ v.shown = o.body.shown
    BY <2>1, PresentType
  <2> HIDE DEF v, msg
  <2>3. Turns("powers", v, msg, w)
    BY <1>3, <2>2, HitTold DEF msg
  <2>4. {"P_Damage"} \cap Item = {}
    BY DEF Item, Barriers
  <2>5. CASE o.body.powers \cap Barriers # {}
    <3>1. b = [o.body EXCEPT !.powers = @ \ Barriers, !.action = "hurt"]
      BY <2>5 DEF Wounded
    <3>2. w = [v EXCEPT !.low = @ \ Barriers]
      BY <2>2, <2>5 DEF ViewHit
    <3> HIDE DEF b, w
    <3>3. /\ b.powers = o.body.powers \ Barriers /\ b.rings = o.body.rings
          /\ b.deaths = o.body.deaths /\ b.shown = o.body.shown
      BY <1>1, <3>1 DEF Body
    <3>4. /\ w.low = v.low \ Barriers /\ w.high = v.high /\ w.rings = v.rings
          /\ w.deaths = v.deaths /\ w.shown = v.shown
      BY <2>2, <3>2 DEF View
    <3> QED
      BY <2>1, <2>2, <2>3, <2>4, <3>3, <3>4 DEF v, msg
  <2>6. CASE o.body.powers \cap Barriers = {} /\ o.body.rings > 0
    <3>1. b = [o.body EXCEPT !.action = "hurt", !.rings = 0]
      BY <2>6 DEF Wounded
    <3>2. w = [v EXCEPT !.rings = 0]
      BY <2>2, <2>6 DEF ViewHit
    <3> HIDE DEF b, w
    <3>3. /\ b.powers = o.body.powers /\ b.rings = 0
          /\ b.deaths = o.body.deaths /\ b.shown = o.body.shown
      BY <1>1, <3>1 DEF Body
    <3>4. /\ w.low = v.low /\ w.high = v.high /\ w.rings = 0
          /\ w.deaths = v.deaths /\ w.shown = v.shown
      BY <2>2, <3>2 DEF View
    <3> QED
      BY <2>1, <2>2, <2>3, <2>4, <3>3, <3>4 DEF v, msg
  <2>7. CASE o.body.powers \cap Barriers = {} /\ ~(o.body.rings > 0)
    <3>1. b = Dead(o.body)
      BY <2>7 DEF Wounded
    <3>2. w = [v EXCEPT !.deaths = @ + 1]
      BY <2>2, <2>7 DEF ViewHit
    <3> HIDE DEF b, w
    <3>3. /\ b.powers = o.body.powers /\ b.rings = o.body.rings
          /\ b.deaths = o.body.deaths + 1 /\ b.shown = o.body.shown
      BY <1>1, <3>1 DEF Body, Dead
    <3>4. /\ w.low = v.low /\ w.high = v.high /\ w.rings = v.rings
          /\ w.deaths = v.deaths + 1 /\ w.shown = v.shown
      BY <2>2, <3>2 DEF View
    <3> QED
      BY <2>1, <2>2, <2>3, <2>4, <3>3, <3>4 DEF v, msg
  <2> QED
    BY <2>5, <2>6, <2>7
<1>8. ASSUME "action" \notin changed2 PROVE o.mirror.action \notin {"hurt", "dead"}
  <2>1. o.mirror.action = o.body.action
    BY <1>8 DEF Changed
  <2> QED
    BY <1>3, <2>1
<1>9. changed \subseteq changed2
  OBVIOUS
<1> HIDE DEF o2, b, changed2
<1>10. EventInv(o2, x, s, changed2)
  BY <1>3, <1>6, <1>7, <1>8, <1>9, ToldInv
<1> QED
  BY <1>6, <1>10 DEF Tells, o2, changed2

\* What does not concern the player.
LEMMA SameOwned ==
    ASSUME NEW o, Owned(o), NEW x, NEW s, NEW changed, EventInv(o, x, s, changed),
           NEW o2, SamePlayer(o, o2)
    PROVE  Owned(o2) /\ EventInv(o2, x, s, changed)
<1>1. /\ o2.body = o.body /\ o2.mirror = o.mirror /\ o2.tcp_packet = o.tcp_packet
      /\ Owned(o2)
  BY DEF SamePlayer, OtherPacket, Kept, Owned, Player, Idle
<1>2. EventInv(o2, x, s, changed)
  BY <1>1, SilentInv DEF EventInv, PacketInv
<1> QED
  BY <1>1, <1>2

\* What is not told at once, and does not undo a hit or a death that is not told yet.
LEMMA BodyOwned ==
    ASSUME NEW o, Owned(o), NEW x, NEW s, NEW changed, EventInv(o, x, s, changed),
           NEW b \in Body,
           \/ b.action = o.body.action
           \/ ~HoldsType(o.tcp_packet, "P_Damage") /\ ~HoldsType(o.tcp_packet, "P_Kill"),
           b.powers \subseteq o.body.powers,
           o.body.powers \subseteq b.powers \cup o.mirror.powers,
           b.hp = o.body.hp, b.rings = o.body.rings, b.deaths = o.body.deaths,
           b.shown = o.body.shown
    PROVE  /\ Owned([o EXCEPT !.body = b])
           /\ EventInv([o EXCEPT !.body = b], x, s, changed)
<1> DEFINE o2 == [o EXCEPT !.body = b]
<1>1. OtherBody(o, b, o2)
  BY WithBody DEF Owned, Player
<1> HIDE DEF o2
<1>2. /\ o2.body = b /\ o2.mirror = o.mirror /\ o2.tcp_packet = o.tcp_packet
      /\ Owned(o2)
  BY <1>1 DEF OtherBody, Kept, Owned, Player, Idle
<1>3. EventInv(o2, x, s, changed)
  BY <1>2, SilentInv DEF EventInv, PacketInv
<1> QED
  BY <1>2, <1>3 DEF o2

LEMMA RecoverOwned ==
    ASSUME NEW o, Owned(o), NEW x, NEW s, NEW changed, EventInv(o, x, s, changed),
           NEW a \in Action,
           ~HoldsType(o.tcp_packet, "P_Damage") /\ ~HoldsType(o.tcp_packet, "P_Kill")
    PROVE  /\ Owned([o EXCEPT !.body.action = a])
           /\ EventInv([o EXCEPT !.body.action = a], x, s, changed)
<1> DEFINE b == [o.body EXCEPT !.action = a]
<1>1. o.body \in Body
  BY OwnedTypes
<1>2. /\ b \in Body /\ b.powers = o.body.powers /\ b.hp = o.body.hp
      /\ b.rings = o.body.rings /\ b.deaths = o.body.deaths /\ b.shown = o.body.shown
  BY <1>1 DEF Body
<1>3. [o EXCEPT !.body.action = a] = [o EXCEPT !.body = b]
  OBVIOUS
<1> HIDE DEF b
<1>4. Owned([o EXCEPT !.body = b]) /\ EventInv([o EXCEPT !.body = b], x, s, changed)
  BY <1>2, BodyOwned
<1> QED
  BY <1>3, <1>4

LEMMA MoveOwned ==
    ASSUME NEW o, Owned(o), NEW x, NEW s, NEW changed, EventInv(o, x, s, changed),
           NEW c \in Coordinate
    PROVE  /\ Owned([o EXCEPT !.body.position = c])
           /\ EventInv([o EXCEPT !.body.position = c], x, s, changed)
<1> DEFINE b == [o.body EXCEPT !.position = c]
<1>1. o.body \in Body
  BY OwnedTypes
<1>2. /\ b \in Body /\ b.powers = o.body.powers /\ b.hp = o.body.hp /\ b.action = o.body.action
      /\ b.rings = o.body.rings /\ b.deaths = o.body.deaths /\ b.shown = o.body.shown
  BY <1>1 DEF Body
<1>3. [o EXCEPT !.body.position = c] = [o EXCEPT !.body = b]
  OBVIOUS
<1> HIDE DEF b
<1>4. Owned([o EXCEPT !.body = b]) /\ EventInv([o EXCEPT !.body = b], x, s, changed)
  BY <1>2, BodyOwned
<1> QED
  BY <1>3, <1>4

LEMMA TurnOwned ==
    ASSUME NEW o, Owned(o), NEW x, NEW s, NEW changed, EventInv(o, x, s, changed)
    PROVE  /\ Owned([o EXCEPT !.body.motion = 1 - @])
           /\ EventInv([o EXCEPT !.body.motion = 1 - @], x, s, changed)
<1> DEFINE b == [o.body EXCEPT !.motion = 1 - @]
<1>1. o.body \in Body
  BY OwnedTypes
<1>2. /\ b \in Body /\ b.powers = o.body.powers /\ b.hp = o.body.hp /\ b.action = o.body.action
      /\ b.rings = o.body.rings /\ b.deaths = o.body.deaths /\ b.shown = o.body.shown
  <2>1. o.body.motion \in Motion /\ 1 - o.body.motion \in Motion
    BY <1>1 DEF Body, Motion
  <2> QED
    BY <1>1, <2>1 DEF Body
<1>3. [o EXCEPT !.body.motion = 1 - @] = [o EXCEPT !.body = b]
  OBVIOUS
<1> HIDE DEF b
<1>4. Owned([o EXCEPT !.body = b]) /\ EventInv([o EXCEPT !.body = b], x, s, changed)
  BY <1>2, BodyOwned
<1> QED
  BY <1>3, <1>4

LEMMA WearOffOwned ==
    ASSUME NEW o, Owned(o), NEW x, NEW s, NEW changed, EventInv(o, x, s, changed),
           o.body.powers = o.mirror.powers
    PROVE  /\ Owned([o EXCEPT !.body.powers = @ \cap Barriers])
           /\ EventInv([o EXCEPT !.body.powers = @ \cap Barriers], x, s, changed)
<1> DEFINE b == [o.body EXCEPT !.powers = @ \cap Barriers]
<1>1. o.body \in Body
  BY OwnedTypes
<1>2. /\ b \in Body /\ b.powers = o.body.powers \cap Barriers /\ b.hp = o.body.hp
      /\ b.action = o.body.action
      /\ b.rings = o.body.rings /\ b.deaths = o.body.deaths /\ b.shown = o.body.shown
  BY <1>1 DEF Body
<1>3. [o EXCEPT !.body.powers = @ \cap Barriers] = [o EXCEPT !.body = b]
  OBVIOUS
<1> HIDE DEF b
<1>4. Owned([o EXCEPT !.body = b]) /\ EventInv([o EXCEPT !.body = b], x, s, changed)
  BY <1>2, BodyOwned
<1> QED
  BY <1>3, <1>4

LEMMA WinOwned ==
    ASSUME NEW o, Owned(o), NEW x, NEW s, NEW changed, EventInv(o, x, s, changed)
    PROVE  Owned(OnWin(o)) /\ EventInv(OnWin(o), x, s, changed)
<1> DEFINE o2 == OnWin(o)
<1>1. PICK p \in Grown({"S_Win"}, o.tcp_packet) : OtherPacket(o, p, o2)
  BY OnWinTells DEF Owned
<1> HIDE DEF o2
<1>2. CASE p = o.tcp_packet
  BY <1>1, <1>2, SameOwned DEF SamePlayer, o2
<1>3. CASE p # o.tcp_packet
  <2>1. PICK msg \in Messages({"S_Win"}) : p = Append(o.tcp_packet, msg)
    BY <1>1, <1>3 DEF Grown
  <2>2. msg.type = "S_Win" /\ msg.data \in Content("S_Win")
    BY MessageFields
  <2>3. msg = Message("S_Win", <<>>)
    <3>1. PICK t \in {"S_Win"} : msg \in [type : {t}, data : Content(t)]
      BY DEF Messages
    <3>2. msg \in [type : {"S_Win"}, data : {<<>>}]
      BY <3>1, ContentOf
    <3> QED
      BY <3>2 DEF Message
  <2>4. Telling(o, o2, "S_Win", <<>>, TRUE, o.body)
    BY <1>1, <2>1, <2>3 DEF OtherPacket, Kept, Telling, Owned, Player, Idle, Appended
  <2>5. Tells(o, o2, "S_Win", <<>>, o.body)
    <3>1. "S_Win" \in HookType /\ <<>> \in Content("S_Win")
      BY ContentOf DEF HookType
    <3> QED
      BY <2>4, <3>1, HookTold
  <2>6. \E w : /\ Turns("powers", Present(o), Message("S_Win", <<>>), w)
               /\ w.rings = o.body.rings /\ w.deaths = o.body.deaths /\ w.shown = o.body.shown
               /\ o.body.powers \cup Given(o.tcp_packet) \cup ({"S_Win"} \cap Item)
                      \subseteq w.low
               /\ w.high \subseteq o.body.powers \cup o.mirror.powers
    <3> DEFINE v == Present(o)
               told == Message("S_Win", <<>>)
    <3>1. /\ v \in View /\ v.low = o.body.powers \cup Given(o.tcp_packet)
          /\ v.high = o.body.powers \cup o.mirror.powers
          /\ v.rings = o.body.rings /\ v.deaths = o.body.deaths /\ v.shown = o.body.shown
      BY PresentType
    <3>2. told \in AnyMessage /\ told.type = "S_Win"
      BY <2>5 DEF Tells
    <3> HIDE DEF v, told
    <3>3. Turns("powers", v, told, v) /\ {"S_Win"} \cap Item = {}
      BY <3>2, PowersKept DEF HandledType, Item, Barriers
    <3> QED
      BY <3>1, <3>3 DEF v, told
  <2>7. EventInv(o2, x, s, changed)
    <3>1. PacketInv(o)
      BY DEF EventInv
    <3> QED
      BY <2>5, <2>6, ToldInv
  <2> QED
    BY <2>5, <2>7 DEF Tells, o2
<1> QED
  BY <1>2, <1>3

-----------------------------------------------------------------------------
(* The packet of a frame *)

What == {"hp", "action", "powers"}

\* A message that leaves the player alone leaves what is known of him.
LEMMA PlainKept ==
    ASSUME NEW what \in What, NEW v, NEW msg \in AnyMessage,
           msg.type \in PlainType \cup {"P_Position"}
    PROVE  Turns(what, v, msg, v)
<1>1. msg.type \notin HandledType \cup {"P_HP", "P_Action", "P_Powerups", "P_Damage", "P_Kill"}
  BY DEF PlainType, HandledType, Item, Barriers
<1> QED
  BY <1>1, HPKept, ActionKept, PowersKept DEF What

\* One message more, of a type that does not concern what is known.
LEMMA GrownLeads ==
    ASSUME NEW p \in Seq(TcpMessage), NEW t \in TcpType, t \in PlainType \cup {"P_Position"},
           NEW q \in Grown({t}, p)
    PROVE  /\ q \in Seq(TcpMessage)
           /\ \A what \in What : \A a, b : Leads(what, a, p, b) => Leads(what, a, q, b)
<1>1. CASE q = p
  BY <1>1
<1>2. CASE q # p
  <2>1. PICK msg \in Messages({t}) : q = Append(p, msg)
    BY <1>2 DEF Grown
  <2>2. msg.type = t /\ msg \in TcpMessage /\ msg \in AnyMessage
    <3>1. msg.type = t
      BY MessageFields
    <3>2. {t} \subseteq TcpType
      OBVIOUS
    <3> QED
      BY <3>1, <3>2, TypesWithin, PacketTypes DEF TcpMessage
  <2>3. q \in Seq(TcpMessage)
    BY <2>1, <2>2, AppendProperties
  <2>4. ASSUME NEW what \in What, NEW a, NEW b, Leads(what, a, p, b)
        PROVE  Leads(what, a, q, b)
    <3>1. Turns(what, b, msg, b)
      BY <2>2, PlainKept
    <3>2. p \in Seq(AnyMessage)
      BY PacketTypes
    <3> QED
      BY <2>1, <2>2, <2>4, <3>1, <3>2, LeadsFurther
  <2> QED
    BY <2>3, <2>4
<1> QED
  BY <1>1, <1>2

\* The packet that p becomes in the frame in which the owner is o.
Packed(o, p, q) ==
    \E p1 \in Grown({"S_WinData"}, p) :
    \E p2 \in Seq(TcpMessage) :
        /\ Compared(p1, o.body, o.mirror, p2)
        /\ \E p3 \in Grown({"I_Buttons"}, p2) : q \in Grown({"I_Analog"}, p3)

\* With the messages of the hooks and of the result screen alone.
LEMMA BeforeCompared ==
    ASSUME NEW p \in Seq(Messages(HookType)), NEW q \in Grown({"S_WinData"}, p)
    PROVE  /\ q \in Seq(TcpMessage) /\ q \in Seq(Messages(HookType \cup {"S_WinData"}))
           /\ \A what \in What : \A a, b : Leads(what, a, p, b) => Leads(what, a, q, b)
           /\ \A t : HoldsType(q, t) => HoldsType(p, t) \/ t = "S_WinData"
<1> DEFINE types == HookType \cup {"S_WinData"}
<1>1. p \in Seq(TcpMessage) /\ "S_WinData" \in TcpType /\ "S_WinData" \in PlainType
  BY PacketTypes DEF TcpType, PlainType
<1>2. /\ q \in Seq(TcpMessage)
      /\ \A what \in What : \A a, b : Leads(what, a, p, b) => Leads(what, a, q, b)
  BY <1>1, GrownLeads
<1>3. p \in Seq(Messages(types)) /\ Messages({"S_WinData"}) \subseteq Messages(types)
  <2>1. HookType \subseteq types /\ {"S_WinData"} \subseteq types
    OBVIOUS
  <2> HIDE DEF types
  <2> QED
    BY <2>1, TypesWithin
<1> HIDE DEF types
<1>4. q \in Seq(Messages(types)) /\ \A t : HoldsType(q, t) => HoldsType(p, t) \/ t = "S_WinData"
  <2>1. CASE q = p
    BY <1>3, <2>1
  <2>2. CASE q # p
    <3>1. PICK msg \in Messages({"S_WinData"}) : q = Append(p, msg)
      BY <2>2 DEF Grown
    <3>2. msg \in Messages(types) /\ msg.type = "S_WinData"
      BY <1>3, MessageFields
    <3>3. q \in Seq(Messages(types))
      BY <1>3, <3>1, <3>2, AppendProperties
    <3>4. \A t : HoldsType(q, t) => HoldsType(p, t) \/ t = "S_WinData"
      BY <1>3, <3>1, <3>2, HoldsAppend
    <3> QED
      BY <3>3, <3>4
  <2> QED
    BY <2>1, <2>2
<1> QED
  BY <1>2, <1>4 DEF types

\* Before send_player the packet of the frame holds neither the action nor the powers.
LEMMA NotComparedYet ==
    ASSUME NEW p \in Seq(Messages(HookType)), NEW q \in Grown({"S_WinData"}, p)
    PROVE  ~HoldsType(q, "P_Action") /\ ~HoldsType(q, "P_Powerups")
<1>1. "P_Action" \notin HookType \cup {"S_WinData"} /\ "P_Powerups" \notin HookType \cup {"S_WinData"}
  BY DEF HookType, Item, Barriers
<1> QED
  BY <1>1, BeforeCompared, HoldsNoOther

\* The messages of send_player.
LEMMA ComparedMessages ==
    ASSUME NEW b \in Body
    PROVE  /\ Message("P_Action", b.action) \in TcpMessage
           /\ Message("P_Action", b.action).type = "P_Action"
           /\ Message("P_Powerups", b.powers) \in TcpMessage
           /\ Message("P_Powerups", b.powers).type = "P_Powerups"
<1>1. /\ b.action \in Content("P_Action") /\ b.powers \in Content("P_Powerups")
      /\ "P_Action" \in TcpType /\ "P_Powerups" \in TcpType
  BY ContentOf DEF Body, TcpType
<1> QED
  BY <1>1, MessageType DEF TcpMessage

\* The packet with the action: what it held leads on to what P_Action leaves.
LEMMA ActionCompared ==
    ASSUME NEW p \in Seq(TcpMessage), NEW b \in Body, NEW c,
           NEW r \in Grown({"P_Position"}, Append(p, Message("P_Action", b.action))) \cup {p},
           IF c.action # b.action
           THEN r \in Grown({"P_Position"}, Append(p, Message("P_Action", b.action)))
           ELSE r = p
    PROVE  /\ r \in Seq(TcpMessage)
           /\ \A what \in {"hp", "powers"} : \A a, d :
                  Leads(what, a, p, d) => Leads(what, a, r, d)
           /\ c.action # b.action => \A a : Leads("action", a, r, b.action)
<1> DEFINE msg == Message("P_Action", b.action)
           q == Append(p, msg)
<1>0. p \in Seq(AnyMessage)
  BY PacketTypes
<1>1. CASE c.action = b.action
  BY <1>1
<1>2. CASE c.action # b.action
  <2>1. msg \in TcpMessage /\ msg.type = "P_Action" /\ msg \in AnyMessage /\ b.action \in Action
    BY ComparedMessages, PacketTypes DEF Body
  <2>2. \A a : Leads("action", a, q, b.action)
    BY <1>0, <2>1, ActionTold
  <2> HIDE DEF msg
  <2>3. q \in Seq(TcpMessage)
    BY <2>1, AppendProperties
  <2>4. ASSUME NEW what \in {"hp", "powers"}, NEW a, NEW d, Leads(what, a, p, d)
        PROVE  Leads(what, a, q, d)
    <3>1. Turns(what, d, msg, d)
      BY <2>1, HPKept, PowersKept DEF HandledType, Item, Barriers
    <3> QED
      BY <1>0, <2>1, <2>4, <3>1, LeadsFurther
  <2>5. r \in Grown({"P_Position"}, q) /\ "P_Position" \in TcpType
    BY <1>2 DEF msg, TcpType
  <2> HIDE DEF q
  <2>6. /\ r \in Seq(TcpMessage)
        /\ \A what \in What : \A a, d : Leads(what, a, q, d) => Leads(what, a, r, d)
    BY <2>3, <2>5, GrownLeads
  <2> QED
    BY <2>2, <2>4, <2>6 DEF What
<1> QED
  BY <1>1, <1>2

\* All that the owner of body b has, and nothing else.
Exact(b) == [low |-> b.powers, high |-> b.powers, rings |-> b.rings, deaths |-> b.deaths,
             shown |-> b.shown]

\* The powers, if they have changed, after what has been compared before.
Gaining(r, b, c, q) ==
    q = IF c.powers # b.powers THEN Append(r, Message("P_Powerups", b.powers)) ELSE r

\* The powers compared are known exactly, once the packet of the frame has been read.
LEMMA PowersCompared ==
    ASSUME NEW r \in Seq(TcpMessage), NEW b \in Body, NEW c, NEW v \in View,
           v.rings = b.rings, v.deaths = b.deaths, v.shown = b.shown,
           c.powers = b.powers => b.powers \subseteq v.low /\ v.high \subseteq b.powers,
           NEW q, Gaining(r, b, c, q)
    PROVE  /\ q \in Seq(TcpMessage)
           /\ \A a, d : Leads("hp", a, r, d) => Leads("hp", a, q, d)
           /\ \A a, d : Leads("action", a, r, d) => Leads("action", a, q, d)
           /\ \A a : Leads("powers", a, r, v) => Leads("powers", a, q, Exact(b))
<1> DEFINE msg == Message("P_Powerups", b.powers)
<1>0. r \in Seq(AnyMessage)
  BY PacketTypes
<1>1. msg \in TcpMessage /\ msg.type = "P_Powerups" /\ msg \in AnyMessage
  BY ComparedMessages, PacketTypes
<1>2. q = IF c.powers # b.powers THEN Append(r, msg) ELSE r
  BY DEF Gaining
<1>3. CASE c.powers = b.powers
  <2>1. ASSUME NEW a, Leads("powers", a, r, v) PROVE Leads("powers", a, r, Exact(b))
    <3> DEFINE w == Exact(b)
    <3>1. /\ v.rings = w.rings /\ v.deaths = w.deaths /\ v.shown = w.shown
          /\ w.low \subseteq v.low /\ v.high \subseteq w.high
      BY <1>3 DEF Exact
    <3> HIDE DEF w
    <3>2. Leads("powers", a, r, w)
      BY <2>1, <3>1, LeadsWeaker
    <3> QED
      BY <3>2 DEF w
  <2> QED
    BY <1>2, <1>3, <2>1
<1>4. CASE c.powers # b.powers
  <2>1. Turns("powers", v, msg, Exact(b))
    <3>1. b.powers \in SUBSET Item
      BY DEF Body
    <3>2. [v EXCEPT !.low = b.powers, !.high = b.powers] = Exact(b)
      <4> DEFINE w == [v EXCEPT !.low = b.powers, !.high = b.powers]
                 e == Exact(b)
      <4>1. /\ w \in View /\ w.low = b.powers /\ w.high = b.powers
            /\ w.rings = b.rings /\ w.deaths = b.deaths /\ w.shown = b.shown
        BY <3>1 DEF View
      <4>2. /\ e \in View /\ e.low = b.powers /\ e.high = b.powers
            /\ e.rings = b.rings /\ e.deaths = b.deaths /\ e.shown = b.shown
        BY <3>1 DEF View, Exact, Body
      <4> HIDE DEF w, e
      <4>3. w = e
        BY <4>1, <4>2 DEF View
      <4> QED
        BY <4>3 DEF w, e
    <3> QED
      BY <3>1, <3>2, PowersTold
  <2> HIDE DEF msg
  <2>2. q = Append(r, msg) /\ q \in Seq(TcpMessage)
    BY <1>1, <1>2, <1>4, AppendProperties
  <2>3. ASSUME NEW a, NEW d, Leads("hp", a, r, d) PROVE Leads("hp", a, q, d)
    <3>1. Turns("hp", d, msg, d)
      BY <1>1, HPKept
    <3> QED
      BY <1>0, <1>1, <2>2, <2>3, <3>1, LeadsFurther
  <2>4. ASSUME NEW a, NEW d, Leads("action", a, r, d) PROVE Leads("action", a, q, d)
    <3>1. Turns("action", d, msg, d)
      BY <1>1, ActionKept
    <3> QED
      BY <1>0, <1>1, <2>2, <2>4, <3>1, LeadsFurther
  <2>5. ASSUME NEW a, Leads("powers", a, r, v) PROVE Leads("powers", a, q, Exact(b))
    BY <1>0, <1>1, <2>1, <2>2, <2>5, LeadsFurther
  <2> QED
    BY <2>2, <2>3, <2>4, <2>5
<1> QED
  BY <1>3, <1>4

\* A packet without P_Action leaves the action that was last told alone.
LEMMA ActionUncompared ==
    ASSUME NEW o, Owned(o), PacketInv(o),
           HoldsType(o.tcp_packet, "P_Damage") => o.mirror.action \notin {"hurt", "dead"},
           o.mirror.action = o.body.action,
           NEW q \in Grown({"S_WinData"}, o.tcp_packet)
    PROVE  Leads("action", o.body.action, q, o.body.action)
<1> DEFINE v == o.body.action
<1>1. /\ q \in Seq(TcpMessage) /\ ~HoldsType(q, "P_Action")
      /\ \A t : HoldsType(q, t) => HoldsType(o.tcp_packet, t) \/ t = "S_WinData"
  BY BeforeCompared, NotComparedYet DEF Owned
<1>2. q \in Seq(AnyMessage)
  BY <1>1, PacketTypes
<1>3. ~HoldsType(q, "P_Damage") /\ (HoldsType(q, "P_Kill") => v = "dead")
  BY <1>1 DEF PacketInv
<1> HIDE DEF v
<1>4. ASSUME NEW i \in DOMAIN q PROVE Turns("action", v, q[i], v)
  <2>1. q[i] \in AnyMessage
    BY <1>2, ElementOfSeq, LenProperties
  <2>2. HoldsType(q, q[i].type)
    BY DEF HoldsType
  <2>3. \/ q[i].type \notin {"P_Action", "P_Damage", "P_Kill"}
        \/ q[i].type = "P_Kill" /\ v = "dead"
    BY <1>1, <1>3, <2>2
  <2> QED
    BY <2>1, <2>3, ActionKept
<1>5. Leads("action", v, q, v)
  BY <1>2, <1>4, LeadsNowhere
<1> QED
  BY <1>5 DEF v

\* What the packet that the owner sends leads to.
LEMMA PackedLeads ==
    ASSUME NEW o, Owned(o), PacketInv(o), NEW q, Packed(o, o.tcp_packet, q)
    PROVE  /\ q \in Seq(TcpMessage)
           /\ \A a, d : Leads("hp", a, o.tcp_packet, d) => Leads("hp", a, q, d)
           /\ (HoldsType(o.tcp_packet, "P_Damage") => o.mirror.action \notin {"hurt", "dead"})
                  => Leads("action", o.mirror.action, q, o.body.action)
           /\ \A a : Leads("powers", a, o.tcp_packet, Present(o))
                         => Leads("powers", a, q, Exact(o.body))
<1> DEFINE p == o.tcp_packet
           b == o.body
           c == o.mirror
           v == Present(o)
<1>0. p \in Seq(Messages(HookType)) /\ b \in Body
  BY OwnedTypes DEF Owned
<1>1. PICK p1 \in Grown({"S_WinData"}, p), p2 \in Seq(TcpMessage) :
          /\ Compared(p1, b, c, p2)
          /\ \E p3 \in Grown({"I_Buttons"}, p2) : q \in Grown({"I_Analog"}, p3)
  BY DEF Packed
<1>2. PICK p3 \in Grown({"I_Buttons"}, p2) : q \in Grown({"I_Analog"}, p3)
  BY <1>1
<1>3. /\ p1 \in Seq(TcpMessage)
      /\ \A what \in What : \A a, d : Leads(what, a, p, d) => Leads(what, a, p1, d)
  BY <1>0, BeforeCompared
<1>4. PICK r \in Grown({"P_Position"}, Append(p1, Message("P_Action", b.action))) \cup {p1} :
        /\ IF c.action # b.action
           THEN r \in Grown({"P_Position"}, Append(p1, Message("P_Action", b.action)))
           ELSE r = p1
        /\ IF c.powers # b.powers THEN p2 = Append(r, Message("P_Powerups", b.powers))
           ELSE p2 = r
  BY <1>1 DEF Compared
<1>5. /\ r \in Seq(TcpMessage)
      /\ \A what \in {"hp", "powers"} : \A a, d : Leads(what, a, p1, d) => Leads(what, a, r, d)
      /\ c.action # b.action => \A a : Leads("action", a, r, b.action)
  <2> HIDE DEF b, c
  <2> QED
    BY <1>0, <1>3, <1>4, ActionCompared
<1>6. Gaining(r, b, c, p2)
  BY <1>4 DEF Gaining
<1>7. /\ v \in View /\ v.rings = b.rings /\ v.deaths = b.deaths /\ v.shown = b.shown
      /\ c.powers = b.powers => b.powers \subseteq v.low /\ v.high \subseteq b.powers
  BY PresentType
<1>8. /\ \A a, d : Leads("hp", a, r, d) => Leads("hp", a, p2, d)
      /\ \A a, d : Leads("action", a, r, d) => Leads("action", a, p2, d)
      /\ \A a : Leads("powers", a, r, v) => Leads("powers", a, p2, Exact(b))
  <2> HIDE DEF b, c, v
  <2> QED
    BY <1>0, <1>5, <1>6, <1>7, PowersCompared
<1>9. /\ p3 \in Seq(TcpMessage)
      /\ \A what \in What : \A a, d : Leads(what, a, p2, d) => Leads(what, a, p3, d)
  <2>1. "I_Buttons" \in TcpType /\ "I_Buttons" \in PlainType \cup {"P_Position"}
    BY DEF TcpType, PlainType
  <2> QED
    BY <2>1, GrownLeads
<1>10. /\ q \in Seq(TcpMessage)
       /\ \A what \in What : \A a, d : Leads(what, a, p3, d) => Leads(what, a, q, d)
  <2>1. "I_Analog" \in TcpType /\ "I_Analog" \in PlainType \cup {"P_Position"}
    BY DEF TcpType, PlainType
  <2> QED
    BY <1>2, <1>9, <2>1, GrownLeads
<1>11. (HoldsType(p, "P_Damage") => c.action \notin {"hurt", "dead"})
           => Leads("action", c.action, r, b.action)
  <2>1. CASE c.action # b.action
    BY <1>5, <2>1
  <2>2. CASE c.action = b.action
    <3>1. ASSUME HoldsType(p, "P_Damage") => c.action \notin {"hurt", "dead"}
          PROVE  Leads("action", b.action, p1, b.action)
      BY <2>2, <3>1, ActionUncompared
    <3> QED
      BY <1>4, <2>2, <3>1
  <2> QED
    BY <2>1, <2>2
<1> HIDE DEF p, b, c, v
<1>12. /\ \A a, d : Leads("hp", a, p, d) => Leads("hp", a, q, d)
       /\ \A a, d : Leads("action", a, r, d) => Leads("action", a, q, d)
       /\ \A a : Leads("powers", a, p, v) => Leads("powers", a, q, Exact(b))
  BY <1>3, <1>5, <1>8, <1>9, <1>10 DEF What
<1> QED
  BY <1>10, <1>11, <1>12 DEF p, b, c, v

\* o2 is the owner after a frame that has sent p by TCP: everything has been compared.
Framed(o, p, o2) ==
    /\ Player(o2) /\ o2.body = o.body /\ o2.mirror = Copied(o.body) /\ o2.tcp_packet = <<>>
    /\ Packed(o, o.tcp_packet, p)

\* A frame of the owner: its packet leads the other machine to all that was compared.
LEMMA FramedOwned ==
    ASSUME NEW o, Owned(o), NEW x, Replica(x), NEW s \in Seq(Seq(TcpMessage)),
           NEW changed, EventInv(o, x, s, changed),
           NEW p, NEW o2, Framed(o, p, o2)
    PROVE  Owned(o2) /\ EventInv(o2, x, Sent(s, p), changed) /\ p \in Seq(TcpMessage)
<1>1. PacketInv(o) /\ HPInv(o, x, s) /\ ActionInv(o, x, s, changed)
      /\ PowersInv(o, x, s, changed)
  BY DEF EventInv
<1>2. /\ p \in Seq(TcpMessage)
      /\ \A a, d : Leads("hp", a, o.tcp_packet, d) => Leads("hp", a, p, d)
      /\ (HoldsType(o.tcp_packet, "P_Damage") => o.mirror.action \notin {"hurt", "dead"})
             => Leads("action", o.mirror.action, p, o.body.action)
      /\ \A a : Leads("powers", a, o.tcp_packet, Present(o))
                    => Leads("powers", a, p, Exact(o.body))
  BY <1>1, PackedLeads DEF Framed
<1>3. /\ Player(o2) /\ o2.body = o.body /\ o2.mirror = Copied(o.body)
      /\ o2.tcp_packet = <<>> /\ \A t : ~HoldsType(o2.tcp_packet, t)
  BY DEF Framed, HoldsType
<1>4. Owned(o2)
  <2>1. <<>> \in Seq(Messages(HookType))
    OBVIOUS
  <2> QED
    BY <1>3, <2>1 DEF Owned
<1>5. PacketInv(o2)
  BY <1>3 DEF PacketInv
<1>6. HPInv(o2, x, Sent(s, p))
  <2>1. PICK v : Chain("hp", x, s, v) /\ Leads("hp", v, o.tcp_packet, o.body.hp)
    BY <1>1 DEF HPInv
  <2>2. Chain("hp", x, Sent(s, p), o.body.hp)
    BY <1>2, <2>1, ChainSent
  <2>3. Leads("hp", o.body.hp, o2.tcp_packet, o2.body.hp)
    BY <1>3, LeadsNothing
  <2> QED
    BY <2>2, <2>3 DEF HPInv
<1>7. ActionInv(o2, x, Sent(s, p), changed)
  <2>1. ASSUME "action" \notin changed PROVE Chain("action", x, Sent(s, p), o2.mirror.action)
    <3>1. /\ Chain("action", x, s, o.mirror.action)
          /\ Leads("action", o.mirror.action, p, o.body.action)
      BY <1>1, <1>2, <2>1 DEF ActionInv
    <3>2. Chain("action", x, Sent(s, p), o.body.action)
      BY <1>2, <3>1, ChainSent
    <3> QED
      BY <1>3, <3>2 DEF Copied
  <2> QED
    BY <1>3, <2>1 DEF ActionInv
<1>8. PowersInv(o2, x, Sent(s, p), changed)
  <2>1. ASSUME "powers" \notin changed
        PROVE  \E v \in View : /\ v.low = o2.mirror.powers /\ v.high = o2.mirror.powers
                               /\ Chain("powers", x, Sent(s, p), v)
                               /\ Leads("powers", v, o2.tcp_packet, Present(o2))
    <3> DEFINE w == Exact(o.body)
    <3>1. PICK v \in View : Chain("powers", x, s, v) /\ Leads("powers", v, o.tcp_packet, Present(o))
      BY <1>1, <2>1 DEF PowersInv
    <3>2. Present(o2) = w
      <4>1. Given(o2.tcp_packet) = {}
        BY <1>3 DEF Given
      <4>2. /\ o2.body.powers \cup Given(o2.tcp_packet) = o.body.powers
            /\ o2.body.powers \cup o2.mirror.powers = o.body.powers
        BY <1>3, <4>1 DEF Copied
      <4> QED
        BY <1>3, <4>2 DEF Present, Exact
    <3>3. w \in View /\ w.low = o2.mirror.powers /\ w.high = o2.mirror.powers
      <4>1. o.body \in Body
        BY OwnedTypes
      <4> QED
        BY <1>3, <4>1 DEF Exact, View, Body, Copied
    <3> HIDE DEF w
    <3>4. Leads("powers", v, p, w)
      BY <1>2, <3>1 DEF w
    <3>5. Chain("powers", x, Sent(s, p), w)
      BY <1>2, <3>1, <3>4, ChainSent
    <3>6. Leads("powers", w, o2.tcp_packet, w)
      BY <1>3, LeadsNothing
    <3> QED
      BY <3>2, <3>3, <3>5, <3>6
  <2> QED
    BY <2>1 DEF PowersInv
<1> QED
  BY <1>2, <1>4, <1>5, <1>6, <1>7, <1>8 DEF EventInv

\* The packets are emptied when they are sent.
LEMMA WithFlushed ==
    ASSUME NEW m \in Machine
    PROVE  OtherPacket(m, <<>>, [m EXCEPT !.tcp_packet = <<>>, !.udp_packet = <<>>])
<1>1. <<>> \in Seq(TcpMessage) /\ <<>> \in Seq(UdpMessage)
  OBVIOUS
<1> QED
  BY <1>1 DEF Machine, OtherPacket, Kept

\* The result screen, send_player and OnInput, one after the other.
Prepared(o, shown, due_, compared, ready) ==
    /\ shown = DispWinnerAndContinue(o) /\ compared = SendPlayer(shown, due_)
    /\ ready = OnInputOwn(compared)

\* The frame of the owner, from the result screen to the sending of both packets.
LEMMA FrameIs ==
    ASSUME NEW o, Owned(o), NEW due_, NEW shown, NEW compared, NEW ready,
           Prepared(o, shown, due_, compared, ready)
    PROVE  /\ ready.udp_packet \in Seq(UdpMessage)
           /\ Framed(o, ready.tcp_packet,
                     OnControlOwn([ready EXCEPT !.tcp_packet = <<>>, !.udp_packet = <<>>]))
<1> DEFINE flushed == [ready EXCEPT !.tcp_packet = <<>>, !.udp_packet = <<>>]
           o2 == OnControlOwn(flushed)
<1>1. /\ Player(o) /\ o \in Machine /\ o.tcp_packet \in Seq(Messages(HookType))
      /\ shown = DispWinnerAndContinue(o) /\ compared = SendPlayer(shown, due_)
      /\ ready = OnInputOwn(compared)
  BY DEF Owned, Player, Prepared
<1>2. PICK p1 \in Grown({"S_WinData"}, o.tcp_packet) : OtherPacket(o, p1, shown)
  <2>1. SamePlayer(o, shown) \/ \E p \in Grown({"S_WinData"}, o.tcp_packet) : OtherPacket(o, p, shown)
    BY <1>1, ScreenShown
  <2>2. o.tcp_packet \in Grown({"S_WinData"}, o.tcp_packet)
    BY DEF Grown
  <2> QED
    BY <2>1, <2>2 DEF SamePlayer
<1>3. Player(shown) /\ shown.tcp_packet = p1 /\ shown.body = o.body /\ shown.mirror = o.mirror
  BY <1>1, <1>2 DEF OtherPacket, Kept, Player, Idle
<1>4. ~HoldsType(p1, "P_Action") /\ ~HoldsType(p1, "P_Powerups")
  BY <1>1, NotComparedYet
<1>5. /\ Player(compared) /\ compared.body = o.body /\ compared.mirror = Copied(o.body)
      /\ Compared(p1, o.body, o.mirror, compared.tcp_packet)
  BY <1>1, <1>3, <1>4, SendPlayerTells
<1>6. compared.tcp_packet \in Seq(TcpMessage)
  BY <1>5 DEF Player, Machine
<1>7. PICK p3 \in Grown({"I_Buttons"}, compared.tcp_packet) :
          \E p \in Grown({"I_Analog"}, p3) : OtherPacket(compared, p, ready)
  BY <1>1, <1>5, OnInputTells
<1>8. /\ Player(ready) /\ ready \in Machine
      /\ ready.tcp_packet \in Grown({"I_Analog"}, p3)
      /\ ready.body = o.body /\ ready.mirror = Copied(o.body)
  BY <1>5, <1>7 DEF OtherPacket, Kept, Player, Idle
<1>9. OtherPacket(ready, <<>>, flushed)
  BY <1>8, WithFlushed
<1> HIDE DEF flushed
<1>10. SamePlayer(flushed, o2)
  BY <1>9, OnControlSame DEF OtherPacket, Kept
<1> HIDE DEF o2
<1>11. /\ Player(o2) /\ o2.body = o.body /\ o2.mirror = Copied(o.body)
       /\ o2.tcp_packet = <<>>
  BY <1>8, <1>9, <1>10 DEF SamePlayer, OtherPacket, Kept, Player, Idle
<1>12. Packed(o, o.tcp_packet, ready.tcp_packet)
  BY <1>2, <1>5, <1>6, <1>7, <1>8 DEF Packed
<1>13. ready.udp_packet \in Seq(UdpMessage)
  BY <1>8 DEF Machine
<1> QED
  BY <1>11, <1>12, <1>13 DEF Framed, o2, flushed

-----------------------------------------------------------------------------
(* The other machine *)

\* y knows what x knew.
AsGood(x, y) == \A what \in What : \A a : Follows(what, x, a) => Follows(what, y, a)

\* The other machine changes and knows what it knew.
LEMMA OtherStays ==
    ASSUME NEW o, NEW x, NEW y, NEW s, NEW changed, EventInv(o, x, s, changed), AsGood(x, y)
    PROVE  EventInv(o, y, s, changed)
<1>1. ASSUME NEW what \in What, NEW v, Chain(what, x, s, v) PROVE Chain(what, y, s, v)
  <2>1. \A a : Follows(what, x, a) => Follows(what, y, a)
    BY DEF AsGood
  <2> QED
    BY <1>1, <2>1, ChainStays
<1>2. HPInv(o, y, s)
  BY <1>1 DEF EventInv, HPInv, What
<1>3. ActionInv(o, y, s, changed)
  BY <1>1 DEF EventInv, ActionInv, What
<1>4. PowersInv(o, y, s, changed)
  BY <1>1 DEF EventInv, PowersInv, What
<1> QED
  BY <1>2, <1>3, <1>4 DEF EventInv

LEMMA SameOther ==
    ASSUME NEW x, Replica(x), NEW y, SamePlayer(x, y)
    PROVE  Replica(y) /\ AsGood(x, y)
<1>1. /\ Replica(y) /\ y.body = x.body /\ y.write_player = x.write_player
      /\ y.mirror = x.mirror
  BY SameReplica DEF SamePlayer, OtherPacket
<1> QED
  BY <1>1 DEF AsGood, Follows

LEMMA DriftOther ==
    ASSUME NEW x, Replica(x), NEW c \in Coordinate
    PROVE  Replica([x EXCEPT !.body.position = c]) /\ AsGood(x, [x EXCEPT !.body.position = c])
<1> DEFINE b == [x.body EXCEPT !.position = c]
           y == [x EXCEPT !.body.position = c]
<1>1. x \in Machine /\ x.body \in Body
  BY BodyType DEF Replica
<1>2. /\ b \in Body /\ b.action = x.body.action /\ b.powers = x.body.powers
      /\ b.hp = x.body.hp /\ b.rings = x.body.rings /\ b.deaths = x.body.deaths
      /\ b.shown = x.body.shown
  BY <1>1 DEF Body
<1>3. y = [x EXCEPT !.body = b]
  OBVIOUS
<1> HIDE DEF b
<1>4. OtherBody(x, b, y)
  BY <1>1, <1>2, <1>3, WithBody
<1> HIDE DEF y
<1>5. Replica(y)
  BY <1>4 DEF OtherBody, Kept, Replica, Idle
<1>6. AsGood(x, y)
  BY <1>2, <1>4 DEF AsGood, Follows, OtherBody
<1> QED
  BY <1>5, <1>6 DEF y

\* The hooks leave a player alone that is not the machine's own.
LEMMA ReplayedOther ==
    ASSUME NEW x, Replica(x)
    PROVE  /\ AddRings_cpp(x, 1) = x /\ KillPlayer_cpp(x) = x /\ DamagePlayer_cpp(x) = x
           /\ Item_hax(x, "S_NBarrier") = x /\ DisplayItemBoxItem_hax(x, 1) = x
           /\ AddHP_cpp(x, -1) = x /\ OnWin(x) = x
BY DEF Replica, Idle, AddRings_cpp, KillPlayer_cpp, DamagePlayer_cpp, Item_hax,
       DisplayItemBoxItem_hax, AddHP_cpp, OnWin

LEMMA FrameOther ==
    ASSUME NEW x, Replica(x), NEW shown, shown = DispWinnerAndContinue(x)
    PROVE  /\ Replica(OnControlOther(OnInputOther(shown)))
           /\ AsGood(x, OnControlOther(OnInputOther(shown)))
<1>1. SamePlayer(x, shown)
  BY ScreenShown DEF Replica
<1>2. shown \in Machine
  BY <1>1 DEF SamePlayer, OtherPacket, Kept
<1>3. SamePlayer(shown, OnControlOther(OnInputOther(shown)))
  BY <1>2, OtherInputSame
<1>4. SamePlayer(x, OnControlOther(OnInputOther(shown)))
  BY <1>1, <1>3, SameTwice
<1> QED
  BY <1>4, SameOther

\* The other machine reads the next packet of the stream.
LEMMA TcpOther ==
    ASSUME NEW o, NEW x, Replica(x), NEW s \in Seq(Seq(TcpMessage)), s # <<>>, NEW changed,
           EventInv(o, x, s, changed)
    PROVE  /\ Replica(ReadAll(x, Head(s))) /\ Tail(s) \in Seq(Seq(TcpMessage))
           /\ EventInv(o, ReadAll(x, Head(s)), Tail(s), changed)
<1> DEFINE y == ReadAll(x, Head(s))
<1>1. Head(s) \in Seq(AnyMessage) /\ Tail(s) \in Seq(Seq(TcpMessage))
  BY HeadTailProperties, PacketTypes
<1>2. Replica(y)
  BY <1>1, ReadAllReplica
<1>3. \A what, v : Chain(what, x, s, v) => Chain(what, y, Tail(s), v)
  BY ChainRead
<1> HIDE DEF y
<1>4. EventInv(o, y, Tail(s), changed)
  <2>1. HPInv(o, y, Tail(s))
    BY <1>3 DEF EventInv, HPInv
  <2>2. ActionInv(o, y, Tail(s), changed)
    BY <1>3 DEF EventInv, ActionInv
  <2>3. PowersInv(o, y, Tail(s), changed)
    BY <1>3 DEF EventInv, PowersInv
  <2> QED
    BY <2>1, <2>2, <2>3 DEF EventInv
<1> QED
  BY <1>1, <1>2, <1>4 DEF y

\* A datagram, however late, leaves what the other machine knows.
LEMMA UdpOther ==
    ASSUME NEW x, Replica(x), NEW p \in Seq(UdpMessage)
    PROVE  Replica(ReadAll(x, p)) /\ AsGood(x, ReadAll(x, p))
<1>1. p \in Seq(AnyMessage)
  BY PacketTypes
<1>2. Replica(ReadAll(x, p))
  BY <1>1, ReadAllReplica
<1>3. ASSUME NEW what \in What, NEW v, NEW i \in DOMAIN p PROVE Turns(what, v, p[i], v)
  <2>1. p[i] \in UdpMessage
    BY ElementOfSeq, LenProperties
  <2>2. p[i] \in AnyMessage /\ p[i].type \in UdpType
    BY <2>1, PacketTypes, MessageFields DEF UdpMessage
  <2>3. p[i].type \notin HandledType \cup {"P_HP", "P_Action", "P_Powerups", "P_Damage", "P_Kill"}
    BY <2>2 DEF UdpType, HandledType, Item, Barriers
  <2> QED
    BY <2>2, <2>3, HPKept, ActionKept, PowersKept DEF What
<1>4. ASSUME NEW what \in What, NEW v, Follows(what, x, v)
      PROVE  Follows(what, ReadAll(x, p), v)
  <2>1. Leads(what, v, p, v)
    BY <1>1, <1>3, LeadsNowhere
  <2> QED
    BY <1>4, <2>1 DEF Leads
<1> QED
  BY <1>2, <1>4 DEF AsGood

-----------------------------------------------------------------------------
(* The invariant is inductive *)

\* The invariant, part by part.
LEMMA InvParts ==
    ASSUME Inv
    PROVE  /\ machine \in [{Owner, Other} -> Machine] /\ Owner # Other
           /\ Owned(owner) /\ Replica(other)
           /\ due \subseteq Timer /\ stream \in Seq(Seq(TcpMessage))
           /\ datagrams \in Seq(Seq(UdpMessage)) /\ Len(datagrams) <= MaxDatagrams
           /\ left \in Nat /\ mixed \subseteq {"powers", "action"}
           /\ EventInv(owner, other, stream, mixed)
BY DEF Inv, TypeInv, Owned, Owner, Other

LEMMA InvNext ==
    ASSUME machine' \in [{Owner, Other} -> Machine], Owned(owner'), Replica(other'),
           due' \subseteq Timer, stream' \in Seq(Seq(TcpMessage)),
           datagrams' \in Seq(Seq(UdpMessage)), Len(datagrams') <= MaxDatagrams,
           left' \in Nat, mixed' \subseteq {"powers", "action"},
           EventInv(owner', other', stream', mixed')
    PROVE  Inv'
BY DEF Inv, TypeInv, Owned

\* Something happens to the owner, and to the machine that replays the player.
LEMMA OwnerHappens ==
    ASSUME Inv, NEW kind, NEW m, Happens(kind, Owner, m),
           mixed' \subseteq {"powers", "action"},
           Owned(m), EventInv(m, other, stream, mixed')
    PROVE  Inv'
<1>1. /\ left' \in Nat /\ machine' = [machine EXCEPT ![Owner] = m]
      /\ due' = due /\ stream' = stream /\ datagrams' = datagrams
  BY InvParts DEF Happens, network
<1>2. owner' = m /\ other' = other /\ machine' \in [{Owner, Other} -> Machine]
  BY <1>1, InvParts DEF owner, other, Owned, Player
<1> QED
  BY <1>1, <1>2, InvParts, InvNext

\* Something happens to the other machine that leaves what it knows.
LEMMA OtherHappens ==
    ASSUME Inv, NEW kind, NEW m, Happens(kind, Other, m), mixed' = mixed,
           Replica(m), AsGood(other, m)
    PROVE  Inv'
<1>1. /\ left' \in Nat /\ machine' = [machine EXCEPT ![Other] = m]
      /\ due' = due /\ stream' = stream /\ datagrams' = datagrams
  BY InvParts DEF Happens, network
<1>2. owner' = owner /\ other' = m /\ machine' \in [{Owner, Other} -> Machine]
  BY <1>1, InvParts DEF owner, other, Replica
<1>3. EventInv(owner, m, stream, mixed)
  BY InvParts, OtherStays
<1> QED
  BY <1>1, <1>2, <1>3, InvParts, InvNext

\* A hook of the owner's game, or what it changes without telling.
LEMMA QuietOwned ==
    ASSUME Inv, NEW kind, NEW m, Quiet(kind, m), Owned(m), EventInv(m, other, stream, mixed)
    PROVE  Inv'
<1>1. Happens(kind, Owner, m) /\ mixed' = mixed
  BY DEF Quiet
<1>2. mixed' \subseteq {"powers", "action"} /\ EventInv(m, other, stream, mixed')
  BY <1>1, InvParts
<1> QED
  BY <1>1, <1>2, OwnerHappens

\* Something happens to the owner that leaves the player alone.
LEMMA QuietSame ==
    ASSUME Inv, NEW kind, NEW m, Quiet(kind, m), SamePlayer(owner, m)
    PROVE  Inv'
BY InvParts, SameOwned, QuietOwned

LEMMA WithPadOf ==
    ASSUME NEW m \in Machine, NEW c \in Stick
    PROVE  SamePlayer(m, [m EXCEPT !.pad.on = ~@]) /\ SamePlayer(m, [m EXCEPT !.pad.x = c])
<1>1. m.pad \in Pad
  BY DEF Machine
<1>2. [m.pad EXCEPT !.on = ~@] \in Pad /\ [m.pad EXCEPT !.x = c] \in Pad
  BY <1>1 DEF Pad
<1>3. /\ SamePlayer(m, [m EXCEPT !.pad = [m.pad EXCEPT !.on = ~@]])
      /\ SamePlayer(m, [m EXCEPT !.pad = [m.pad EXCEPT !.x = c]])
  BY <1>2, WithPad
<1> QED
  BY <1>3

\* Every action leaves the invariant true.
LEMMA OwnerTells ==
    ASSUME Inv,
           GetRings \/ ChangeHP \/ Die \/ BreakBox \/ ShowItem \/ Win
    PROVE  Inv'
<1>1. Owned(owner) /\ EventInv(owner, other, stream, mixed)
  BY InvParts
<1>2. CASE GetRings
  BY <1>1, <1>2, RingsOwned, QuietOwned DEF GetRings
<1>3. CASE ChangeHP
  <2>1. PICK n \in {-1, 1} : Quiet("hp", AddHP_cpp(owner, n))
    BY <1>3 DEF ChangeHP
  <2>2. n \in Int
    OBVIOUS
  <2> QED
    BY <1>1, <2>1, <2>2, HPOwned, QuietOwned
<1>4. CASE Die
  BY <1>1, <1>4, KillOwned, QuietOwned DEF Die
<1>5. CASE BreakBox
  <2>1. PICK item \in play \cap Item : Quiet(item, Item_hax(owner, item))
    BY <1>5 DEF BreakBox
  <2> QED
    BY <1>1, <2>1, ItemOwned, QuietOwned
<1>6. CASE ShowItem
  <2>1. PICK tnum \in {1, 2} : Quiet("show", DisplayItemBoxItem_hax(owner, tnum))
    BY <1>6 DEF ShowItem
  <2> QED
    BY <1>1, <2>1, ShowOwned, QuietOwned
<1>7. CASE Win
  BY <1>1, <1>7, WinOwned, QuietOwned DEF Win
<1> QED
  BY <1>2, <1>3, <1>4, <1>5, <1>6, <1>7

LEMMA OwnerIsHit ==
    ASSUME Inv, Hit
    PROVE  Inv'
<1>1. /\ ~Unharmed(owner) /\ Happens("hit", Owner, DamagePlayer_cpp(owner))
      /\ mixed' = mixed \cup Changed(owner)
  BY DEF Hit
<1>2. /\ Owned(DamagePlayer_cpp(owner))
      /\ EventInv(DamagePlayer_cpp(owner), other, stream, mixed')
  BY <1>1, InvParts, HitOwned
<1>3. mixed' \subseteq {"powers", "action"}
  BY <1>1, InvParts DEF Changed
<1> QED
  BY <1>1, <1>2, <1>3, OwnerHappens

LEMMA OwnerChanges ==
    ASSUME Inv, Recover \/ Act \/ Move \/ Turn \/ WearOff
    PROVE  Inv'
<1>1. Owned(owner) /\ EventInv(owner, other, stream, mixed)
  BY InvParts
<1>2. CASE Recover
  <2>1. /\ ~HoldsType(owner.tcp_packet, "P_Damage") /\ ~HoldsType(owner.tcp_packet, "P_Kill")
        /\ Quiet("recover", [owner EXCEPT !.body.action = "run"]) /\ "run" \in Action
    BY <1>2 DEF Recover, Action
  <2> QED
    BY <1>1, <2>1, RecoverOwned, QuietOwned
<1>3. CASE Act
  <2>1. PICK a \in {"run", "object"} :
            /\ owner.body.action \in {"run", "object"}
            /\ Quiet("act", [owner EXCEPT !.body.action = a])
    BY <1>3 DEF Act
  <2>2. ~HoldsType(owner.tcp_packet, "P_Damage") /\ ~HoldsType(owner.tcp_packet, "P_Kill")
    BY <1>1, <2>1 DEF EventInv, PacketInv
  <2>3. a \in Action
    BY DEF Action
  <2> QED
    BY <1>1, <2>1, <2>2, <2>3, RecoverOwned, QuietOwned
<1>4. CASE Move
  <2>1. PICK c \in Coordinate : Quiet("move", [owner EXCEPT !.body.position = c])
    BY <1>4 DEF Move
  <2> QED
    BY <1>1, <2>1, MoveOwned, QuietOwned
<1>5. CASE Turn
  BY <1>1, <1>5, TurnOwned, QuietOwned DEF Turn
<1>6. CASE WearOff
  BY <1>1, <1>6, WearOffOwned, QuietOwned DEF WearOff
<1> QED
  BY <1>2, <1>3, <1>4, <1>5, <1>6

LEMMA OwnerPlays ==
    ASSUME Inv, Button \/ PushStick
    PROVE  Inv'
<1>1. owner \in Machine
  BY InvParts DEF Owned, Player
<1>2. CASE Button
  <2>1. SamePlayer(owner, [owner EXCEPT !.pad.on = ~@])
    <3>1. 0 \in Stick
      BY DEF Stick
    <3> QED
      BY <1>1, <3>1, WithPadOf
  <2> QED
    BY <1>2, <2>1, QuietSame DEF Button
<1>3. CASE PushStick
  <2>1. PICK c \in Stick : Quiet("stick", [owner EXCEPT !.pad.x = c])
    BY <1>3 DEF PushStick
  <2> QED
    BY <1>1, <2>1, WithPadOf, QuietSame
<1> QED
  BY <1>2, <1>3

LEMMA OtherGame ==
    ASSUME Inv, Replayed \/ Drift
    PROVE  Inv'
<1>1. Replica(other) /\ other = machine[Other]
  BY InvParts DEF other
<1>2. CASE Replayed
  <2>1. Happens("replayed", Other, other) /\ mixed' = mixed
    BY <1>1, <1>2, ReplayedOther DEF Replayed
  <2>2. AsGood(other, other)
    BY DEF AsGood
  <2> QED
    BY <1>1, <2>1, <2>2, OtherHappens
<1>3. CASE Drift
  <2>1. PICK c \in Coordinate :
            Happens("drift", Other, [other EXCEPT !.body.position = c]) /\ mixed' = mixed
    BY <1>1, <1>3 DEF Drift
  <2> QED
    BY <1>1, <2>1, DriftOther, OtherHappens
<1> QED
  BY <1>2, <1>3

LEMMA ChooseInv ==
    ASSUME Inv, NEW side \in {Owner, Other}, Choose(side)
    PROVE  Inv'
<1>1. /\ owner = machine[Owner] /\ other = machine[Other] /\ Owned(owner) /\ Replica(other)
      /\ owner \in Machine /\ other \in Machine
  BY InvParts DEF owner, other, Owned, Player, Replica
<1>2. PICK choice \in {"select", "continue"} :
          Happens("choose", side, [machine[side] EXCEPT !.choice = choice]) /\ mixed' = mixed
  BY DEF Choose
<1>3. NoScreen \in Screen \cup {NoScreen} /\ TRUE \in BOOLEAN
  OBVIOUS
<1>4. ASSUME NEW m \in Machine PROVE SamePlayer(m, [m EXCEPT !.choice = choice])
  BY <1>3, WithChoice
<1>5. CASE side = Owner
  <2>1. Quiet("choose", [owner EXCEPT !.choice = choice])
    BY <1>1, <1>2, <1>5 DEF Quiet
  <2> QED
    BY <1>1, <1>4, <2>1, QuietSame
<1>6. CASE side = Other
  <2>1. Happens("choose", Other, [other EXCEPT !.choice = choice]) /\ mixed' = mixed
    BY <1>1, <1>2, <1>6
  <2>2. SamePlayer(other, [other EXCEPT !.choice = choice])
    BY <1>1, <1>4
  <2> QED
    BY <1>1, <2>1, <2>2, SameOther, OtherHappens
<1> QED
  BY <1>5, <1>6

LEMMA HappeningInv ==
    ASSUME Inv, Happening
    PROVE  Inv'
<1>1. CASE GetRings \/ ChangeHP \/ Die \/ BreakBox \/ ShowItem \/ Win
  BY <1>1, OwnerTells
<1>2. CASE Hit
  BY <1>2, OwnerIsHit
<1>3. CASE Recover \/ Act \/ Move \/ Turn \/ WearOff
  BY <1>3, OwnerChanges
<1>4. CASE Button \/ PushStick
  BY <1>4, OwnerPlays
<1>5. CASE Replayed \/ Drift
  BY <1>5, OtherGame
<1>6. CASE Choose(Owner) \/ Choose(Other)
  BY <1>6, ChooseInv
<1> QED
  BY <1>1, <1>2, <1>3, <1>4, <1>5, <1>6 DEF Happening

\* A packet is sent unless it is empty.
LEMMA SentType ==
    ASSUME NEW S, NEW s \in Seq(Seq(S)), NEW p \in Seq(S)
    PROVE  Sent(s, p) \in Seq(Seq(S))
BY AppendProperties DEF Sent

LEMMA OwnerFrameInv ==
    ASSUME Inv, OwnerFrame
    PROVE  Inv'
<1>1. PICK shown \in {DispWinnerAndContinue(owner)} :
      \E compared \in {SendPlayer(shown, due)} : \E ready \in {OnInputOwn(compared)} :
          /\ stream' = Sent(stream, ready.tcp_packet)
          /\ datagrams' = Sent(datagrams, ready.udp_packet)
          /\ Len(datagrams') <= MaxDatagrams
          /\ due' = StillDue(compared, due)
          /\ \E flushed \in {[ready EXCEPT !.tcp_packet = <<>>, !.udp_packet = <<>>]} :
                 machine' = [machine EXCEPT ![Owner] = OnControlOwn(flushed)]
          /\ UNCHANGED <<play, left, mixed>>
  BY DEF OwnerFrame
<1>2. PICK compared \in {SendPlayer(shown, due)} : \E ready \in {OnInputOwn(compared)} :
          /\ stream' = Sent(stream, ready.tcp_packet)
          /\ datagrams' = Sent(datagrams, ready.udp_packet)
          /\ Len(datagrams') <= MaxDatagrams
          /\ due' = StillDue(compared, due)
          /\ \E flushed \in {[ready EXCEPT !.tcp_packet = <<>>, !.udp_packet = <<>>]} :
                 machine' = [machine EXCEPT ![Owner] = OnControlOwn(flushed)]
          /\ UNCHANGED <<play, left, mixed>>
  BY <1>1
<1>3. PICK ready \in {OnInputOwn(compared)} :
          /\ stream' = Sent(stream, ready.tcp_packet)
          /\ datagrams' = Sent(datagrams, ready.udp_packet)
          /\ Len(datagrams') <= MaxDatagrams
          /\ due' = StillDue(compared, due)
          /\ \E flushed \in {[ready EXCEPT !.tcp_packet = <<>>, !.udp_packet = <<>>]} :
                 machine' = [machine EXCEPT ![Owner] = OnControlOwn(flushed)]
          /\ UNCHANGED <<play, left, mixed>>
  BY <1>2
<1> DEFINE o2 == OnControlOwn([ready EXCEPT !.tcp_packet = <<>>, !.udp_packet = <<>>])
<1>4. machine' = [machine EXCEPT ![Owner] = o2] /\ left' = left /\ mixed' = mixed
  BY <1>3
<1>5. Prepared(owner, shown, due, compared, ready)
  BY DEF Prepared
<1>6. ready.udp_packet \in Seq(UdpMessage) /\ Framed(owner, ready.tcp_packet, o2)
  BY <1>5, InvParts, FrameIs
<1> HIDE DEF o2
<1>7. /\ Owned(o2) /\ EventInv(o2, other, Sent(stream, ready.tcp_packet), mixed)
      /\ ready.tcp_packet \in Seq(TcpMessage)
  BY <1>6, InvParts, FramedOwned
<1>8. owner' = o2 /\ other' = other /\ machine' \in [{Owner, Other} -> Machine]
  BY <1>4, <1>7, InvParts DEF owner, other, Owned, Player
<1>9. stream' \in Seq(Seq(TcpMessage)) /\ datagrams' \in Seq(Seq(UdpMessage))
  BY <1>3, <1>6, <1>7, InvParts, SentType
<1>10. due' \subseteq Timer
  BY <1>3, InvParts DEF StillDue
<1> QED
  BY <1>3, <1>4, <1>7, <1>8, <1>9, <1>10, InvParts, InvNext

LEMMA OtherFrameInv ==
    ASSUME Inv, OtherFrame
    PROVE  Inv'
<1>1. PICK shown \in {DispWinnerAndContinue(machine[Other])} :
          machine' = [machine EXCEPT ![Other] = OnControlOther(OnInputOther(shown))]
  BY DEF OtherFrame
<1> DEFINE y == OnControlOther(OnInputOther(shown))
<1>2. /\ due' = due /\ stream' = stream /\ datagrams' = datagrams /\ left' = left
      /\ mixed' = mixed
  BY DEF OtherFrame, network
<1>3. Replica(y) /\ AsGood(other, y)
  <2>1. shown = DispWinnerAndContinue(other)
    BY <1>1 DEF other
  <2> QED
    BY <2>1, InvParts, FrameOther
<1> HIDE DEF y
<1>4. owner' = owner /\ other' = y /\ machine' \in [{Owner, Other} -> Machine]
  <2>1. machine' = [machine EXCEPT ![Other] = y]
    BY <1>1 DEF y
  <2> QED
    BY <1>3, <2>1, InvParts DEF owner, other, Replica
<1>5. EventInv(owner, y, stream, mixed)
  BY <1>3, InvParts, OtherStays
<1> QED
  BY <1>2, <1>3, <1>4, <1>5, InvParts, InvNext

LEMMA ReceiveTcpInv ==
    ASSUME Inv, ReceiveTcp
    PROVE  Inv'
<1> DEFINE y == ReadAll(other, Head(stream))
<1>1. /\ stream # <<>> /\ stream' = Tail(stream) /\ machine' = [machine EXCEPT ![Other] = y]
      /\ due' = due /\ datagrams' = datagrams /\ left' = left /\ mixed' = mixed
  BY DEF ReceiveTcp, ReceivePacket, other
<1>2. /\ Replica(y) /\ Tail(stream) \in Seq(Seq(TcpMessage))
      /\ EventInv(owner, y, Tail(stream), mixed)
  BY <1>1, InvParts, TcpOther
<1> HIDE DEF y
<1>3. owner' = owner /\ other' = y /\ machine' \in [{Owner, Other} -> Machine]
  BY <1>1, <1>2, InvParts DEF owner, other, Replica
<1> QED
  BY <1>1, <1>2, <1>3, InvParts, InvNext

\* A datagram less is under way.
LEMMA FewerDatagrams ==
    ASSUME NEW s \in Seq(Seq(UdpMessage)), NEW i \in DOMAIN s, Len(s) <= MaxDatagrams
    PROVE  /\ s[i] \in Seq(UdpMessage) /\ RemoveAt(s, i) \in Seq(Seq(UdpMessage))
           /\ Len(RemoveAt(s, i)) <= MaxDatagrams
<1> DEFINE Packet == Seq(UdpMessage)
<1>1. s \in Seq(Packet)
  OBVIOUS
<1> HIDE DEF Packet
<1>2. /\ Len(s) \in Nat /\ i \in 1..Len(s) /\ Len(s) - 1 \in Nat
      /\ \A j \in 1..Len(s) : s[j] \in Packet
  BY <1>1
<1> DEFINE a == SubSeq(s, 1, i - 1)
           b == SubSeq(s, i + 1, Len(s))
<1>3. a \in Seq(Packet) /\ Len(a) = i - 1
  <2>1. \A k \in 1..i - 1 : s[k] \in Packet
    BY <1>2
  <2>2. /\ SubSeq(s, 1, i - 1) \in Seq(Packet)
        /\ Len(SubSeq(s, 1, i - 1)) = IF 1 <= i - 1 THEN (i - 1) - 1 + 1 ELSE 0
    BY <2>1, SubSeqProperties
  <2> QED
    BY <1>2, <2>2
<1>4. b \in Seq(Packet) /\ Len(b) = Len(s) - i
  <2>1. \A k \in i + 1..Len(s) : s[k] \in Packet
    BY <1>2
  <2>2. /\ SubSeq(s, i + 1, Len(s)) \in Seq(Packet)
        /\ Len(SubSeq(s, i + 1, Len(s))) =
               IF i + 1 <= Len(s) THEN Len(s) - (i + 1) + 1 ELSE 0
    BY <1>1, <1>2, <2>1, SubSeqProperties
  <2> QED
    BY <1>2, <2>2
<1> HIDE DEF a, b
<1>5. a \o b \in Seq(Packet) /\ Len(a \o b) = Len(a) + Len(b)
  BY <1>3, <1>4, ConcatProperties
<1>6. RemoveAt(s, i) = a \o b
  BY DEF RemoveAt, a, b
<1>7. Len(a \o b) <= MaxDatagrams
  <2>1. Len(a) + Len(b) = Len(s) - 1
    BY <1>2, <1>3, <1>4
  <2> DEFINE n == Len(s)
  <2>2. n \in Nat /\ n <= MaxDatagrams /\ MaxDatagrams \in Nat
    BY <1>2, BoundsAssumption
  <2>3. Len(a \o b) = n - 1
    BY <1>5, <2>1
  <2> HIDE DEF n
  <2> QED
    BY <2>2, <2>3
<1> QED
  BY <1>2, <1>5, <1>6, <1>7 DEF Packet

LEMMA ReceiveUdpInv ==
    ASSUME Inv, NEW i \in DOMAIN datagrams, ReceiveUdp(i)
    PROVE  Inv'
<1> DEFINE y == ReadAll(other, datagrams[i])
<1>1. /\ datagrams' = RemoveAt(datagrams, i)
      /\ machine' = [machine EXCEPT ![Other] = y]
      /\ due' = due /\ stream' = stream /\ left' = left /\ mixed' = mixed
  BY DEF ReceiveUdp, ReceivePacket, other
<1>2. /\ datagrams[i] \in Seq(UdpMessage) /\ RemoveAt(datagrams, i) \in Seq(Seq(UdpMessage))
      /\ Len(RemoveAt(datagrams, i)) <= MaxDatagrams
  BY <1>1, InvParts, FewerDatagrams
<1>3. Replica(y) /\ AsGood(other, y)
  BY <1>2, InvParts, UdpOther
<1> HIDE DEF y
<1>4. EventInv(owner, y, stream, mixed)
  BY <1>3, InvParts, OtherStays
<1>5. owner' = owner /\ other' = y /\ machine' \in [{Owner, Other} -> Machine]
  BY <1>1, <1>3, InvParts DEF owner, other, Replica
<1> QED
  BY <1>1, <1>2, <1>3, <1>4, <1>5, InvParts, InvNext

\* Neither a timer nor a lost datagram concerns what is told by TCP.
LEMMA UntoldInv ==
    ASSUME Inv,
           \/ \E i \in DOMAIN datagrams : LoseUdp(i)
           \/ \E timer \in Timer : Elapse(timer)
           \/ UNCHANGED vars
    PROVE  Inv'
<1>1. machine' = machine /\ stream' = stream /\ left' = left /\ mixed' = mixed
  BY DEF LoseUdp, Elapse, vars, network
<1>2. /\ owner' = owner /\ other' = other
  BY <1>1 DEF owner, other
<1>3. due' \subseteq Timer
  BY InvParts DEF LoseUdp, Elapse, vars
<1>4. datagrams' \in Seq(Seq(UdpMessage)) /\ Len(datagrams') <= MaxDatagrams
  BY InvParts, FewerDatagrams DEF LoseUdp, Elapse, vars, network
<1> QED
  BY <1>1, <1>2, <1>3, <1>4, InvParts, InvNext

LEMMA NextInv ==
    ASSUME Inv, [Next]_vars
    PROVE  Inv'
<1>1. CASE Happening
  BY <1>1, HappeningInv
<1>2. CASE OwnerFrame
  BY <1>2, OwnerFrameInv
<1>3. CASE OtherFrame
  BY <1>3, OtherFrameInv
<1>4. CASE ReceiveTcp
  BY <1>4, ReceiveTcpInv
<1>5. ASSUME NEW i \in DOMAIN datagrams, ReceiveUdp(i) PROVE Inv'
  BY <1>5, ReceiveUdpInv
<1>6. CASE \/ \E i \in DOMAIN datagrams : LoseUdp(i)
           \/ \E timer \in Timer : Elapse(timer)
           \/ UNCHANGED vars
  BY <1>6, UntoldInv
<1> QED
  <2>1. CASE \E i \in DOMAIN datagrams : ReceiveUdp(i) \/ LoseUdp(i)
    BY <1>5, <1>6, <2>1
  <2> QED
    BY <1>1, <1>2, <1>3, <1>4, <1>6, <2>1 DEF Next

-----------------------------------------------------------------------------
LEMMA StartType ==
    /\ StartBody \in Body /\ Copied(StartBody) \in Mirror
    /\ StartPad \in Pad /\ [on |-> FALSE, x |-> 0] \in NetInput
    /\ 0 \in Stick /\ 0 \in Frames /\ Fresh \in Screen
<1>1. StartBody \in Body
  <2>1. <<>> \in Seq({1, 2})
    OBVIOUS
  <2> QED
    BY <2>1 DEF StartBody, Body, Action, Coordinate, Motion
<1>2. Copied(StartBody) \in Mirror
  BY <1>1 DEF Copied, Body, Mirror
<1>3. StartPad \in Pad /\ [on |-> FALSE, x |-> 0] \in NetInput /\ 0 \in Stick
  BY DEF StartPad, Pad, NetInput, Stick
<1>4. 0 \in Frames
  BY AnalogAssumption DEF Frames
<1> QED
  BY <1>1, <1>2, <1>3, <1>4, ScreenType

LEMMA StartMachineType ==
    ASSUME NEW side
    PROVE  LET m == StartMachine(side)
           IN  /\ m \in Machine /\ Idle(m) /\ m.mine = (side = Owner) /\ m.tcp_packet = <<>>
               /\ m.body = StartBody /\ m.mirror = Copied(StartBody) /\ m.write_player = FALSE
<1>1. <<>> \in Seq(TcpMessage) /\ <<>> \in Seq(UdpMessage)
  OBVIOUS
<1> QED
  BY <1>1, StartType DEF StartMachine, Machine, Idle

LEMMA InitInv ==
    ASSUME Init
    PROVE  Inv
<1>1. /\ machine = [side \in {Owner, Other} |-> StartMachine(side)]
      /\ due = {} /\ stream = <<>> /\ datagrams = <<>> /\ left \in Nat /\ mixed = {}
  BY PlaysAssumption DEF Init
<1>2. /\ Player(owner) /\ owner.body = StartBody /\ owner.mirror = Copied(StartBody)
      /\ owner.tcp_packet = <<>>
  BY <1>1, StartMachineType DEF owner, Player
<1>3. Replica(other) /\ other.body = StartBody /\ other.write_player = FALSE
  BY <1>1, StartMachineType DEF other, Replica, Owner, Other
<1>4. machine \in [{Owner, Other} -> Machine]
  BY <1>1, StartMachineType
<1>5. TypeInv
  <2>1. /\ <<>> \in Seq(Messages(HookType)) /\ <<>> \in Seq(Seq(TcpMessage))
        /\ <<>> \in Seq(Seq(UdpMessage)) /\ Len(<<>>) <= MaxDatagrams
    BY BoundsAssumption
  <2> QED
    BY <1>1, <1>2, <1>3, <1>4, <2>1 DEF TypeInv
<1>6. PacketInv(owner)
  BY <1>2 DEF PacketInv, HoldsType
<1>7. HPInv(owner, other, stream)
  <2>1. Follows("hp", other, StartBody.hp)
    BY <1>3 DEF Follows
  <2>2. Chain("hp", other, <<>>, StartBody.hp)
    BY <2>1, ChainStart
  <2>3. Leads("hp", StartBody.hp, <<>>, StartBody.hp)
    BY LeadsNothing
  <2> QED
    BY <1>1, <1>2, <2>2, <2>3 DEF HPInv
<1>8. ActionInv(owner, other, stream, mixed)
  <2>1. Follows("action", other, owner.mirror.action)
    BY <1>2, <1>3 DEF Follows, Copied
  <2>2. Chain("action", other, <<>>, owner.mirror.action)
    BY <2>1, ChainStart
  <2> QED
    BY <1>1, <1>2, <2>2 DEF ActionInv, HoldsType
<1>9. PowersInv(owner, other, stream, mixed)
  <2> DEFINE v == Exact(StartBody)
  <2>1. /\ v \in View /\ v.low = owner.mirror.powers /\ v.high = owner.mirror.powers
        /\ Follows("powers", other, v)
    BY <1>2, <1>3, StartType DEF Exact, View, Body, Copied, Follows
  <2>2. Present(owner) = v
    <3>1. Given(owner.tcp_packet) = {}
      BY <1>2 DEF Given, HoldsType
    <3>2. /\ owner.body.powers \cup Given(owner.tcp_packet) = StartBody.powers
          /\ owner.body.powers \cup owner.mirror.powers = StartBody.powers
      BY <1>2, <3>1 DEF Copied
    <3> QED
      BY <1>2, <3>2 DEF Present, Exact
  <2> HIDE DEF v
  <2>3. Chain("powers", other, <<>>, v) /\ Leads("powers", v, <<>>, v)
    BY <2>1, ChainStart, LeadsNothing
  <2> QED
    BY <1>1, <1>2, <2>1, <2>2, <2>3 DEF PowersInv
<1> QED
  BY <1>5, <1>6, <1>7, <1>8, <1>9 DEF Inv, EventInv

LEMMA Invariance == Spec => []Inv
<1>1. Init => Inv
  BY InitInv
<1>2. Inv /\ [Next]_vars => Inv'
  BY NextInv
<1> QED
  BY <1>1, <1>2, PTL DEF Spec

-----------------------------------------------------------------------------
(* Theorems *)

\* What TypeOK says of a packet and of a machine.
LEMMA PacketsOK ==
    ASSUME NEW p \in Seq(AnyMessage)
    PROVE  PacketOK(p)
<1> SUFFICES ASSUME NEW i \in DOMAIN p PROVE p[i].data \in Data(p[i].type)
  BY DEF PacketOK
<1>1. p[i] \in AnyMessage
  BY ElementOfSeq, LenProperties
<1>2. p[i].data \in Content(p[i].type)
  BY <1>1, MessageFields DEF AnyMessage
<1>3. CASE p[i].type = "S_Rings"
  <2>1. p[i].data \in Int \X Int
    BY <1>2, <1>3, ContentOf
  <2>2. Data("S_Rings") = Int \X Int
    BY DEF Data, Item, Barriers
  <2> QED
    BY <1>3, <2>1, <2>2
<1>4. CASE p[i].type # "S_Rings"
  BY <1>2, <1>4 DEF Content
<1> QED
  BY <1>3, <1>4

LEMMA MachineOK ==
    ASSUME NEW m \in Machine, Idle(m)
    PROVE  /\ m.body.action \in Action /\ m.body.powers \subseteq Item
           /\ m.body.position \in Coordinate /\ m.body.motion \in Motion
           /\ m.body.rings \in Nat /\ m.body.deaths \in Nat /\ m.body.hp \in Int
           /\ m.body.shown \in Seq({1, 2})
           /\ m.mirror.action \in Action /\ m.mirror.powers \subseteq Item
           /\ m.pad.x \in Stick /\ m.net_input.x \in Stick
           /\ m.AnalogThing \in Stick \cup {OtherCamera} /\ m.net_analog \in Stick
           /\ m.analog_timer < AnalogFrames /\ m.angle_timer < AnalogFrames
           /\ m.toggle_hack /\ ~m.called_damage
           /\ m.screen \in Screen \cup {NoScreen}
           /\ m.local_data \in Screen /\ m.remote_data \in Screen
           /\ PacketOK(m.tcp_packet) /\ PacketOK(m.udp_packet)
<1>1. m.body \in Body /\ m.mirror \in Mirror
  BY BodyType
<1>2. /\ m.body.action \in Action /\ m.body.powers \subseteq Item
      /\ m.body.position \in Coordinate /\ m.body.motion \in Motion
      /\ m.body.rings \in Nat /\ m.body.deaths \in Nat /\ m.body.hp \in Int
      /\ m.body.shown \in Seq({1, 2})
  BY <1>1 DEF Body
<1>3. m.mirror.action \in Action /\ m.mirror.powers \subseteq Item
  BY <1>1 DEF Mirror
<1>4. m.pad.x \in Stick /\ m.net_input.x \in Stick
  <2>1. m.pad \in Pad /\ m.net_input \in NetInput
    BY DEF Machine
  <2> QED
    BY <2>1 DEF Pad, NetInput
<1>5. m.analog_timer < AnalogFrames /\ m.angle_timer < AnalogFrames
  <2>1. m.analog_timer \in Frames /\ m.angle_timer \in Frames
    BY DEF Machine
  <2> QED
    BY <2>1, AnalogAssumption DEF Frames
<1>6. /\ m.AnalogThing \in Stick \cup {OtherCamera} /\ m.net_analog \in Stick
      /\ m.screen \in Screen \cup {NoScreen}
      /\ m.local_data \in Screen /\ m.remote_data \in Screen
  BY DEF Machine
<1>7. PacketOK(m.tcp_packet) /\ PacketOK(m.udp_packet)
  <2>1. m.tcp_packet \in Seq(TcpMessage) /\ m.udp_packet \in Seq(UdpMessage)
    BY DEF Machine
  <2>2. m.tcp_packet \in Seq(AnyMessage) /\ m.udp_packet \in Seq(AnyMessage)
    BY <2>1, PacketTypes
  <2> QED
    BY <2>2, PacketsOK
<1> QED
  BY <1>2, <1>3, <1>4, <1>5, <1>6, <1>7 DEF Idle

\* Both machines, the packets and the network hold what their types call for, whatever
\* happens to the player, arrives or is lost: the hooks' switches are reset after every
\* call, and a packet is read by the types it was made of.
THEOREM TypeOKHolds == Spec => []TypeOK
<1>1. ASSUME Inv PROVE TypeOK
  <2>1. ASSUME NEW side \in {Owner, Other} PROVE machine[side] \in Machine /\ Idle(machine[side])
    <3>1. /\ owner = machine[Owner] /\ other = machine[Other]
          /\ owner \in Machine /\ Idle(owner) /\ other \in Machine /\ Idle(other)
      BY <1>1, InvParts DEF owner, other, Owned, Player, Replica
    <3> QED
      BY <3>1
  <2>2. ASSUME NEW i \in DOMAIN stream PROVE PacketOK(stream[i])
    <3>1. stream \in Seq(Seq(TcpMessage))
      BY <1>1, InvParts
    <3>2. stream[i] \in Seq(TcpMessage)
      BY <3>1, ElementOfSeq, LenProperties
    <3> QED
      BY <3>2, PacketTypes, PacketsOK
  <2>3. ASSUME NEW i \in DOMAIN datagrams PROVE PacketOK(datagrams[i])
    <3>1. datagrams \in Seq(Seq(UdpMessage))
      BY <1>1, InvParts
    <3>2. datagrams[i] \in Seq(UdpMessage)
      BY <3>1, ElementOfSeq, LenProperties
    <3> QED
      BY <3>2, PacketTypes, PacketsOK
  <2>4. due \subseteq Timer /\ Len(datagrams) <= MaxDatagrams /\ left \in Nat
    BY <1>1, InvParts
  <2> QED
    BY <2>1, <2>2, <2>3, <2>4, MachineOK DEF TypeOK
<1> QED
  BY <1>1, Invariance, PTL

\* What the other machine applies it never tells back, nor what its own game makes of the
\* player: the hooks leave a player alone who is not the machine's own (Damage.cpp:50,
\* AddRings.cpp:20), and the handlers silence them.
THEOREM NothingEchoedHolds == Spec => []NothingEchoed
<1>1. ASSUME Inv PROVE NothingEchoed
  BY <1>1, InvParts DEF NothingEchoed, Replica
<1> QED
  BY <1>1, Invariance, PTL

\* Once all that the owner has told by TCP has arrived, both machines have the same HP,
\* whatever the datagrams in between made the other one write (PacketBroker.cpp:1182-1190).
THEOREM HPAgreesHolds == Spec => []HPAgrees
<1>1. ASSUME Inv PROVE HPAgrees
  <2> SUFFICES ASSUME Settled PROVE other.body.hp = owner.body.hp
    BY DEF HPAgrees
  <2>1. PICK v : Chain("hp", other, <<>>, v) /\ Leads("hp", v, <<>>, owner.body.hp)
    BY <1>1, InvParts DEF EventInv, HPInv, Settled
  <2>2. Replica(other) /\ ReadAll(other, <<>>) = other
    BY <1>1, InvParts, ReadNothing
  <2>3. Follows("hp", other, v)
    BY <2>1, ChainSettled
  <2>4. Follows("hp", other, owner.body.hp)
    BY <2>1, <2>2, <2>3 DEF Leads
  <2> QED
    BY <2>4 DEF Follows
<1> QED
  BY <1>1, Invariance, PTL

\* What the other machine knows of the powers when everything has arrived.
LEMMA SettledPowers ==
    ASSUME Inv, Settled, "powers" \notin mixed
    PROVE  Follows("powers", other, Present(owner))
<1>1. PICK v \in View : Chain("powers", other, <<>>, v) /\ Leads("powers", v, <<>>, Present(owner))
  BY InvParts DEF EventInv, PowersInv, Settled
<1>2. Replica(other) /\ ReadAll(other, <<>>) = other
  BY InvParts, ReadNothing
<1>3. Follows("powers", other, v)
  BY <1>1, ChainSettled
<1> QED
  BY <1>1, <1>2, <1>3 DEF Leads

\* Both machines count the same rings and lives and have shown the same items, once all
\* that the owner has told has arrived, however hits, items, deaths and rings follow upon
\* each other (AddRings.cpp:12-31, Damage.cpp:41-84), unless a hit came in the very frame
\* the powers changed in.
THEOREM EventsAgreeHolds == Spec => []EventsAgree
<1>1. ASSUME Inv PROVE EventsAgree
  <2> SUFFICES ASSUME Settled, "powers" \notin mixed
               PROVE  /\ other.body.rings = owner.body.rings
                      /\ other.body.deaths = owner.body.deaths
                      /\ other.body.shown = owner.body.shown
    BY DEF EventsAgree
  <2>1. Follows("powers", other, Present(owner))
    BY <1>1, SettledPowers
  <2> QED
    BY <2>1 DEF Follows, Present
<1> QED
  BY <1>1, Invariance, PTL

\* The powers and the action are the same on both machines once the owner's have been
\* compared and everything has arrived, although every message of a hook writes the whole
\* copy back (PacketBroker.cpp:358-374, 1143), each unless a hit came in the very frame it
\* changed in.
THEOREM MirrorAgreesHolds == Spec => []MirrorAgrees
<1>1. ASSUME Inv PROVE MirrorAgrees
  <2> SUFFICES ASSUME Settled, Copied(owner.body) = owner.mirror,
                      NEW what \in {"powers", "action"} \ mixed
               PROVE  other.body[what] = owner.body[what]
    BY DEF MirrorAgrees
  <2>1. owner.mirror.action = owner.body.action /\ owner.mirror.powers = owner.body.powers
    BY DEF Copied
  <2>2. CASE what = "powers"
    <3>1. Follows("powers", other, Present(owner))
      BY <1>1, <2>2, SettledPowers
    <3>2. other.body.powers = owner.body.powers
      BY <2>1, <3>1 DEF Follows, Present
    <3>3. other.body \in Body /\ owner.body \in Body
      BY <1>1, InvParts, SeenType, OwnedTypes
    <3> QED
      BY <2>2, <3>2, <3>3 DEF Body
  <2>3. CASE what = "action"
    <3>1. Chain("action", other, <<>>, owner.body.action)
      BY <1>1, <2>1, <2>3, InvParts DEF EventInv, ActionInv, Settled
    <3>2. Follows("action", other, owner.body.action)
      BY <3>1, ChainSettled
    <3>3. other.body \in Body /\ owner.body \in Body
      BY <1>1, InvParts, SeenType, OwnedTypes
    <3> QED
      BY <2>3, <3>2, <3>3 DEF Follows, Body
  <2> QED
    BY <2>2, <2>3
<1> QED
  BY <1>1, Invariance, PTL

================================================================================
