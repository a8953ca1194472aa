--------------------------- MODULE UdpSequenceProofs ---------------------------
(***************************************************************************)
(* Theorems about UdpSequence, for every SeqMax and on any network: the    *)
(* type invariant, that the filter never refuses the successor of the      *)
(* datagram that arrived last, and that what it accepts after it is later  *)
(* or the numbers wrapped.                                                 *)
(*                                                                         *)
(* The numbers are tied to index, which does not wrap: a datagram's number *)
(* is (index - 1) % SeqMax + 1, and what the receiver remembers is         *)
(* arrived % SeqMax or, after ForgetSequences, 0 (Numbered).               *)
(***************************************************************************)
EXTENDS UdpSequence, SequenceTheorems, TLAPS

(* Arithmetic of the wrap *)

\* A number and a remainder determine the quotient.
LEMMA QuotientUnique ==
    ASSUME NEW m \in Nat \ {0}, NEW q1 \in Int, NEW q2 \in Int,
           NEW r1 \in 0..(m - 1), NEW r2 \in 0..(m - 1),
           m * q1 + r1 = m * q2 + r2
    PROVE  r1 = r2
<1>1. ASSUME q1 < q2 PROVE FALSE
  <2>1. PICK k \in Nat : q2 = q1 + 1 + k
    BY <1>1
  <2>2. m * q2 = m * q1 + m + m * k
    BY <2>1
  <2>3. m * k >= 0
    OBVIOUS
  <2> QED BY <2>2, <2>3
<1>2. ASSUME q2 < q1 PROVE FALSE
  <2>1. PICK k \in Nat : q1 = q2 + 1 + k
    BY <1>2
  <2>2. m * q1 = m * q2 + m + m * k
    BY <2>1
  <2>3. m * k >= 0
    OBVIOUS
  <2> QED BY <2>2, <2>3
<1>3. q1 = q2
  BY <1>1, <1>2
<1> QED BY <1>3

\* A natural number is its quotient and its remainder.
LEMMA Division ==
    ASSUME NEW a \in Nat, NEW m \in Nat \ {0}
    PROVE  /\ a % m \in 0..(m - 1)
           /\ \E q \in Int : a = m * q + (a % m)
<1>1. a % m \in 0..(m - 1)
  OBVIOUS
<1>2. a \div m \in Int /\ a = m * (a \div m) + (a % m)
  OBVIOUS
<1> QED BY <1>1, <1>2

\* The step of the numbers is the step of the index.
LEMMA ModSuccessor ==
    ASSUME NEW a \in Nat, NEW m \in Nat \ {0}
    PROVE  ((a % m) + 1) % m = (a + 1) % m
<1> DEFINE r == a % m
<1>1. r \in 0..(m - 1) /\ \E q \in Int : a = m * q + r
  BY Division
<1>2. PICK q \in Int : a = m * q + r
  BY <1>1
<1>3. (r + 1) % m \in 0..(m - 1) /\ \E k \in Int : r + 1 = m * k + ((r + 1) % m)
  BY <1>1, Division, r + 1 \in Nat
<1>4. PICK k \in Int : r + 1 = m * k + ((r + 1) % m)
  BY <1>3
<1>5. (a + 1) % m \in 0..(m - 1) /\ \E j \in Int : a + 1 = m * j + ((a + 1) % m)
  BY Division, a + 1 \in Nat
<1>6. PICK j \in Int : a + 1 = m * j + ((a + 1) % m)
  BY <1>5
<1> HIDE DEF r
<1> DEFINE x == (r + 1) % m
           y == (a + 1) % m
<1>7. x \in 0..(m - 1) /\ y \in 0..(m - 1)
  BY <1>3, <1>5
<1>8. m * (q + k) + x = m * j + y
  <2>1. m * (q + k) = m * q + m * k
    OBVIOUS
  <2>2. a + 1 = m * q + m * k + x
    BY <1>1, <1>2, <1>4, <1>7
  <2> HIDE DEF x
  <2> QED BY <2>1, <2>2, <1>6, <1>7
<1>9. q + k \in Int
  OBVIOUS
<1> HIDE DEF x, y
<1>10. x = y
  BY <1>7, <1>8, <1>9, QuotientUnique
<1> QED BY <1>10 DEF x, y, r

(* The datagrams on the way *)

\* Taking one element out leaves a sequence of the others.
LEMMA WithoutElements ==
    ASSUME NEW S, NEW s \in Seq(S), NEW i \in DOMAIN s
    PROVE  /\ Without(s, i) \in Seq(S)
           /\ \A k \in DOMAIN Without(s, i) : \E j \in DOMAIN s : Without(s, i)[k] = s[j]
<1> DEFINE front == SubSeq(s, 1, i - 1)
           back == SubSeq(s, i + 1, Len(s))
<1>1. i \in 1..Len(s) /\ Len(s) \in Nat
  OBVIOUS
<1>2. /\ front \in Seq(S) /\ Len(front) = i - 1
      /\ \A k \in 1..(i - 1) : front[k] = s[k]
  BY <1>1
<1>3. /\ back \in Seq(S) /\ Len(back) = Len(s) - i
      /\ \A k \in 1..(Len(s) - i) : back[k] = s[i + k]
  BY <1>1
<1> HIDE DEF front, back
<1>4. front \o back \in Seq(S) /\ Len(front \o back) = Len(s) - 1
  BY <1>1, <1>2, <1>3
<1>5. ASSUME NEW k \in 1..(Len(s) - 1)
      PROVE  \E j \in DOMAIN s : (front \o back)[k] = s[j]
  <2>0. k \in Int /\ i \in Int /\ Len(s) \in Int /\ k >= 1 /\ k <= Len(s) - 1
    BY <1>1
  <2>1. CASE k <= i - 1
    BY <2>1, <1>1, <1>2, <1>3
  <2>2. CASE k > i - 1
    <3>1. (front \o back)[k] = back[k - (i - 1)]
      <4>1. k \in 1..(Len(front) + Len(back)) /\ k > Len(front)
        BY <2>2, <2>0, <1>2, <1>3
      <4>2. \A j \in 1..(Len(front) + Len(back)) :
               (front \o back)[j] = IF j <= Len(front) THEN front[j] ELSE back[j - Len(front)]
        BY <1>2, <1>3, ConcatProperties
      <4>3. ~(k <= Len(front)) /\ Len(front) = i - 1
        BY <4>1, <2>2, <2>0, <1>2
      <4> QED BY <4>1, <4>2, <4>3
    <3>2. k - (i - 1) \in 1..(Len(s) - i)
      BY <2>2, <2>0
    <3>3. (front \o back)[k] = s[i + (k - (i - 1))]
      BY <3>1, <3>2, <1>3
    <3> QED BY <3>3, <2>2, <1>1
  <2>3. k <= i - 1 \/ k > i - 1
    BY <2>0
  <2> QED BY <2>1, <2>2, <2>3
<1>6. Without(s, i) = front \o back
  BY DEF Without, front, back
<1>7. DOMAIN (front \o back) = 1..(Len(s) - 1)
  BY <1>4
<1> QED BY <1>4, <1>5, <1>6, <1>7

-----------------------------------------------------------------------------
(* The type invariant *)

\* The numbers never leave the range in which read tells them apart: no datagram has
\* the number 0, for any SeqMax and on any network.
THEOREM TypeCorrect == Spec => []TypeOK
<1>1. Init => TypeOK
  BY SeqAssumption DEF Init, TypeOK, Datagram
<1>2. TypeOK /\ [Next]_vars => TypeOK'
  <2> SUFFICES ASSUME TypeOK, [Next]_vars PROVE TypeOK'
    OBVIOUS
  <2>1. CASE UNCHANGED vars
    BY <2>1 DEF TypeOK, vars
  <2>2. ASSUME NEW p \in Player, Send(p) PROVE TypeOK'
    <3> DEFINE d == [node |-> p, sequence |-> sequence[p], index |-> sent[p] + 1]
    <3>1. d \in Datagram
      BY DEF TypeOK, Datagram
    <3>2. network' \in Seq(Datagram)
      BY <3>1, <2>2, AppendProperties DEF Send, TypeOK
    <3>3. sequence' \in [Player -> 1..SeqMax]
      <4>1. sequence[p] \in Nat /\ sequence \in [Player -> 1..SeqMax]
        BY SeqAssumption DEF TypeOK
      <4>2. (sequence[p] % SeqMax) + 1 \in 1..SeqMax
        <5>1. sequence[p] % SeqMax \in 0..(SeqMax - 1)
          BY <4>1, Division, SeqAssumption
        <5> QED BY <5>1, SeqAssumption
      <4>3. sequence' = [sequence EXCEPT ![p] = (sequence[p] % SeqMax) + 1]
        BY <2>2 DEF Send, NextSequence
      <4> QED BY <4>1, <4>2, <4>3
    <3>4. sent' \in [Player -> Nat]
      BY <2>2 DEF Send, TypeOK
    <3> QED BY <2>2, <3>2, <3>3, <3>4 DEF Send, TypeOK
  <2>3. ASSUME NEW i \in 1..Window, Receive(i) PROVE TypeOK'
    <3>1. i \in DOMAIN network /\ network[i] \in Datagram
      BY <2>3 DEF Receive, TypeOK
    <3>2. network' \in Seq(Datagram)
      BY <2>3, <3>1, WithoutElements DEF Receive, TypeOK
    <3> DEFINE d == network[i]
    <3>3. d.node \in Player /\ d.sequence \in 1..SeqMax /\ d.index \in Nat
      BY <3>1 DEF Datagram
    <3>4. sequences' \in [Player -> 0..(SeqMax - 1)]
      <4>1. sequences' = [sequences EXCEPT ![d.node] = d.sequence % SeqMax]
        BY <2>3 DEF Receive, Remembered
      <4>2. d.sequence % SeqMax \in 0..(SeqMax - 1)
        BY <3>3, SeqAssumption
      <4> HIDE DEF d
      <4> QED BY <4>1, <4>2, <3>3 DEF TypeOK
    <3>5. arrived' \in [Player -> Nat]
      BY <2>3, <3>3 DEF Receive, TypeOK
    <3>6. held' \in [Player -> Nat] /\ refused' \in [Player -> Nat]
      <4>1. \/ held' = held
            \/ held' = [held EXCEPT ![d.node] = d.index]
        BY <2>3 DEF Receive
      <4>2. \/ refused' = [refused EXCEPT ![d.node] = 0]
            \/ refused' = [refused EXCEPT ![d.node] = @ + 1]
            \/ refused' = [refused EXCEPT ![d.node] = @]
        BY <2>3 DEF Receive
      <4> HIDE DEF d
      <4>3. d.node \in Player /\ d.index \in Nat
        BY <3>3
      <4>4. held \in [Player -> Nat] /\ refused \in [Player -> Nat]
        BY DEF TypeOK
      <4>5. refused[d.node] \in Nat
        BY <4>3, <4>4
      <4>6. held' \in [Player -> Nat]
        BY <4>1, <4>3, <4>4
      <4>7. refused' \in [Player -> Nat]
        BY <4>2, <4>3, <4>4, <4>5
      <4> QED BY <4>6, <4>7
    <3>7. UNCHANGED <<sequence, sent>>
      BY <2>3 DEF Receive
    <3> QED BY <3>2, <3>4, <3>5, <3>6, <3>7 DEF TypeOK
  <2>4. CASE Lose
    <3>1. network' \in Seq(Datagram)
      BY <2>4, HeadTailProperties DEF Lose, TypeOK
    <3> QED BY <2>4, <3>1 DEF Lose, TypeOK
  <2>5. CASE ForgetSequences
    BY <2>5, SeqAssumption DEF ForgetSequences, TypeOK
  <2> QED BY <2>1, <2>2, <2>3, <2>4, <2>5 DEF Next
<1> QED BY <1>1, <1>2, PTL DEF Spec


-----------------------------------------------------------------------------
(* The successor is accepted *)

\* How the numbers depend on the index, which does not wrap.
Numbered ==
    /\ \A p \in Player : sequence[p] = (sent[p] % SeqMax) + 1
    /\ \A k \in DOMAIN network :
           /\ network[k].index >= 1
           /\ network[k].sequence = ((network[k].index - 1) % SeqMax) + 1
    /\ \A p \in Player : sequences[p] \in {0, arrived[p] % SeqMax}

LEMMA NumberedInvariant == Spec => []Numbered
<1>1. Init => Numbered
  <2>1. 0 % SeqMax = 0
    BY SeqAssumption
  <2> QED BY <2>1, SeqAssumption DEF Init, Numbered
<1>2. TypeOK /\ Numbered /\ [Next]_vars => Numbered'
  <2> SUFFICES ASSUME TypeOK, Numbered, [Next]_vars PROVE Numbered'
    OBVIOUS
  <2>1. CASE UNCHANGED vars
    BY <2>1 DEF Numbered, vars
  <2>2. ASSUME NEW p \in Player, Send(p) PROVE Numbered'
    <3> DEFINE d == [node |-> p, sequence |-> sequence[p], index |-> sent[p] + 1]
    <3>1. d \in Datagram
      BY DEF TypeOK, Datagram
    <3>2. \A q \in Player : sequence'[q] = (sent'[q] % SeqMax) + 1
      <4>1. ((sent[p] % SeqMax) + 1) % SeqMax = (sent[p] + 1) % SeqMax
        BY ModSuccessor, SeqAssumption DEF TypeOK
      <4>2. sent'[p] = sent[p] + 1 /\ sequence'[p] = ((sent[p] + 1) % SeqMax) + 1
        BY <2>2, <4>1 DEF Send, TypeOK, Numbered, NextSequence
      <4>3. \A q \in Player \ {p} : sent'[q] = sent[q] /\ sequence'[q] = sequence[q]
        BY <2>2 DEF Send, TypeOK
      <4> QED BY <4>2, <4>3 DEF Numbered
    <3>3. /\ network' \in Seq(Datagram) /\ Len(network') = Len(network) + 1
          /\ \A k \in 1..Len(network) : network'[k] = network[k]
          /\ network'[Len(network) + 1] = d
      BY <2>2, <3>1, AppendProperties DEF Send, TypeOK
    <3>4. ASSUME NEW k \in DOMAIN network'
          PROVE  /\ network'[k].index >= 1
                 /\ network'[k].sequence = ((network'[k].index - 1) % SeqMax) + 1
      <4>1. CASE k = Len(network) + 1
        <5>1. network'[k] = d
          BY <4>1, <3>3
        <5>2. d.index = sent[p] + 1 /\ d.sequence = (sent[p] % SeqMax) + 1
          BY DEF Numbered
        <5>3. sent[p] \in Nat /\ (sent[p] + 1) - 1 = sent[p]
          BY DEF TypeOK
        <5> HIDE DEF d
        <5>4. network'[k].index - 1 = sent[p] /\ network'[k].index >= 1
          BY <5>1, <5>2, <5>3
        <5>5. network'[k].sequence = (sent[p] % SeqMax) + 1
          BY <5>1, <5>2
        <5> QED BY <5>4, <5>5
      <4>2. CASE k \in 1..Len(network)
        <5>1. k \in DOMAIN network /\ network'[k] = network[k]
          BY <4>2, <3>3 DEF TypeOK
        <5> QED BY <5>1 DEF Numbered
      <4>3. k \in 1..(Len(network) + 1)
        BY <3>3
      <4> QED BY <4>1, <4>2, <4>3 DEF TypeOK
    <3>5. UNCHANGED <<sequences, arrived>>
      BY <2>2 DEF Send
    <3> QED BY <3>2, <3>4, <3>5 DEF Numbered
  <2>3. ASSUME NEW i \in 1..Window, Receive(i) PROVE Numbered'
    <3> DEFINE d == network[i]
    <3>1. i \in DOMAIN network /\ d \in Datagram
      BY <2>3 DEF Receive, TypeOK
    <3>2. \A k \in DOMAIN network' : \E j \in DOMAIN network : network'[k] = network[j]
      BY <2>3, <3>1, WithoutElements DEF Receive, TypeOK
    <3>3. \A k \in DOMAIN network' :
             /\ network'[k].index >= 1
             /\ network'[k].sequence = ((network'[k].index - 1) % SeqMax) + 1
      BY <3>2 DEF Numbered
    <3>4. d.node \in Player /\ d.index \in Nat \ {0}
      BY <3>1 DEF Datagram, Numbered
    <3>5. d.sequence % SeqMax = d.index % SeqMax
      <4>1. d.sequence = ((d.index - 1) % SeqMax) + 1
        BY <3>1 DEF Numbered
      <4>2. d.index - 1 \in Nat /\ (d.index - 1) + 1 = d.index
        BY <3>4
      <4> HIDE DEF d
      <4> QED BY <4>1, <4>2, ModSuccessor, SeqAssumption
    <3>6. /\ arrived' = [arrived EXCEPT ![d.node] = d.index]
          /\ sequences' = [sequences EXCEPT ![d.node] = d.sequence % SeqMax]
      BY <2>3 DEF Receive, Remembered
    <3>7. \A q \in Player : sequences'[q] \in {0, arrived'[q] % SeqMax}
      <4> HIDE DEF d
      <4>1. arrived'[d.node] = d.index /\ sequences'[d.node] = d.index % SeqMax
        BY <3>4, <3>5, <3>6 DEF TypeOK
      <4>2. \A q \in Player \ {d.node} : arrived'[q] = arrived[q] /\ sequences'[q] = sequences[q]
        BY <3>6 DEF TypeOK
      <4> QED BY <4>1, <4>2 DEF Numbered
    <3>8. UNCHANGED <<sequence, sent>>
      BY <2>3 DEF Receive
    <3> QED BY <3>3, <3>7, <3>8 DEF Numbered
  <2>4. CASE Lose
    <3>1. \A k \in DOMAIN network' : \E j \in DOMAIN network : network'[k] = network[j]
      <4>1. network \in Seq(Datagram) /\ network # <<>> /\ network' = Tail(network)
        BY <2>4 DEF Lose, TypeOK
      <4>2. \A k \in DOMAIN network' : k + 1 \in DOMAIN network /\ network'[k] = network[k + 1]
        BY <4>1
      <4> QED BY <4>2
    <3> QED BY <2>4, <3>1 DEF Lose, Numbered
  <2>5. CASE ForgetSequences
    BY <2>5 DEF ForgetSequences, Numbered
  <2> QED BY <2>1, <2>2, <2>3, <2>4, <2>5 DEF Next
<1> QED BY <1>1, <1>2, TypeCorrect, PTL DEF Spec

\* Whatever the network lost, repeated or reordered before, and whatever was refused:
\* a datagram that arrives right after the one sent just before it is accepted, for
\* any SeqMax, over the wrap as well.
THEOREM SuccessorAcceptedHolds == Spec => SuccessorAccepted
<1> DEFINE Step == \A p \in Player :
                      (arrived'[p] = arrived[p] + 1) => (held'[p] = arrived'[p])
<1>1. TypeOK /\ Numbered /\ [Next]_vars => [Step]_vars
  <2> SUFFICES ASSUME TypeOK, Numbered, Next, NEW p \in Player,
                      arrived'[p] = arrived[p] + 1
               PROVE  held'[p] = arrived'[p]
    OBVIOUS
  <2>1. arrived[p] \in Nat /\ arrived'[p] # arrived[p]
    BY DEF TypeOK
  <2>2. PICK i \in 1..Window : Receive(i)
    BY <2>1 DEF Next, Send, Lose, ForgetSequences
  <2> DEFINE d == network[i]
  <2>3. i \in DOMAIN network /\ d \in Datagram
    BY <2>2 DEF Receive, TypeOK
  <2>4. /\ d.node \in Player /\ d.index \in Nat
        /\ d.sequence = ((d.index - 1) % SeqMax) + 1
    BY <2>3 DEF Datagram, Numbered
  <2>5. arrived' = [arrived EXCEPT ![d.node] = d.index]
    BY <2>2 DEF Receive
  <2>6. d.node = p /\ d.index = arrived[p] + 1
    BY <2>1, <2>4, <2>5 DEF TypeOK
  <2>7. d.sequence = (arrived[p] % SeqMax) + 1
    BY <2>1, <2>4, <2>6
  <2>8. Accepts(sequences[p], d.sequence)
    <3>1. arrived[p] % SeqMax \in Nat
      BY <2>1, SeqAssumption
    <3>2. sequences[p] \in {0, arrived[p] % SeqMax}
      BY DEF Numbered
    <3> QED BY <2>7, <3>1, <3>2 DEF Accepts
  <2>9. held' = [held EXCEPT ![p] = d.index]
    BY <2>2, <2>6, <2>8 DEF Receive
  <2> QED BY <2>5, <2>6, <2>9 DEF TypeOK
<1>2. Spec => [][Step]_vars
  BY <1>1, TypeCorrect, NumberedInvariant, PTL DEF Spec
<1> QED BY <1>2 DEF SuccessorAccepted

-----------------------------------------------------------------------------
(* What is accepted is later *)

\* Below the wrap, the number that is remembered is the number of the datagram.
LEMMA RememberedNumber ==
    ASSUME NEW a \in Nat, NEW m \in Nat \ {0}, a % m # 0
    PROVE  a # 0 /\ a % m = ((a - 1) % m) + 1
<1>0. 0 % m = 0 /\ m % m = 0
  OBVIOUS
<1>1. a - 1 \in Nat /\ (a - 1) + 1 = a
  BY <1>0
<1> DEFINE r == (a - 1) % m
<1>2. r \in 0..(m - 1)
  BY <1>1, Division
<1>3. (r + 1) % m = a % m
  BY <1>1, ModSuccessor
<1> HIDE DEF r
<1>4. r + 1 # m
  BY <1>0, <1>3
<1>5. r + 1 \in 0..(m - 1)
  BY <1>2, <1>4
<1>6. (r + 1) % m = r + 1
  BY <1>5
<1> QED BY <1>1, <1>3, <1>6 DEF r

\* Within one round of the numbers, the greater number is the later datagram.
LEMMA GreaterIsLater ==
    ASSUME NEW a \in Nat, NEW b \in Nat, NEW m \in Nat \ {0},
           a \div m = b \div m, a % m < b % m
    PROVE  a < b
<1>1. /\ a \div m \in Int /\ a = m * (a \div m) + (a % m)
      /\ b = m * (b \div m) + (b % m)
  OBVIOUS
<1>2. a % m \in Int /\ b % m \in Int
  OBVIOUS
<1> QED BY <1>1, <1>2

\* On any network: what is accepted of a player right after another datagram of that
\* player is the later one of the two, unless the numbers wrapped between them.
THEOREM LaterOrWrappedHolds == Spec => LaterOrWrapped
<1> DEFINE Step == \A p \in Player :
                      (held'[p] # held[p] /\ sequences[p] # 0) =>
                          \/ held'[p] > arrived[p]
                          \/ (held'[p] - 1) \div SeqMax # (arrived[p] - 1) \div SeqMax
<1>1. TypeOK /\ Numbered /\ [Next]_vars => [Step]_vars
  <2> SUFFICES ASSUME TypeOK, Numbered, Next, NEW p \in Player,
                      held'[p] # held[p], sequences[p] # 0,
                      (held'[p] - 1) \div SeqMax = (arrived[p] - 1) \div SeqMax
               PROVE  held'[p] > arrived[p]
    OBVIOUS
  <2>1. PICK i \in 1..Window : Receive(i)
    BY DEF Next, Send, Lose, ForgetSequences
  <2> DEFINE d == network[i]
  <2>2. i \in DOMAIN network /\ d \in Datagram
    BY <2>1 DEF Receive, TypeOK
  <2>3. /\ d.node \in Player /\ d.index \in Nat /\ d.index >= 1
        /\ d.sequence = ((d.index - 1) % SeqMax) + 1
    BY <2>2 DEF Datagram, Numbered
  <2>4. /\ Accepts(sequences[d.node], d.sequence)
        /\ held' = [held EXCEPT ![d.node] = d.index]
    BY <2>1 DEF Receive
  <2>5. d.node = p /\ held'[p] = d.index
    BY <2>3, <2>4 DEF TypeOK
  <2>6. arrived[p] \in Nat /\ sequences[p] = arrived[p] % SeqMax
    BY DEF TypeOK, Numbered
  <2>7. arrived[p] # 0 /\ sequences[p] = ((arrived[p] - 1) % SeqMax) + 1
    BY <2>6, RememberedNumber, SeqAssumption
  <2>8. ((arrived[p] - 1) % SeqMax) + 1 < ((d.index - 1) % SeqMax) + 1
    <3>1. sequences[p] \in Int /\ d.sequence \in Int
      BY <2>2 DEF TypeOK, Datagram
    <3>2. d.sequence > sequences[p]
      BY <2>4, <2>5 DEF Accepts
    <3> QED BY <3>1, <3>2, <2>3, <2>7
  <2> HIDE DEF d
  <2>9. arrived[p] - 1 \in Nat /\ d.index - 1 \in Nat
    BY <2>3, <2>6, <2>7
  <2>10. (arrived[p] - 1) % SeqMax \in Int /\ (d.index - 1) % SeqMax \in Int
    BY <2>9, SeqAssumption
  <2>11. (arrived[p] - 1) % SeqMax < (d.index - 1) % SeqMax
    BY <2>8, <2>10
  <2>12. arrived[p] - 1 < d.index - 1
    BY <2>5, <2>9, <2>11, GreaterIsLater, SeqAssumption
  <2> QED BY <2>3, <2>5, <2>6, <2>12
<1>2. Spec => [][Step]_vars
  BY <1>1, TypeCorrect, NumberedInvariant, PTL DEF Spec
<1> QED BY <1>2 DEF LaterOrWrapped

-----------------------------------------------------------------------------
(* The filter on a network that keeps the order: it never refuses two      *)
(* datagrams of a player in a row, as long as the largest number is at     *)
(* least twice the largest distance between two that arrive.               *)
(*                                                                         *)
(* Of each player the network holds the datagrams up to the last one sent, *)
(* in their order and without a gap, and begins close to the one that      *)
(* arrived last (Fifo).  So the number of one that is refused has wrapped  *)
(* and is small (RefusedOnce), and the next one cannot wrap again.         *)

Between ==
    /\ \A p \in Player : arrived[p] <= sent[p]
    /\ \A k \in DOMAIN network :
           /\ arrived[network[k].node] <= network[k].index
           /\ network[k].index <= sent[network[k].node]

Sorted ==
    \A k, l \in DOMAIN network :
        (k < l /\ network[k].node = network[l].node) => network[k].index < network[l].index

\* The l-th datagram is the successor of the k-th.
Follows(k, l) ==
    k < l /\ network[l].node = network[k].node /\ network[l].index = network[k].index + 1

NoGap ==
    \A k \in DOMAIN network :
        network[k].index < sent[network[k].node] => \E l \in DOMAIN network : Follows(k, l)

Near(k, p) == network[k].node = p /\ network[k].index <= arrived[p] + MaxLost + 1

Close ==
    \A p \in Player :
        sent[p] <= arrived[p] + MaxLost \/ \E k \in DOMAIN network : Near(k, p)

Fifo == Between /\ Sorted /\ NoGap /\ Close

\* The number of a player's datagram that arrived last.
Number(p) == ((arrived[p] - 1) % SeqMax) + 1

RefusedOnce ==
    \A p \in Player :
        /\ refused[p] <= 1
        /\ refused[p] = 1 => arrived[p] >= 1 /\ Number(p) <= MaxLost + 1

-----------------------------------------------------------------------------
(* Fifo *)

LEMMA WithoutHead ==
    ASSUME NEW S, NEW s \in Seq(S), 1 \in DOMAIN s
    PROVE  /\ Without(s, 1) \in Seq(S) /\ Len(Without(s, 1)) = Len(s) - 1
           /\ \A k \in 1..(Len(s) - 1) : Without(s, 1)[k] = s[k + 1]
<1> DEFINE front == SubSeq(s, 1, 0)
           back == SubSeq(s, 2, Len(s))
<1>4. Len(s) \in Nat /\ 1 <= Len(s)
  OBVIOUS
<1>1. front \in Seq(S) /\ Len(front) = 0
  OBVIOUS
<1>2. /\ back \in Seq(S) /\ Len(back) = Len(s) - 1
      /\ \A k \in 1..(Len(s) - 1) : back[k] = s[k + 1]
  <2>1. \A i \in 2..Len(s) : s[i] \in S
    BY <1>4
  <2>2. /\ back \in Seq(S)
        /\ Len(back) = IF 2 <= Len(s) THEN Len(s) - 2 + 1 ELSE 0
        /\ \A k \in 1..(Len(s) - 2 + 1) : back[k] = s[2 + k - 1]
    BY <1>4, <2>1, SubSeqProperties
  <2> HIDE DEF back
  <2>3. Len(back) = Len(s) - 1
    <3>1. CASE 2 <= Len(s)
      BY <1>4, <2>2, <3>1
    <3>2. CASE Len(s) = 1
      BY <1>4, <2>2, <3>2
    <3>3. \A n \in Nat : 1 <= n => (2 <= n \/ n = 1)
      OBVIOUS
    <3> QED BY <1>4, <3>1, <3>2, <3>3
  <2>4. ASSUME NEW k \in 1..(Len(s) - 1) PROVE back[k] = s[k + 1]
    <3>1. k \in 1..(Len(s) - 2 + 1) /\ 2 + k - 1 = k + 1
      BY <1>4
    <3> QED BY <2>2, <3>1
  <2> QED BY <2>2, <2>3, <2>4
<1>3. Without(s, 1) = front \o back
  BY DEF Without
<1> HIDE DEF front, back
<1>5. front \o back \in Seq(S) /\ Len(front \o back) = Len(s) - 1
  BY <1>1, <1>2, <1>4
<1>6. ASSUME NEW k \in 1..(Len(s) - 1) PROVE (front \o back)[k] = back[k]
  BY <1>1, <1>2, <1>4
<1> QED BY <1>2, <1>3, <1>5, <1>6

\* What TypeOK says of the datagrams.
LEMMA NetworkFacts ==
    ASSUME TypeOK
    PROVE  /\ Len(network) \in Nat /\ DOMAIN network = 1..Len(network)
           /\ \A k \in DOMAIN network : network[k].node \in Player /\ network[k].index \in Nat
           /\ \A p \in Player : sent[p] \in Nat /\ arrived[p] \in Nat
<1>1. network \in Seq(Datagram) /\ \A k \in DOMAIN network : network[k] \in Datagram
  BY DEF TypeOK
<1>2. \A d \in Datagram : d.node \in Player /\ d.index \in Nat
  BY DEF Datagram
<1>3. Len(network) \in Nat /\ DOMAIN network = 1..Len(network)
  BY <1>1
<1>4. \A p \in Player : sent[p] \in Nat /\ arrived[p] \in Nat
  BY DEF TypeOK
<1> QED BY <1>1, <1>2, <1>3, <1>4

LEMMA FifoInit == Init => Fifo
BY NetworkAssumption DEF Init, Fifo, Between, Sorted, NoGap, Close

LEMMA FifoSend ==
    ASSUME TypeOK, Fifo, NEW p \in Player, Send(p)
    PROVE  Fifo'
<1> DEFINE d == [node |-> p, sequence |-> sequence[p], index |-> sent[p] + 1]
           n == Len(network)
<1>1. d \in Datagram /\ d.node = p /\ d.index = sent[p] + 1
  BY DEF TypeOK, Datagram
<1>2. /\ Len(network') = n + 1 /\ DOMAIN network' = 1..(n + 1)
      /\ \A k \in 1..n : network'[k] = network[k]
      /\ network'[n + 1] = d
  BY <1>1, AppendProperties DEF Send, TypeOK
<1>3. /\ sent'[p] = sent[p] + 1
      /\ \A q \in Player \ {p} : sent'[q] = sent[q]
      /\ arrived' = arrived
  BY DEF Send, TypeOK
<1>4. /\ n \in Nat /\ DOMAIN network = 1..n
      /\ \A k \in 1..n : network[k].node \in Player /\ network[k].index \in Nat
      /\ \A q \in Player : sent[q] \in Nat /\ arrived[q] \in Nat
  BY NetworkFacts
<1>5. \A q \in Player : sent[q] <= sent'[q]
  BY <1>3, <1>4
<1> HIDE DEF d, n
<1>6. Between'
  <2>1. \A q \in Player : arrived'[q] <= sent'[q]
    BY <1>3, <1>4, <1>5 DEF Fifo, Between
  <2>2. ASSUME NEW k \in 1..n
        PROVE  /\ arrived'[network'[k].node] <= network'[k].index
               /\ network'[k].index <= sent'[network'[k].node]
    <3>1. network'[k] = network[k] /\ network[k].node \in Player /\ network[k].index \in Nat
      BY <1>2, <1>4
    <3>2. /\ arrived[network[k].node] <= network[k].index
          /\ network[k].index <= sent[network[k].node]
      BY <1>4 DEF Fifo, Between
    <3> QED BY <1>3, <1>4, <1>5, <3>1, <3>2
  <2>3. /\ arrived'[d.node] <= d.index
        /\ d.index <= sent'[d.node]
    BY <1>1, <1>3, <1>4 DEF Fifo, Between
  <2>4. \A k \in 1..(n + 1) : k \in 1..n \/ k = n + 1
    BY <1>4
  <2> QED BY <1>2, <2>1, <2>2, <2>3, <2>4 DEF Between
<1>7. Sorted'
  <2> SUFFICES ASSUME NEW k \in 1..(n + 1), NEW l \in 1..(n + 1),
                      k < l, network'[k].node = network'[l].node
               PROVE  network'[k].index < network'[l].index
    BY <1>2 DEF Sorted
  <2>1. k \in 1..n /\ network'[k] = network[k] /\ network[k].index \in Nat
    BY <1>2, <1>4
  <2>2. CASE l \in 1..n
    <3>1. network'[l] = network[l]
      BY <1>2, <2>2
    <3>2. network[k].index < network[l].index
      BY <1>4, <2>1, <2>2, <3>1 DEF Fifo, Sorted
    <3> QED BY <2>1, <3>1, <3>2
  <2>3. CASE l = n + 1
    <3>1. network[k].node = p /\ network'[l].index = sent[p] + 1
      BY <1>1, <1>2, <2>1, <2>3
    <3>2. network[k].index <= sent[p]
      BY <1>4, <2>1, <3>1 DEF Fifo, Between
    <3> QED BY <1>4, <2>1, <3>1, <3>2
  <2>4. l \in 1..n \/ l = n + 1
    BY <1>4
  <2> QED BY <2>2, <2>3, <2>4
<1>8. NoGap'
  <2> SUFFICES ASSUME NEW k \in 1..(n + 1), network'[k].index < sent'[network'[k].node]
               PROVE  \E l \in 1..(n + 1) : Follows(k, l)'
    BY <1>2 DEF NoGap
  <2>1. k \in 1..n
    BY <1>1, <1>2, <1>3, <1>4
  <2>2. CASE network[k].index < sent[network[k].node]
    <3>1. PICK l \in 1..n : Follows(k, l)
      BY <1>4, <2>1, <2>2 DEF Fifo, NoGap
    <3> QED BY <1>2, <1>4, <2>1, <3>1 DEF Follows
  <2>3. CASE network[k].index = sent[network[k].node]
    <3>1. network[k].node = p
      BY <1>2, <1>3, <1>4, <2>1, <2>3
    <3> QED BY <1>1, <1>2, <1>4, <2>1, <2>3, <3>1 DEF Follows
  <2> QED BY <1>4, <2>1, <2>2, <2>3 DEF Fifo, Between
<1>9. Close'
  <2> SUFFICES ASSUME NEW q \in Player, ~(sent'[q] <= arrived'[q] + MaxLost)
               PROVE  \E k \in 1..(n + 1) : Near(k, q)'
    BY <1>2 DEF Close
  <2>1. CASE \E k \in 1..n : Near(k, q)
    BY <1>2, <1>3, <1>4, <2>1 DEF Near
  <2>2. CASE sent[q] <= arrived[q] + MaxLost
    <3>1. q = p
      BY <1>3, <2>2
    <3> QED BY <1>1, <1>2, <1>3, <1>4, <2>2, <3>1, NetworkAssumption DEF Near
  <2> QED BY <1>4, <2>1, <2>2 DEF Fifo, Close
<1> QED BY <1>6, <1>7, <1>8, <1>9 DEF Fifo

\* The first datagram has left the network.
Shifted ==
    /\ Len(network') = Len(network) - 1 /\ DOMAIN network' = 1..(Len(network) - 1)
    /\ \A k \in 1..(Len(network) - 1) : network'[k] = network[k + 1]

\* A witness behind the first datagram is still there.
LEMMA ShiftedGap ==
    ASSUME TypeOK, Fifo, Shifted, sent' = sent
    PROVE  Sorted' /\ NoGap'
<1> DEFINE n == Len(network)
<1>1. /\ n \in Nat /\ DOMAIN network = 1..n
      /\ \A k \in 1..n : network[k].node \in Player /\ network[k].index \in Nat
  BY NetworkFacts
<1>2. DOMAIN network' = 1..(n - 1) /\ \A k \in 1..(n - 1) : network'[k] = network[k + 1]
  BY DEF Shifted
<1> HIDE DEF n
<1>3. \A k \in 1..(n - 1) : k + 1 \in 1..n
  BY <1>1
<1>4. Sorted'
  <2> SUFFICES ASSUME NEW k \in 1..(n - 1), NEW l \in 1..(n - 1),
                      k < l, network'[k].node = network'[l].node
               PROVE  network'[k].index < network'[l].index
    BY <1>2 DEF Sorted
  <2>1. k + 1 \in DOMAIN network /\ l + 1 \in DOMAIN network /\ k + 1 < l + 1
    BY <1>1, <1>3
  <2>2. network[k + 1].node = network[l + 1].node
    BY <1>2
  <2>3. network[k + 1].index < network[l + 1].index
    BY <2>1, <2>2 DEF Fifo, Sorted
  <2> QED BY <1>2, <2>3
<1>5. NoGap'
  <2> SUFFICES ASSUME NEW k \in 1..(n - 1), network'[k].index < sent'[network'[k].node]
               PROVE  \E l \in 1..(n - 1) : Follows(k, l)'
    BY <1>2 DEF NoGap
  <2>1. PICK l \in 1..n : Follows(k + 1, l)
    BY <1>1, <1>2, <1>3 DEF Fifo, NoGap
  <2>2. l - 1 \in 1..(n - 1) /\ k < l - 1 /\ (l - 1) + 1 = l
    BY <1>1, <2>1 DEF Follows
  <2>3. Follows(k, l - 1)'
    BY <1>2, <2>1, <2>2 DEF Follows
  <2> QED BY <2>2, <2>3
<1> QED BY <1>4, <1>5

\* The first datagram of a player is close to the one that arrived last.
LEMMA HeadClose ==
    ASSUME TypeOK, Fifo, 1 \in DOMAIN network
    PROVE  network[1].index <= arrived[network[1].node] + MaxLost + 1
<1> DEFINE p == network[1].node
<1>1. /\ Len(network) \in Nat /\ DOMAIN network = 1..Len(network) /\ p \in Player
      /\ \A k \in DOMAIN network : network[k].index \in Nat
      /\ sent[p] \in Nat /\ arrived[p] \in Nat
  BY NetworkFacts
<1>2. CASE sent[p] <= arrived[p] + MaxLost
  <2>1. network[1].index <= sent[p] /\ network[1].index \in Nat
    BY <1>1 DEF Fifo, Between
  <2> QED BY <1>1, <1>2, <2>1, NetworkAssumption
<1>3. ASSUME NEW k \in DOMAIN network, Near(k, p)
      PROVE  network[1].index <= arrived[p] + MaxLost + 1
  <2>1. k = 1 \/ network[1].index < network[k].index
    BY <1>1, <1>3 DEF Fifo, Sorted, Near
  <2> QED BY <1>1, <1>3, <2>1, NetworkAssumption DEF Near
<1> QED BY <1>1, <1>2, <1>3 DEF Fifo, Close

\* When it leaves, the next one is.
LEMMA ShiftedClose ==
    ASSUME TypeOK, Fifo, 1 \in DOMAIN network, Shifted, sent' = sent,
           NEW a \in [Player -> Nat], arrived' = a,
           \A q \in Player \ {network[1].node} : a[q] = arrived[q],
           network[1].index <= a[network[1].node] + MaxLost
    PROVE  Close'
<1> DEFINE n == Len(network)
           p == network[1].node
<1>1. /\ n \in Nat /\ DOMAIN network = 1..n /\ p \in Player
      /\ \A k \in 1..n : network[k].node \in Player /\ network[k].index \in Nat
      /\ \A q \in Player : sent[q] \in Nat /\ arrived[q] \in Nat /\ a[q] \in Nat
  BY NetworkFacts
<1>2. DOMAIN network' = 1..(n - 1) /\ \A k \in 1..(n - 1) : network'[k] = network[k + 1]
  BY DEF Shifted
<1> HIDE DEF n
<1> SUFFICES ASSUME NEW q \in Player, ~(sent[q] <= a[q] + MaxLost)
             PROVE  \E k \in 1..(n - 1) : network'[k].node = q
                                          /\ network'[k].index <= a[q] + MaxLost + 1
  BY <1>2 DEF Close, Near
<1>3. \E l \in 2..n : network[l].node = q /\ network[l].index <= a[q] + MaxLost + 1
  <2>1. CASE q = p
    <3>1. network[1].index < sent[p]
      BY <1>1, <2>1, NetworkAssumption
    <3>2. PICK l \in 1..n : Follows(1, l)
      BY <1>1, <3>1 DEF Fifo, NoGap
    <3> QED BY <1>1, <2>1, <3>2, NetworkAssumption DEF Follows
  <2>2. CASE q # p
    <3>1. PICK l \in 1..n : Near(l, q)
      BY <1>1, <2>2 DEF Fifo, Close
    <3> QED BY <1>1, <2>2, <3>1 DEF Near
  <2> QED BY <2>1, <2>2
<1>4. PICK l \in 2..n : network[l].node = q /\ network[l].index <= a[q] + MaxLost + 1
  BY <1>3
<1>5. l - 1 \in 1..(n - 1) /\ (l - 1) + 1 = l
  BY <1>1
<1> QED BY <1>2, <1>4, <1>5

LEMMA FifoReceive ==
    ASSUME TypeOK, Fifo, Window = 1, NEW i \in 1..Window, Receive(i)
    PROVE  Fifo'
<1> DEFINE d == network[1]
           p == d.node
           n == Len(network)
<1>1. i = 1 /\ 1 \in DOMAIN network
  BY DEF Receive
<1>2. /\ n \in Nat /\ DOMAIN network = 1..n /\ p \in Player /\ d.index \in Nat
      /\ \A k \in 1..n : network[k].node \in Player /\ network[k].index \in Nat
      /\ \A q \in Player : sent[q] \in Nat /\ arrived[q] \in Nat
  BY <1>1, NetworkFacts
<1>3. /\ arrived'[p] = d.index /\ \A q \in Player \ {p} : arrived'[q] = arrived[q]
      /\ arrived' \in [Player -> Nat] /\ sent' = sent
  <2>1. arrived' = [arrived EXCEPT ![p] = d.index] /\ sent' = sent
    BY <1>1 DEF Receive
  <2> QED BY <1>2, <2>1 DEF TypeOK
<1>4. /\ arrived[p] <= d.index /\ d.index <= sent[p]
      /\ \A q \in Player : arrived[q] <= arrived'[q] /\ arrived'[q] <= sent[q]
  <2>1. arrived[p] <= d.index /\ d.index <= sent[p]
    BY <1>1 DEF Fifo, Between
  <2> QED BY <1>2, <1>3, <2>1 DEF Fifo, Between
\* Nobody on the way is older than the one that arrives.
<1>5. \A k \in 1..n : arrived'[network[k].node] <= network[k].index
  <2> SUFFICES ASSUME NEW k \in 1..n PROVE arrived'[network[k].node] <= network[k].index
    OBVIOUS
  <2>1. CASE network[k].node # p
    BY <1>2, <1>3, <2>1 DEF Fifo, Between
  <2>2. CASE network[k].node = p
    BY <1>1, <1>2, <1>3, <2>2 DEF Fifo, Sorted
  <2> QED BY <2>1, <2>2
<1>6. CASE network' = network
  <2>1. Between'
    BY <1>2, <1>3, <1>4, <1>5, <1>6 DEF Fifo, Between
  <2>2. Sorted' /\ NoGap'
    BY <1>3, <1>6 DEF Fifo, Sorted, NoGap, Follows
  <2>3. Close'
    <3> SUFFICES ASSUME NEW q \in Player
                 PROVE  \/ sent[q] <= arrived'[q] + MaxLost
                        \/ \E k \in 1..n : /\ network[k].node = q
                                           /\ network[k].index <= arrived'[q] + MaxLost + 1
      BY <1>2, <1>3, <1>6 DEF Close, Near
    <3>1. CASE sent[q] <= arrived[q] + MaxLost
      BY <1>2, <1>3, <1>4, <3>1, NetworkAssumption
    <3>2. ASSUME NEW k \in 1..n, Near(k, q)
          PROVE  network[k].node = q /\ network[k].index <= arrived'[q] + MaxLost + 1
      BY <1>2, <1>3, <1>4, <3>2, NetworkAssumption DEF Near
    <3> QED BY <1>2, <3>1, <3>2 DEF Fifo, Close
  <2> QED BY <2>1, <2>2, <2>3 DEF Fifo
<1>7. CASE network' = Without(network, 1)
  <2>1. Shifted
    <3>1. network \in Seq(Datagram)
      BY DEF TypeOK
    <3>2. /\ network' \in Seq(Datagram) /\ Len(network') = n - 1
          /\ \A k \in 1..(n - 1) : network'[k] = network[k + 1]
      BY <1>1, <1>7, <3>1, WithoutHead
    <3> QED BY <3>2 DEF Shifted
  <2>2. \A k \in DOMAIN network' : k + 1 \in 1..n /\ network'[k] = network[k + 1]
    BY <1>2, <2>1 DEF Shifted
  <2>3. Between'
    BY <1>2, <1>3, <1>4, <1>5, <2>2 DEF Fifo, Between
  <2>4. d.index <= arrived'[p] + MaxLost
    BY <1>2, <1>3, NetworkAssumption
  <2>5. Close'
    BY <1>1, <1>3, <2>1, <2>4, ShiftedClose
  <2> QED BY <1>3, <2>1, <2>3, <2>5, ShiftedGap DEF Fifo
<1>8. network' = network \/ network' = Without(network, 1)
  BY <1>1 DEF Receive
<1> QED BY <1>6, <1>7, <1>8

LEMMA FifoLose ==
    ASSUME TypeOK, Fifo, Lose
    PROVE  Fifo'
<1>1. network \in Seq(Datagram) /\ network # <<>>
  BY DEF TypeOK, Lose
<1>2. 1 \in DOMAIN network /\ Shifted
  <2>1. network' = Tail(network)
    BY DEF Lose
  <2> QED BY <1>1, <2>1 DEF Shifted
<1>3. /\ Len(network) \in Nat /\ DOMAIN network = 1..Len(network)
      /\ \A k \in DOMAIN network : network[k].node \in Player /\ network[k].index \in Nat
      /\ arrived \in [Player -> Nat]
  BY NetworkFacts DEF TypeOK
<1>4. sent' = sent /\ arrived' = arrived
  BY DEF Lose
<1>5. Between'
  <2>1. \A k \in DOMAIN network' : k + 1 \in DOMAIN network /\ network'[k] = network[k + 1]
    BY <1>2, <1>3 DEF Shifted
  <2> QED BY <1>4, <2>1 DEF Fifo, Between
<1>6. network[1].index <= arrived[network[1].node] + MaxLost
  BY <1>2, <1>3, NetworkAssumption DEF Lose
<1>7. Close'
  BY <1>2, <1>3, <1>4, <1>6, ShiftedClose
<1> QED BY <1>2, <1>4, <1>5, <1>7, ShiftedGap DEF Fifo

LEMMA FifoStep ==
    ASSUME TypeOK, Fifo, Window = 1, [Next]_vars
    PROVE  Fifo'
<1>1. CASE UNCHANGED vars \/ ForgetSequences
  <2>1. network' = network /\ sent' = sent /\ arrived' = arrived
    BY <1>1 DEF vars, ForgetSequences
  <2> QED BY <2>1 DEF Fifo, Between, Sorted, NoGap, Follows, Close, Near
<1> QED BY <1>1, FifoSend, FifoReceive, FifoLose DEF Next

-----------------------------------------------------------------------------
(* What is refused *)

\* The remainder after a step of at most one round.
LEMMA ModShift ==
    ASSUME NEW a \in Nat, NEW m \in Nat \ {0}, NEW g \in 0..m
    PROVE  /\ a % m \in 0..(m - 1)
           /\ (a % m) + g < m => (a + g) % m = (a % m) + g
           /\ (a % m) + g >= m => (a + g) % m = (a % m) + g - m
<1> DEFINE x == a % m
           y == (a + g) % m
<1>1. x \in 0..(m - 1) /\ \E q \in Int : a = m * q + x
  BY Division
<1>2. y \in 0..(m - 1) /\ \E j \in Int : a + g = m * j + y
  BY Division, a + g \in Nat
<1> HIDE DEF x, y
<1>3. PICK q \in Int : a = m * q + x
  BY <1>1
<1>4. PICK j \in Int : a + g = m * j + y
  BY <1>2
<1>5. ASSUME x + g < m PROVE y = x + g
  <2>1. x + g \in 0..(m - 1) /\ m * q + (x + g) = m * j + y
    BY <1>1, <1>2, <1>3, <1>4, <1>5
  <2> QED BY <1>2, <2>1, QuotientUnique
<1>6. ASSUME x + g >= m PROVE y = x + g - m
  <2>1. x + g - m \in 0..(m - 1)
    BY <1>1, <1>6
  <2>2. m * (q + 1) = m * q + m
    OBVIOUS
  <2>3. m * (q + 1) + (x + g - m) = m * j + y
    BY <1>1, <1>2, <1>3, <1>4, <2>2
  <2>4. q + 1 \in Int
    OBVIOUS
  <2> QED BY <1>2, <2>1, <2>3, <2>4, QuotientUnique
<1> QED BY <1>1, <1>5, <1>6 DEF x, y

\* A number that is refused has wrapped and is small, and does not follow a small one.
LEMMA RefusedIsSmall ==
    ASSUME NEW a \in Nat, NEW m \in Nat \ {0}, NEW g \in 1..m,
           NEW r \in {0, a % m}, NEW s \in 1..m,
           s = ((a + g - 1) % m) + 1, ~Accepts(r, s)
    PROVE  a >= 1 /\ s <= g /\ ((a - 1) % m) + 1 + g > m
<1>1. r # 0 /\ r = a % m /\ s <= r
  BY DEF Accepts
<1>2. a # 0 /\ r = ((a - 1) % m) + 1
  BY <1>1, RememberedNumber
<1> DEFINE b == a - 1
<1>3. b \in Nat /\ s = ((b + g) % m) + 1 /\ r = (b % m) + 1
  <2>1. a + g - 1 = b + g
    BY <1>2
  <2> QED BY <1>2, <2>1
<1> HIDE DEF b
<1>4. /\ b % m \in 0..(m - 1)
      /\ (b % m) + g < m => (b + g) % m = (b % m) + g
      /\ (b % m) + g >= m => (b + g) % m = (b % m) + g - m
  BY <1>3, ModShift, g \in 0..m
<1> DEFINE x == b % m
           y == (b + g) % m
<1>6. /\ x \in 0..(m - 1) /\ s = y + 1 /\ r = x + 1
      /\ x + g < m => y = x + g
      /\ x + g >= m => y = x + g - m
  BY <1>3, <1>4
<1> HIDE DEF x, y
<1>7. x + g >= m
  BY <1>1, <1>6
<1>8. s <= g /\ x + 1 + g > m
  BY <1>6, <1>7
<1> QED BY <1>2, <1>8 DEF x, b

\* On a network that keeps the order, when at least twice as many numbers are told apart
\* as the distance of two datagrams of a player that arrive one after the other: of two
\* different datagrams in a row, one is accepted, over the wrap as well.
THEOREM NeverTwiceInARowHolds ==
    ASSUME Window = 1, 2 * (MaxLost + 1) <= SeqMax
    PROVE  Spec => []NeverTwiceInARow
<1>1. Init => Fifo /\ RefusedOnce
  BY FifoInit DEF Init, RefusedOnce
<1>2. TypeOK /\ Numbered /\ Fifo /\ RefusedOnce /\ [Next]_vars => Fifo' /\ RefusedOnce'
  <2> SUFFICES ASSUME TypeOK, Numbered, Fifo, RefusedOnce, [Next]_vars PROVE RefusedOnce'
    BY FifoStep
  <2>1. ASSUME UNCHANGED <<arrived, refused>> PROVE RefusedOnce'
    BY <2>1 DEF RefusedOnce, Number
  <2>2. ASSUME NEW i \in 1..Window, Receive(i) PROVE RefusedOnce'
    <3>0. i = 1 /\ 1 \in DOMAIN network /\ network[1] \in Datagram
      BY <2>2 DEF Receive, TypeOK
    <3>1. PICK d \in Datagram, p \in Player : d = network[1] /\ p = d.node
      BY <3>0 DEF Datagram
    <3> DEFINE g == d.index - arrived[p]
    <3>2. /\ d.index \in Nat /\ d.sequence \in 1..SeqMax
          /\ arrived[p] \in Nat /\ refused[p] \in Nat
          /\ sequences[p] \in {0, arrived[p] % SeqMax}
          /\ d.sequence = ((d.index - 1) % SeqMax) + 1
      BY <3>0, <3>1 DEF Datagram, TypeOK, Numbered
    <3>3. /\ arrived'[p] = d.index
          /\ \A q \in Player \ {p} : arrived'[q] = arrived[q] /\ refused'[q] = refused[q]
      <4>1. arrived' = [arrived EXCEPT ![p] = d.index]
        BY <2>2, <3>0, <3>1 DEF Receive
      <4>2. \/ refused' = [refused EXCEPT ![p] = 0]
            \/ refused' = [refused EXCEPT ![p] = @ + 1]
            \/ refused' = [refused EXCEPT ![p] = @]
        BY <2>2, <3>0, <3>1 DEF Receive
      <4> QED BY <3>2, <4>1, <4>2 DEF TypeOK
    <3>4. /\ Accepts(sequences[p], d.sequence) => refused'[p] = 0
          /\ ~Accepts(sequences[p], d.sequence) =>
                 refused'[p] = IF d.index = arrived[p] THEN refused[p] ELSE refused[p] + 1
      BY <2>2, <3>0, <3>1, <3>2 DEF Receive, TypeOK
    <3>5. g \in 0..(MaxLost + 1)
      <4>1. arrived[p] <= d.index
        BY <3>0, <3>1 DEF Fifo, Between
      <4>2. d.index <= arrived[p] + MaxLost + 1
        BY <3>0, <3>1, HeadClose
      <4> QED BY <3>2, <4>1, <4>2, NetworkAssumption
    <3> DEFINE Once(q) == /\ refused'[q] <= 1
                          /\ refused'[q] = 1 => arrived'[q] >= 1 /\ Number(q)' <= MaxLost + 1
    <3>6. \A q \in Player \ {p} : Once(q)
      BY <3>3 DEF RefusedOnce, Number
    <3>7. Once(p)
      <4>1. CASE Accepts(sequences[p], d.sequence)
        BY <3>4, <4>1
      <4>2. CASE ~Accepts(sequences[p], d.sequence) /\ d.index = arrived[p]
        <5>1. refused'[p] = refused[p] /\ arrived'[p] = arrived[p]
          BY <3>3, <3>4, <4>2
        <5> QED BY <3>2, <5>1 DEF RefusedOnce, Number
      <4>3. CASE ~Accepts(sequences[p], d.sequence) /\ d.index # arrived[p]
        <5>1. g \in 1..SeqMax /\ g <= MaxLost + 1 /\ d.index - 1 = arrived[p] + g - 1
          BY <3>2, <3>5, <4>3, NetworkAssumption, SeqAssumption
        <5>2. arrived[p] >= 1 /\ d.sequence <= g /\ Number(p) + g > SeqMax
          <6>1. d.sequence = ((arrived[p] + g - 1) % SeqMax) + 1
            BY <3>2, <5>1
          <6> HIDE DEF g
          <6> QED BY <3>2, <4>3, <5>1, <6>1, RefusedIsSmall, SeqAssumption DEF Number
        <5>3. Number(p)' = d.sequence /\ d.index >= 1
          BY <3>2, <3>3, <5>1, <5>2 DEF Number
        <5>4. Number(p) \in Int
          <6>1. arrived[p] - 1 \in Nat
            BY <3>2, <5>2
          <6>2. (arrived[p] - 1) % SeqMax \in 0..(SeqMax - 1)
            BY <6>1, Division, SeqAssumption
          <6> QED BY <6>2, SeqAssumption DEF Number
        <5> HIDE DEF g
        <5>5. refused[p] = 0
          <6>1. refused[p] = 1 => Number(p) <= MaxLost + 1
            BY DEF RefusedOnce
          <6>2. refused[p] <= 1
            BY DEF RefusedOnce
          <6>3. ~(Number(p) <= MaxLost + 1)
            BY <5>1, <5>2, <5>4, NetworkAssumption, SeqAssumption
          <6> QED BY <3>2, <6>1, <6>2, <6>3
        <5> QED BY <3>2, <3>3, <3>4, <4>3, <5>1, <5>2, <5>3, <5>5, NetworkAssumption
      <4> QED BY <4>1, <4>2, <4>3
    <3> QED BY <3>6, <3>7 DEF RefusedOnce
  <2> QED BY <2>1, <2>2 DEF Next, Send, Lose, ForgetSequences, vars
<1>3. RefusedOnce => NeverTwiceInARow
  BY DEF RefusedOnce, NeverTwiceInARow
<1> QED BY <1>1, <1>2, <1>3, TypeCorrect, NumberedInvariant, PTL DEF Spec

=============================================================================
