----------------------------- MODULE UdpSequence -----------------------------
(***************************************************************************)
(* The sequence numbers of the datagrams: PacketEx::initialize on the      *)
(* sending side, the filter of PacketBroker::read on the receiving side.   *)
(*                                                                         *)
(* The datagrams of every player reach one receiver from one address: the  *)
(* host's own, and those it relays behind an N_Node whether it refused     *)
(* them itself or not.  A datagram carries the state of its player at the  *)
(* time it was built, index, and the receiver keeps the state of the last  *)
(* one it accepted.  The network may lose, duplicate and reorder.          *)
(***************************************************************************)
EXTENDS Integers, Sequences

CONSTANTS
    Player,         \* the players whose datagrams the receiver gets
    SeqMax,         \* USHRT_MAX
    MaxSent,        \* bound: datagrams of each player
    MaxInFlight,    \* bound: datagrams on the way
    Window,         \* a datagram overtakes fewer than this many others: 1 is FIFO
    MaxLost,        \* this many datagrams of a player in a row may be lost
    Duplicates      \* the choices of the network to keep what it delivers

ASSUME SeqAssumption == SeqMax \in Nat \ {0}
ASSUME NetworkAssumption ==
    /\ MaxSent \in Nat /\ MaxInFlight \in Nat /\ Window \in Nat /\ MaxLost \in Nat
    /\ Duplicates \subseteq BOOLEAN

VARIABLES
    sequence,       \* PacketEx::sequence of each player: the number of its next datagram
    sent,           \* how many datagrams each player has sent
    network,        \* the datagrams on the way
    sequences,      \* the receiver's PacketBroker::sequences
    arrived,        \* index of each player's datagram that arrived last
    held,           \* index of each player's datagram that was accepted last
    refused         \* how many of each player's datagrams in a row were refused,
                    \* a repeated one counted once

vars == <<sequence, sent, network, sequences, arrived, held, refused>>

Datagram == [node : Player, sequence : 1..SeqMax, index : Nat]

-----------------------------------------------------------------------------
\* PacketEx::initialize would wrap to zero.
NextWithZero(s) == (s + 1) % SeqMax

\* PacketEx::initialize after a packet that had messages.
NextSequence(s) == (s % SeqMax) + 1

\* read would let a repeated number through.
AcceptsEqual(last, s) == s # 0 /\ s >= last

\* read: a number that is not greater than the last one is out of order.
Accepts(last, s) == s # 0 /\ s > last

\* read would keep the old number when it refuses a datagram.
RememberedIfAccepted(last, s) == IF Accepts(last, s) THEN s % SeqMax ELSE last

\* read: accepted or refused, the number is remembered, the largest as 0.
Remembered(last, s) == s % SeqMax

Init ==
    /\ sequence = [p \in Player |-> 1]
    /\ sent = [p \in Player |-> 0]
    /\ network = <<>>
    /\ sequences = [p \in Player |-> 0]
    /\ arrived = [p \in Player |-> 0]
    /\ held = [p \in Player |-> 0]
    /\ refused = [p \in Player |-> 0]

\* PacketBroker::finalize with something to send: send the packet, clear it.  An empty
\* packet is not sent and uses no number.
Send(p) ==
    /\ sent[p] < MaxSent
    /\ Len(network) < MaxInFlight
    /\ network' = Append(network, [node |-> p, sequence |-> sequence[p], index |-> sent[p] + 1])
    /\ sent' = [sent EXCEPT ![p] = @ + 1]
    /\ sequence' = [sequence EXCEPT ![p] = NextSequence(@)]
    /\ UNCHANGED <<sequences, arrived, held, refused>>

Without(s, i) == SubSeq(s, 1, i - 1) \o SubSeq(s, i + 1, Len(s))

\* receive_udp and read: the i-th datagram on the way arrives.
Receive(i) ==
    /\ i \in DOMAIN network /\ i <= Window
    /\ LET d == network[i]
           p == d.node
       IN  /\ arrived' = [arrived EXCEPT ![p] = d.index]
           /\ sequences' = [sequences EXCEPT ![p] = Remembered(@, d.sequence)]
           /\ IF Accepts(sequences[p], d.sequence)
              THEN /\ held' = [held EXCEPT ![p] = d.index]
                   /\ refused' = [refused EXCEPT ![p] = 0]
              ELSE /\ refused' = [refused EXCEPT ![p] = IF d.index = arrived[p] THEN @ ELSE @ + 1]
                   /\ UNCHANGED held
    /\ \E keep \in Duplicates : network' = IF keep THEN network ELSE Without(network, i)
    /\ UNCHANGED <<sequence, sent>>

\* The network loses the oldest datagram.
Lose ==
    /\ network # <<>>
    /\ network[1].index - arrived[network[1].node] <= MaxLost
    /\ network' = Tail(network)
    /\ UNCHANGED <<sequence, sent, sequences, arrived, held, refused>>

\* set_connect_time: another player connects, and every number is forgotten.
ForgetSequences ==
    /\ sequences' = [p \in Player |-> 0]
    /\ UNCHANGED <<sequence, sent, network, arrived, held, refused>>

Next ==
    \/ \E p \in Player : Send(p)
    \/ \E i \in 1..Window : Receive(i)
    \/ Lose
    \/ ForgetSequences

Spec == Init /\ [][Next]_vars

-----------------------------------------------------------------------------
(* Properties *)

\* The type invariant.  No datagram has the number 0, which read always refuses.
TypeOK ==
    /\ sequence \in [Player -> 1..SeqMax]
    /\ sent \in [Player -> Nat]
    /\ network \in Seq(Datagram)
    /\ sequences \in [Player -> 0..(SeqMax - 1)]
    /\ arrived \in [Player -> Nat]
    /\ held \in [Player -> Nat]
    /\ refused \in [Player -> Nat]

\* The filter heals itself: whatever the network did before, and whatever was refused, a
\* player's datagram that comes right after the one sent just before it is accepted,
\* over the wrap of the numbers as well, and whatever the other players send.
SuccessorAccepted ==
    [][\A p \in Player :
           (arrived'[p] = arrived[p] + 1) => (held'[p] = arrived'[p])]_vars

\* Of two datagrams of a player that arrive one after the other, the second is accepted
\* only when it is the newer one or the numbers wrapped between them.
LaterOrWrapped ==
    [][\A p \in Player :
           (held'[p] # held[p] /\ sequences[p] # 0) =>
               \/ held'[p] > arrived[p]
               \/ (held'[p] - 1) \div SeqMax # (arrived[p] - 1) \div SeqMax]_vars

\* On a network that keeps the order and loses few datagrams in a row, the receiver
\* never refuses two different datagrams of a player in a row, over the wrap of the
\* numbers as well.
NeverTwiceInARow == \A p \in Player : refused[p] <= 1

\* ">> Received out of order packet. Rejecting." (PacketBroker.cpp:249): the state the
\* receiver holds of a player is never replaced by an older one.
NeverOlder ==
    [][\A p \in Player : sequences[p] # 0 => held'[p] >= held[p]]_vars

=============================================================================
