------------------------------ MODULE SyncPoint ------------------------------
(***************************************************************************)
(* What the ready barrier of PacketBroker promises to the hooks that call  *)
(* it: the players go through the same sequence of synchronization points  *)
(* (stage, next stage, characters, random seed, game state, round start)   *)
(* and nobody leaves one before everybody has reached it.                  *)
(*                                                                         *)
(* ReadyBarrier implements this specification while no connection times    *)
(* out (ReadyBarrier!Implements).                                          *)
(***************************************************************************)
EXTENDS Naturals

CONSTANTS
    Node,       \* the players of the session
    Rounds      \* a natural number: how many synchronization points the game goes through

VARIABLES
    entered,    \* entered[n]: how many points n has reached
    left        \* left[n]: how many points n has gone past

syncVars == <<entered, left>>

Init ==
    /\ entered = [n \in Node |-> 0]
    /\ left = [n \in Node |-> 0]

\* n's game reaches its next synchronization point and blocks there.
Enter(n) ==
    /\ entered[n] = left[n]
    /\ entered[n] < Rounds
    /\ entered' = [entered EXCEPT ![n] = @ + 1]
    /\ UNCHANGED left

\* n's game goes on: everybody has reached the point n is blocked at.
Leave(n) ==
    /\ left[n] < entered[n]
    /\ \A m \in Node : entered[n] <= entered[m]
    /\ left' = [left EXCEPT ![n] = @ + 1]
    /\ UNCHANGED entered

Next == \E n \in Node : Enter(n) \/ Leave(n)

Spec == Init /\ [][Next]_syncVars

=============================================================================
