---------------------------- MODULE MCReplication ----------------------------
(***************************************************************************)
(* Instances of Replication for TLC: which messages are used.              *)
(***************************************************************************)
EXTENDS Replication

\* Two players, what both may change and the host's menu.
PlayersMessages == {"GameState", "PauseSelection", "TimeStopped", "StageSelection2P"}

\* Somebody watches, what is relayed and what belongs to one player.
WatchedMessages == {"TimeStopped", "SpecialAttacks"}

\* One variable that both may change.
OneMessage == {"TimeStopped"}

=============================================================================
