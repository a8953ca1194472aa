---------------------------- MODULE MCReadyBarrier ----------------------------
(* Instances of ReadyBarrier for TLC. *)
EXTENDS ReadyBarrier

\* A match: characters, stage, seed, start of the game; then the next stage.  The
\* repeated S_Seed is what a count or a packet left over from the first would upset.
MatchScript == <<"P_Character", "S_Seed", "S_GameState", "S_Seed">>

\* Two points of the same id in a row, and one that differs.
ShortScript == <<"S_Stage", "S_NextStage", "S_Stage">>

=============================================================================
