----------------------------- MODULE MCKeepAlive -----------------------------
(* An instance of KeepAlive for TLC. *)
EXTENDS KeepAlive

\* Two points of the same id, which the server's data precedes.
TimedScript == <<"S_Stage", "S_Stage">>

=============================================================================
