-------------------------------- MODULE MCRound --------------------------------
(***************************************************************************)
(* An instance of Round for TLC: a round has one of these themes, so that  *)
(* the things that interact happen in every order and combination.         *)
(***************************************************************************)
EXTENDS Round

Theme(kinds, count) == [kinds |-> kinds, count |-> count]

Themes == {
    Theme({"button", "stick"}, 3),
    Theme({"rings", "hit", "recover", "kill", "replayed"}, 4),
    Theme({"S_NBarrier", "S_Speedup", "hit", "wearoff", "hp", "position"}, 3),
    Theme({"show", "S_Invincibility", "hit", "rings"}, 3),
    Theme({"S_NBarrier", "hit", "recover", "rings"}, 6),
    Theme({"kill", "hit", "recover", "act"}, 5),
    Theme({"move", "act", "turn", "drift", "position", "speed"}, 2),
    Theme({"move", "act", "drift", "position"}, 3),
    Theme({"act", "turn", "speed"}, 3),
    Theme({"win", "choose"}, 5)}

=============================================================================
