------------------------------ MODULE ResultScreen ------------------------------
(***************************************************************************)
(* OnResult: the end of a round.  The host's game decides who has won and  *)
(* tells; its result screen (DispWinnerAndContinue) drives the client's by *)
(* S_WinData.  A machine m has the screen's data or NoScreen, what its     *)
(* player chooses next, and the static variables of OnResult.cpp; the      *)
(* machine that owns the player (mine) is the host.                        *)
(*                                                                         *)
(* The main routine of the screen is the game's, external: it initializes, *)
(* takes the player's choice, and deletes the screen after Continue.       *)
(***************************************************************************)
EXTENDS PacketQueue, Integers

NoScreen == [Action |-> "none", Selection |-> 0]

\* DispWinnerAndContinue_Data {}: the action is DispAction_Initialize.
Fresh == [Action |-> "initialize", Selection |-> 0]

\* OnWin, OnWin_orig: the game opens the result screen.
OnWin_orig(m) == [m EXCEPT !.screen = Fresh]

\* The client's own game does not decide.
OnWin(m) ==
    IF ~m.mine THEN m
    ELSE OnWin_orig([m EXCEPT !.tcp_packet = Appended(@, Message("S_Win", <<>>), FALSE)])

\* The wrapper would leave what was received last for the next screen.
DeletedWithRest(m) ==
    [m EXCEPT !.screen = NoScreen, !.disp_deleted = TRUE, !.local_data = Fresh]

\* DispWinnerAndContinue_Delete_wrapper.
Deleted(m) ==
    [m EXCEPT !.screen = NoScreen, !.disp_deleted = TRUE, !.local_data = Fresh,
              !.remote_data = Fresh]

\* unled remembers a client that went on before it was told anything.
MainSub(m) ==
    CASE m.screen.Action = "initialize" -> [m EXCEPT !.screen.Action = "menu"]
      [] m.screen.Action = "continue" -> Deleted(m)
      [] m.screen.Action = "menu" /\ m.choice = "select" ->
            [m EXCEPT !.screen.Selection = 1 - @, !.choice = "none"]
      [] m.screen.Action = "menu" /\ m.choice = "continue" ->
            [m EXCEPT !.screen.Action = "continue", !.choice = "none",
                      !.unled = @ \/ (~m.mine /\ m.remote_data = Fresh)]
      [] OTHER -> m

\* The host tells what changed.
Told(m) ==
    [m EXCEPT !.tcp_packet = IF m.local_data # m.screen
                             THEN Appended(@, Message("S_WinData", m.screen), FALSE) ELSE @,
              !.local_data = m.screen]

\* The client shows what it was told, once it was told anything.
Led(m) == IF m.remote_data.Action # "initialize" THEN [m EXCEPT !.screen = m.remote_data] ELSE m

\* DispWinnerAndContinue_wrapper: a frame of the screen.
DispWinnerAndContinue(m) ==
    LET after == MainSub(m)
    IN  IF m.screen = NoScreen THEN m
        ELSE IF m.disp_deleted THEN [m EXCEPT !.disp_deleted = FALSE]
        ELSE IF m.screen = Fresh THEN after
        ELSE IF after.screen = NoScreen
             THEN IF m.mine THEN [after EXCEPT !.disp_deleted = FALSE] ELSE after
        ELSE IF m.mine THEN Told(after) ELSE Led(after)

\* MessageHandler of OnResult.
ReadResult(m, msg) ==
    CASE msg.type = "S_Win" -> OnWin_orig(m)
      [] msg.type = "S_WinData" -> [m EXCEPT !.remote_data = msg.data]

=============================================================================
