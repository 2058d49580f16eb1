-------------------------- MODULE MCMultiplayerGame --------------------------
(***************************************************************************)
(* MultiplayerGame for TLC.  The timers are model values.                   *)
(***************************************************************************)
EXTENDS MultiplayerGame, TLC

CONSTANTS t1, t2

TwoTimers == {t1, t2}

DotPlus == {2, 3}
Dot == {3}
==============================================================================
