--------------------------- MODULE MCChallengeGame ---------------------------
(***************************************************************************)
(* ChallengeGame for TLC.  The timers are model values.                     *)
(***************************************************************************)
EXTENDS ChallengeGame

CONSTANTS t1, t2

TwoTimers == {t1, t2}

DotDouble == {3, 14}
Dot == {3}
==============================================================================
