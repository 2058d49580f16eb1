------------------------------- MODULE MCScreens -------------------------------
(***************************************************************************)
(* A small instance of Screens: one or two opponents, scores that come      *)
(* sorted and unsorted; a score file with one line and room for two.        *)
(***************************************************************************)
EXTENDS Screens

Line(n, s) == [name |-> n, score |-> s]

Mine      == "me"
TwoOthers == {"a", "b"}

\* What SCORES may carry with one opponent, and with two.
Lists ==
  {<<Line("me", 1), Line("a", 2)>>,
   <<Line("a", 0), Line("me", 1)>>,
   <<Line("me", 1), Line("a", 0), Line("b", 2)>>,
   <<Line("a", 2), Line("me", 1), Line("b", 1)>>}

\* A score below the only one on the server's list, or equal, and one above.
TwoScores == {1, 3}
OneLine   == <<1>>
===============================================================================
