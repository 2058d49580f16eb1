------------------------------ MODULE PieceFeed ------------------------------
(***************************************************************************)
(* What a multiplayer game promises about its pieces: every piece the       *)
(* server deals comes into the player's hand, in the order dealt, each one  *)
(* once.  The player may turn and swap what is in hand between two takes,   *)
(* never during one.  No threads, no requests, no flag: MultiplayerGame is  *)
(* shown to implement it.                                                   *)
(***************************************************************************)
EXTENDS GamePiece

CONSTANTS Numbers,   \* piece numbers the server may deal
          Nothing    \* in hand before the first piece

VARIABLES undelivered,  \* pieces dealt and not yet taken, oldest first
          current,      \* the piece the next move plays
          following,    \* the piece after it
          wanted        \* the hand waits for a piece

feedVars == <<undelivered, current, following, wanted>>

Init ==
  /\ undelivered = <<>>
  /\ current = Nothing
  /\ following = Nothing
  /\ wanted = TRUE

\* The server deals, but only to a hand that waits, and not twice.
Deal(n) ==
  /\ wanted
  /\ undelivered = <<>>
  /\ undelivered' = <<n>>
  /\ UNCHANGED <<current, following, wanted>>

\* The current piece is used up; its place is taken by the following one.
Use ==
  /\ ~wanted
  /\ current' = following
  /\ wanted' = TRUE
  /\ UNCHANGED <<undelivered, following>>

\* The oldest piece dealt is taken.  The first piece of all moves on at once.
Take ==
  /\ wanted
  /\ undelivered # <<>>
  /\ following' = CreatePiece(Head(undelivered))
  /\ undelivered' = Tail(undelivered)
  /\ IF following = Nothing
     THEN current' = following' /\ UNCHANGED wanted
     ELSE wanted' = FALSE /\ UNCHANGED current

Turn ==
  /\ ~wanted
  /\ \/ current' = Rotate(current)   /\ UNCHANGED following
     \/ current' = RotateCW(current) /\ UNCHANGED following
     \/ current' = following         /\ following' = current
  /\ UNCHANGED <<undelivered, wanted>>

Next == Use \/ Take \/ Turn \/ \E n \in Numbers : Deal(n)

Spec == Init /\ [][Next]_feedVars
==============================================================================
