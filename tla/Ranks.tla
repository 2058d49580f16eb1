--------------------------------- MODULE Ranks ---------------------------------
(***************************************************************************)
(* Lists sorted by a key, the highest first, and elements with the same key *)
(* in the order they have: what List.sort makes of a list with comparators  *)
(* that compare scores (compareTo of MultiplayerGame, comparatorTo of       *)
(* ScoresScene).                                                            *)
(*                                                                         *)
(* keys gives the key of each position.  The rank of a position is how many *)
(* positions, itself included, are not behind it.                           *)
(***************************************************************************)
EXTENDS Integers, Sequences, FiniteSets

NotBehind(keys, j, i) ==
  \/ keys[j] > keys[i]
  \/ keys[j] = keys[i] /\ j <= i

Rank(keys, i) == Cardinality({j \in DOMAIN keys : NotBehind(keys, j, i)})

\* The position of a rank.
Ranked(keys, k) == CHOOSE i \in DOMAIN keys : Rank(keys, i) = k

SortedBy(keys, list) == [k \in DOMAIN list |-> list[Ranked(keys, k)]]

\* The k-th of a set of positions.
Nth(S, k) == Ranked([i \in S |-> 0], k)
===============================================================================
