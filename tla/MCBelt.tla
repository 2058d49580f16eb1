-------------------------------- MODULE MCBelt --------------------------------
(***************************************************************************)
(* Small instances of Belt for TLC: up to two producers and two consumers.  *)
(***************************************************************************)
EXTENDS Belt, TLC

CONSTANTS p1, p2, c1, c2

NoThreads     == {}
OneProducer   == {p1}
TwoProducers  == {p1, p2}
OneConsumer   == {c1}
TwoConsumers  == {c1, c2}

\* Threads of one side are alike.
ThreadSymmetry == Permutations(TwoProducers) \cup Permutations(TwoConsumers)
==============================================================================
