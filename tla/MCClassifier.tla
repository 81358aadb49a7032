---------------------------- MODULE MCClassifier ----------------------------
(* Two calls on a cache that holds two of four texts. *)
EXTENDS Classifier, TLC

MCCapacity == CacheSize([enabled |-> TRUE, max |-> 2])
Symmetry == Permutations(Keys) \cup Permutations(Calls)
=============================================================================
