------------------------ MODULE MCPrivatePersistence ------------------------
(* Two or three concurrent requests over two keys and two bodies.           *)
EXTENDS PrivatePersistence, TLC

CONSTANTS w1, w2, w3, c1, c2, b1, b2

RequestSymmetry == Permutations(Workers) \cup Permutations(Cids) \cup Permutations(Bodies)
=============================================================================
