----------------------------- MODULE MCHashDb ------------------------------
(* Instances of HashDb for TLC: two processes that store, two hash chains, *)
(* keys and data of two lengths.                                           *)
EXTENDS HashDb, TLC

CONSTANTS k1, k2, k3, a, b, c1, c2

HashOf == [k \in Keys |-> IF k = k3 THEN c2 ELSE c1]
KeyLenOf == [k \in Keys |-> IF k = k2 THEN 2 ELSE 1]
DataLenOf == [v \in Vals |-> IF v = a THEN 2 ELSE 3]
Perms == Permutations(Procs)
=============================================================================
