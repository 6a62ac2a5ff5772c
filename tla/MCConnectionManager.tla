------------------------ MODULE MCConnectionManager ------------------------
(* Small instances of ConnectionManager. *)
EXTENDS ConnectionManager, TLC

CONSTANTS m1, m2, k1, k2, k3, c1, c2

\* Every member has an address of its own.
OwnAddr == [m \in Members |-> m]

Symmetry == Permutations(Conns) \cup Permutations(Members) \cup Permutations(Clusters)
=============================================================================
