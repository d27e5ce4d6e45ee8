------------------------------ MODULE MCDbPool ------------------------------
(* Small instances of DbPool for TLC.                                      *)
EXTENDS DbPool, TLC

CONSTANTS w1, w2, w3, n1, n2, n3, n4

ThreeCallers == {w1, w2, w3}
FourConns == {n1, n2, n3, n4}

Symmetry == Permutations(Callers) \cup Permutations(Conns)
=============================================================================
