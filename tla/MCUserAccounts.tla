--------------------------- MODULE MCUserAccounts ---------------------------
(* Small instances of UserAccounts for TLC.                                *)
EXTENDS UserAccounts, TLC

CONSTANTS c1, c2, upper, lower, other, p1, p2, n1, n2, new

TwoClients == {c1, c2}
Variants == {upper, lower}
ThreeNames == {upper, lower, other}
ToLower == [n \in Names |-> IF n = upper THEN lower ELSE n]
TwoPasswords == {p1, p2}
OnePassword == {p1}
TwoNicknames == {n1, n2}
OneNickname == {n1}
MinusOne == -1
Symmetry == Permutations(Clients)
=============================================================================
