-------------------------- MODULE MCMatchingServer --------------------------
(* Small instances of MatchingServer for TLC.                              *)
EXTENDS MatchingServer, TLC

CONSTANTS s1, s2, u1, u2, i1, i2, p1, g1, t1, t2, t3, t4

TwoSlots == {s1, s2}
OneUser == {u1}
TwoUsers == {u1, u2}
OneIp == {i1}
TwoIps == {i1, i2}
OnePort == {p1}
NoPorts == {}
OneRoom == {1}
TwoRooms == {1, 2}
NoRooms == {}
OneGame == {g1}
NoGames == {}
Full == {2}
TwoTokens == {t1, t2}
ThreeTokens == {t1, t2, t3}
FourTokens == {t1, t2, t3, t4}
OnPort1 == [r \in Rooms |-> p1]

Symmetry == Permutations(Slots) \cup Permutations(Users) \cup Permutations(IPs)
              \cup Permutations(Uuids)
=============================================================================
