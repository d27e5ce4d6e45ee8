---------------------------- MODULE MCRoomStore ----------------------------
(* A small instance of RoomStore for TLC.                                  *)
EXTENDS RoomStore, TLC

CONSTANTS u1, u2, u3, g1, g2

MCRooms == {1, 2}
MCUsers == {u1, u2, u3}
MCGames == {g1, g2}
\* 1 and 9 are refused by the service; 2 is what three users can fill.
MCRequested == {1, 2, 3, 9}

\* Users and game ids are interchangeable; rooms are ordered by their id.
MCSymmetry == Permutations(MCUsers) \cup Permutations(MCGames)
=============================================================================
