------------------------- MODULE MCGameSocketServer -------------------------
(* A small instance of GameSocketServer for TLC.                           *)
EXTENDS GameSocketServer

CONSTANT c1

OneSession == {c1}
Short == {1, 3}
=============================================================================
