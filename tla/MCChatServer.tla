---------------------------- MODULE MCChatServer ----------------------------
(* A small instance of ChatServer for TLC.                                 *)
EXTENDS ChatServer

CONSTANTS c1, c2, c3, n1, n2

ThreeConns == {c1, c2, c3}
TwoNames == {n1, n2}
=============================================================================
