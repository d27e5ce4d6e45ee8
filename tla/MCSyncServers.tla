---------------------------- MODULE MCSyncServers ----------------------------
(* Small instances of SyncServers for TLC.                                 *)
EXTENDS SyncServers

CONSTANTS c1, c2, c3

ThreeClients == {c1, c2, c3}
=============================================================================
