--------------------------- MODULE MCAsyncClient ---------------------------
(* A small instance of AsyncClient for TLC.                                *)
EXTENDS AsyncClient

CONSTANTS s1, s2, s3, i1, i2, a1, a2

ThreeSessions == {s1, s2, s3}
TwoIds == {i1, i2}
TwoCallers == {a1, a2}
=============================================================================
