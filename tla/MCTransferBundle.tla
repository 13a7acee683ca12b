--------------------------- MODULE MCTransferBundle ---------------------------
(* Small instances of TransferBundle for TLC.                                *)
EXTENDS TransferBundle, TLC

CONSTANTS s1, s2, amiga, atari

\* A submission in each of two namespaces.
Apart == s1 :> amiga @@ s2 :> atari
===============================================================================
