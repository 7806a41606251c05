--------------------------- MODULE MCConnection ----------------------------
(***************************************************************************)
(* One connection talking to the peer of MCConnectionOps.                 *)
(***************************************************************************)
EXTENDS Connection, MCConnectionOps

=============================================================================
