----------------------------- MODULE MCServer ------------------------------
(***************************************************************************)
(* The server with two remote addresses, each a peer of MCConnectionOps.  *)
(***************************************************************************)
EXTENDS Server, MCConnectionOps

CONSTANTS a1, a2

MCAddrs == {a1, a2}

=============================================================================
