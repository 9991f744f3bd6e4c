---------------------------- MODULE MCNnEndpoint ----------------------------
(***************************************************************************)
(* Two connections: one that is accepted and one that waits, in turns.     *)
(***************************************************************************)
EXTENDS NnEndpointProperties

MCMaxConns == 2
=============================================================================
