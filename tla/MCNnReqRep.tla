----------------------------- MODULE MCNnReqRep -----------------------------
(***************************************************************************)
(* A small instance of NnReqRep for TLC: one REQ socket makes two requests *)
(* while its connections and those of a socket without requests break.     *)
(***************************************************************************)
EXTENDS NnReqRepProperties

CONSTANTS c1, c2

RequestBounds == [c \in Client |-> IF c = c1 THEN 2 ELSE 0]
=============================================================================
