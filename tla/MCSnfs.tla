------------------------------- MODULE MCSnfs -------------------------------
(***************************************************************************)
(* Small instances of SnfsServer for TLC.                                  *)
(***************************************************************************)
EXTENDS SnfsProperties, TLC

(* Names and handles are only compared for equality.                       *)
Symmetric == Permutations(Name) \cup Permutations(Handle)
=============================================================================
