----------------------------- MODULE MCNnGlobal -----------------------------
(***************************************************************************)
(* Two threads: one opens two sockets, connects them, sends, shuts down,   *)
(* closes and terminates the library; the other receives and sets an       *)
(* option.                                                                 *)
(***************************************************************************)
EXTENDS NnGlobalProperties, TLC

CONSTANTS t1, t2
MayCall ==
  t1 :> {"socket", "bind", "connect", "try_send", "close", "shutdown", "term"}
  @@ t2 :> {"recv", "setsockopt"}
=============================================================================
