----------------------------- MODULE MCChloros ------------------------------
(***************************************************************************)
(* Small instances of Chloros for TLC: one kernel thread (phases 1 to 4 of *)
(* the lab) and two (the extra-credit phase).                              *)
(***************************************************************************)
EXTENDS ChlorosProperties

(* Keep is what vector::erase and the loop of GarbageCollect compute.      *)
ASSUME KeepIsSelection ==
  \A n \in 0 .. 4 : \A S \in SUBSET (1 .. n) :
    Keep([i \in 1 .. n |-> 10 + i], S) =
      SelectSeq([i \in 1 .. n |-> 10 + i], LAMBDA x : x - 10 \in S)
=============================================================================
