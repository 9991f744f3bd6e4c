----------------------------- MODULE MCNnPubSub -----------------------------
(***************************************************************************)
(* Two publishers and a subscriber with up to four subscriptions at a time. *)
(* Nodes hold two children and two characters, so that a few topics make   *)
(* them split, grow dense and shrink.                                      *)
(***************************************************************************)
EXTENDS NnPubSubProperties

CONSTANTS p1, p2, s1

Links == {<<p1, s1>>, <<p2, s1>>}
Topics == {<<>>, <<1>>, <<2>>, <<3>>, <<4>>, <<2, 1, 1, 1>>}
Bodies == {<<1>>, <<2, 1>>}
SubsOf == [s \in {s1} |-> 4]
PublishersAlike == Permutations({p1, p2})
=============================================================================
