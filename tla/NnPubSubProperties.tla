------------------------- MODULE NnPubSubProperties -------------------------
(***************************************************************************)
(* What a SUB socket promises its user.                                    *)
(***************************************************************************)
EXTENDS NnPubSub

-----------------------------------------------------------------------------
(* The nodes of a trie as the strings they stand for                        *)

RECURSIVE NodesAt(_, _)
NodesAt(ptr, path) ==
  IF ptr = NULL THEN {}
  ELSE LET node == Node(ptr)
           here == path \o node.prefix IN
       {<<here, node>>} \cup
         UNION {NodesAt(node.kids[c], Append(here, c)) : c \in DOMAIN node.kids}

(* How often a trie has the topic.                                          *)
Count(ptr, topic) ==
  LET at == {x \in NodesAt(ptr, <<>>) : x[1] = topic} IN
  IF at = {} THEN 0 ELSE (CHOOSE x \in at : TRUE)[2].ref

(* A node is dense if and only if it has more than SparseMax children, a    *)
(* dense one spans them exactly, and none is there for nothing.             *)
WellFormed(node) ==
  LET there == Children(node) IN
  /\ Len(node.prefix) <= PrefixMax
  /\ node.ref = 0 => there # {}
  /\ IF node.dense
     THEN /\ node.nbr = Cardinality(there) /\ node.nbr > SparseMax
          /\ DOMAIN node.kids = RangeOf(there)
     ELSE node.nbr = 0 /\ Cardinality(there) <= SparseMax /\ there = DOMAIN node.kids

(* Every variable is of its type, the pipes in a fair queue have a message  *)
(* (nn_fq_recv relies on it), and the nodes of the tries are well formed.   *)
PubSubTypeOK ==
  /\ \A l \in Link :
       /\ conn[l].pub \in BOOLEAN /\ conn[l].sub \in BOOLEAN /\ conn[l].out \in BOOLEAN
       /\ conn[l].flight \in Seq(Body) /\ Len(conn[l].flight) <= MaxFlight
       /\ l \in Queued(fq[l[2]]) => conn[l].flight # <<>>
  /\ \A s \in Subscriber : Distinct(fq[s]) /\ Queued(fq[s]) \subseteq Link
  /\ {asked, held} \subseteq [Subscriber -> [Topic -> Nat]] /\ breaks \in 0 .. MaxBreaks
  /\ wild \subseteq Subscriber /\ crashed \subseteq wild
  /\ \A s \in Subscriber \ wild : \A x \in NodesAt(trie[s], <<>>) : WellFormed(x[2])

-----------------------------------------------------------------------------
(* A trie holds the topics that were subscribed and not unsubscribed, each  *)
(* as often, but for those whose node has become dense or sparse since      *)
(* (nn_trie_subscribe, nn_node_unsubscribe), however its nodes were split,  *)
(* merged and converted, as long as no topic is unsubscribed it does not    *)
(* hold.                                                                    *)
TrieKeepsTopics ==
  \A s \in Subscriber \ wild : \A t \in Topic : Count(trie[s], t) = held[s][t]

(* nn_recv gives the user a message only if it begins with a topic that is  *)
(* held, or ends within one (nn_trie_match then reads past its end), and    *)
(* nn_xsub_recv drops none that begins with one.                            *)
Holds(s, topic) == held[s][topic] > 0
FilterExact ==
  answer # <<>> /\ answer.sub \notin wild =>
    /\ \A msg \in Queued(answer.msg) :
         \E t \in Topic : Holds(answer.sub, t) /\ (IsPrefix(t, msg) \/ IsPrefix(msg, t))
    /\ \A msg \in Queued(answer.dropped), t \in Topic :
         Holds(answer.sub, t) => ~IsPrefix(t, msg)

(* doc/nn_pubsub.txt: "If the socket is subscribed to multiple topics,      *)
(* message matching any of them will be delivered to the user."             *)
AnyTopicMatches ==
  answer # <<>> /\ answer.sub \notin wild =>
    \A msg \in Queued(answer.dropped), t \in Topic :
      asked[answer.sub][t] > 0 => ~IsPrefix(t, msg)
=============================================================================
