------------------------------- MODULE NnTrie -------------------------------
(***************************************************************************)
(* The patricia trie in which a SUB socket keeps the topics it subscribes  *)
(* to (protocols/pubsub/trie.c).  A pointer to a node is <<>> (NULL) or    *)
(* <<node>>.  A node stands for the characters on the way to it and its    *)
(* prefix; ref counts the subscriptions to them.  kids maps characters to  *)
(* pointers: a sparse node has at most SparseMax of them, none NULL, a     *)
(* dense one has all of a range, and nbr says how many are not NULL.       *)
(***************************************************************************)
EXTENDS Integers, Sequences, FiniteSets, SequencesExt, TLC

CONSTANTS SparseMax,  \* NN_TRIE_SPARSE_MAX
          PrefixMax   \* NN_TRIE_PREFIX_MAX

ASSUME TrieBounds == SparseMax \in Nat \ {0, 1} /\ PrefixMax \in Nat \ {0}

NULL == <<>>
Node(ptr) == ptr[1]

Leaf(prefix) == [ref |-> 0, prefix |-> prefix, dense |-> FALSE, nbr |-> 0, kids |-> <<>>]

(* The children that are there: `type' of a sparse node.                    *)
Children(node) == {c \in DOMAIN node.kids : node.kids[c] # NULL}

nn_node_has_subscribers(node) == node.ref > 0
nn_node_check_prefix(node, data) == Len(LongestCommonPrefix({node.prefix, data}))
PrefixMatches(node, data) == nn_node_check_prefix(node, data) = Len(node.prefix)
After(seq, n) == SubSeq(seq, n + 1, Len(seq))

(* The pointer to the next node: none, or one that is NULL in a dense node. *)
nn_node_next(node, c) == IF c \in DOMAIN node.kids THEN node.kids[c] ELSE NULL

(* Mutant: also a node with a subscription is merged.                       *)
Mutant_node_compact(node) ==
  IF node.dense \/ Cardinality(DOMAIN node.kids) # 1 THEN node
  ELSE LET c == CHOOSE c \in DOMAIN node.kids : TRUE
           child == Node(node.kids[c]) IN
       IF Len(node.prefix) + Len(child.prefix) + 1 > PrefixMax THEN node
       ELSE [child EXCEPT !.prefix = node.prefix \o <<c>> \o @]

(* A node with one child and no subscription is merged with the child, if   *)
(* their prefixes fit.                                                      *)
nn_node_compact(node) ==
  IF node.dense \/ nn_node_has_subscribers(node) \/ Cardinality(DOMAIN node.kids) # 1 THEN node
  ELSE LET c == CHOOSE c \in DOMAIN node.kids : TRUE
           child == Node(node.kids[c]) IN
       IF Len(node.prefix) + Len(child.prefix) + 1 > PrefixMax THEN node
       ELSE [child EXCEPT !.prefix = node.prefix \o <<c>> \o @]

-----------------------------------------------------------------------------
(* nn_trie_subscribe                                                        *)

(* Step 2: the prefix is split at pos.                                      *)
Split(node, pos) ==
  [Leaf(SubSeq(node.prefix, 1, pos)) EXCEPT
     !.kids = node.prefix[pos + 1] :>
                <<nn_node_compact([node EXCEPT !.prefix = After(@, pos + 1)])>>]

RangeOf(chars) == IF chars = {} THEN {} ELSE Min(chars) .. Max(chars)

(* A dense array of children for the characters of kids                     *)
DenseKids(kids) ==
  [c \in RangeOf(DOMAIN kids) |-> IF c \in DOMAIN kids THEN kids[c] ELSE NULL]

(* Step 3: room for the child c, which is ptr.                              *)
AddChild(node, c, ptr) ==
  LET kids == (c :> ptr) @@ node.kids IN
  CASE ~node.dense /\ Cardinality(DOMAIN node.kids) < SparseMax -> [node EXCEPT !.kids = kids]
    [] ~node.dense /\ Cardinality(DOMAIN node.kids) = SparseMax ->
         [node EXCEPT !.ref = 0, !.dense = TRUE, !.nbr = SparseMax + 1, !.kids = DenseKids(kids)]
    [] node.dense -> [node EXCEPT !.nbr = @ + 1, !.kids = DenseKids(kids)]

(* Step 4: new nodes for the rest of the topic                              *)
RECURSIVE NewBranch(_)
NewBranch(data) ==
  IF Len(data) <= PrefixMax THEN <<[Leaf(data) EXCEPT !.ref = 1]>>
  ELSE <<[Leaf(SubSeq(data, 1, PrefixMax)) EXCEPT
            !.kids = data[PrefixMax + 1] :> NewBranch(After(data, PrefixMax + 1))]>>

RECURSIVE nn_trie_subscribe(_, _)
nn_trie_subscribe(ptr, data) ==
  IF ptr = NULL THEN NewBranch(data)
  ELSE LET pos  == nn_node_check_prefix(Node(ptr), data)
           node == IF PrefixMatches(Node(ptr), data) THEN Node(ptr) ELSE Split(Node(ptr), pos)
           rest == After(data, pos) IN
       IF rest = <<>> THEN <<[node EXCEPT !.ref = @ + 1]>>
       ELSE LET c == Head(rest)
                next == nn_node_next(node, c) IN
            IF next # NULL
            THEN <<[node EXCEPT !.kids[c] = nn_trie_subscribe(next, Tail(rest))]>>
            ELSE <<AddChild(node, c, NewBranch(Tail(rest)))>>

-----------------------------------------------------------------------------
(* nn_trie_unsubscribe: [ptr |-> the trie after it, rc |-> what it returns]. *)
(* "crash": the process has used a NULL pointer or failed an assertion.     *)

Result(ptr, rc) == [ptr |-> ptr, rc |-> rc]

(* The topic ends here.  If this was its last subscription the node goes,   *)
(* or is merged with its child.                                             *)
Found(ptr) ==
  IF ptr = NULL \/ ~nn_node_has_subscribers(Node(ptr)) THEN Result(ptr, "EINVAL")
  ELSE LET node == [Node(ptr) EXCEPT !.ref = @ - 1] IN
       CASE node.ref > 0           -> Result(<<node>>, "kept")
         [] node.ref = 0 /\ DOMAIN node.kids = {} -> Result(NULL, "removed")
         [] OTHER                  -> Result(<<nn_node_compact(node)>>, "removed")

(* The child c of a sparse node is gone.                                    *)
RemoveSparse(node, c) ==
  LET left == [node EXCEPT !.kids = Restrict(@, DOMAIN @ \ {c})] IN
  IF DOMAIN left.kids = {} /\ ~nn_node_has_subscribers(left) THEN NULL
  ELSE <<nn_node_compact(left)>>

(* A dense array that stays dense is trimmed if c was at its end.           *)
Trimmed(node, c) ==
  LET kids == [node.kids EXCEPT ![c] = NULL] IN
  [node EXCEPT !.nbr = @ - 1, !.kids = Restrict(kids, RangeOf(Children([node EXCEPT !.kids = kids])))]

(* The new sparse node has the children that are left.                      *)
Sparse(node) == Restrict(node.kids, Children(node))
RemoveDense(node, c) ==
  LET left == [node EXCEPT !.kids[c] = NULL] IN
  CASE node.nbr > SparseMax + 1 -> Result(<<Trimmed(node, c)>>, "removed")
    [] Cardinality(Children(left)) # SparseMax -> Result(<<node>>, "crash")
    [] OTHER ->
         Result(<<[left EXCEPT !.ref = 0, !.dense = FALSE, !.nbr = 0, !.kids = Sparse(left)]>>,
                "removed")

(* The tail of nn_node_unsubscribe: the subscription below c has been        *)
(* removed, or was not there (EINVAL, which is not 0 either).                *)
Pruned(node, c, below) ==
  CASE below.rc \in {"kept", "crash"} \/ below.ptr # NULL ->
         Result(<<[node EXCEPT !.kids[c] = below.ptr]>>,
                IF below.rc = "EINVAL" THEN "removed" ELSE below.rc)
    [] ~node.dense /\ below.rc # "crash" /\ below.ptr = NULL ->
         Result(RemoveSparse(node, c), "removed")
    [] node.dense /\ below.rc # "crash" /\ below.ptr = NULL -> RemoveDense(node, c)

RECURSIVE nn_node_unsubscribe(_, _)
nn_node_unsubscribe(ptr, data) ==
  CASE data = <<>> -> Found(ptr)
    [] data # <<>> /\ ptr = NULL -> Result(ptr, "crash")
    [] OTHER ->
       LET node == Node(ptr)
           rest == After(data, Len(node.prefix)) IN
       CASE ~PrefixMatches(node, data) -> Result(ptr, "kept")
         [] PrefixMatches(node, data) /\ rest = <<>> -> Found(ptr)
         [] OTHER -> IF Head(rest) \notin DOMAIN node.kids THEN Result(ptr, "kept")
                     ELSE Pruned(node, Head(rest),
                                 nn_node_unsubscribe(node.kids[Head(rest)], Tail(rest)))

nn_trie_unsubscribe(ptr, data) == nn_node_unsubscribe(ptr, data)

-----------------------------------------------------------------------------
(* nn_trie_match: the answers it may give                                   *)

RECURSIVE Subscribed(_)
Subscribed(node) ==
  \/ nn_node_has_subscribers(node)
  \/ \E c \in Children(node) : Subscribed(Node(node.kids[c]))

(* Where the data end at a node without subscription, the search goes on in *)
(* the memory behind them.                                                  *)
RECURSIVE nn_trie_match(_, _)
nn_trie_match(ptr, data) ==
  IF ptr = NULL \/ ~PrefixMatches(Node(ptr), data) THEN {FALSE}
  ELSE LET rest == After(data, Len(Node(ptr).prefix)) IN
       CASE nn_node_has_subscribers(Node(ptr)) -> {TRUE}
         [] ~nn_node_has_subscribers(Node(ptr)) /\ rest = <<>> -> {FALSE, Subscribed(Node(ptr))}
         [] OTHER -> nn_trie_match(nn_node_next(Node(ptr), Head(rest)), Tail(rest))
=============================================================================
