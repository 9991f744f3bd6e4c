------------------------------ MODULE NnPubSub ------------------------------
(***************************************************************************)
(* PUB sockets connected to SUB sockets (protocols/pubsub, utils/dist.c,   *)
(* utils/fq.c).  A PUB socket gives a message to each pipe that can take   *)
(* it now; the SUB socket drops those that match none of its topics.       *)
(***************************************************************************)
EXTENDS NnTrie, QueueOps

CONSTANTS
  Publisher, Subscriber,
  Link,        \* who connects to whom
  Topic, Body, \* topics and messages: sequences of characters
  MaxSubs,     \* how many subscriptions each SUB socket has at a time (a bound)
  MaxFlight,   \* messages that fit into a connection (a bound)
  MaxBreaks    \* how often a connection breaks (a bound)

ASSUME PubSubBounds ==
  /\ Link \subseteq Publisher \X Subscriber
  /\ Topic \subseteq Seq(0 .. 255) /\ Body \subseteq Seq(0 .. 255)
  /\ MaxSubs \in [Subscriber -> Nat] /\ MaxFlight \in Nat \ {0} /\ MaxBreaks \in Nat

(* Of a connection: whether each end has its pipe, whether the pipe of PUB  *)
(* is in its list (out), and the messages under way.                        *)
VARIABLES
  conn,    \* the connections
  fq,      \* the pipes of each SUB socket that have a message, in order
  trie,    \* the topics of each SUB socket
  answer,  \* what nn_recv has just done: the message it returned, if any, and
           \* those it dropped; <<>> after other steps
  breaks,  \* how many connections have broken
  asked,   \* the topics each user has subscribed to, and how often (history)
  held,    \* those the trie still holds (history)
  wild,    \* the sockets that unsubscribed a topic it did not hold (history)
  crashed  \* the sockets whose process has crashed

socketVars == <<conn, fq>>
topicVars == <<trie, asked, held, wild, crashed>>
psVars == <<conn, fq, trie, answer, breaks, asked, held, wild, crashed>>

Alive(s) == s \notin crashed
Unused == [pub |-> FALSE, sub |-> FALSE, out |-> FALSE, flight |-> <<>>]

Init ==
  /\ conn = [l \in Link |-> Unused]
  /\ fq = [s \in Subscriber |-> <<>>]
  /\ trie = [s \in Subscriber |-> NULL]
  /\ answer = <<>>
  /\ breaks = 0
  /\ asked = [s \in Subscriber |-> [t \in Topic |-> 0]]
  /\ held = asked
  /\ wild = {} /\ crashed = {}

-----------------------------------------------------------------------------
(* Connections                                                              *)

(* nn_xpub_add, nn_xsub_add                                                 *)
Connect(l) ==
  /\ conn[l] = Unused
  /\ conn' = [conn EXCEPT ![l] = [@ EXCEPT !.pub = TRUE, !.sub = TRUE]]
  /\ answer' = <<>>
  /\ UNCHANGED <<fq, breaks, topicVars>>

(* One end's pipe is removed because the connection broke or as the other   *)
(* end is gone.                                                             *)
Breaks(l) ==
  IF conn[l].pub /\ conn[l].sub THEN breaks < MaxBreaks /\ breaks' = breaks + 1
  ELSE UNCHANGED breaks

nn_xpub_rm(l) ==
  /\ conn[l].pub /\ Breaks(l)
  /\ conn' = [conn EXCEPT ![l] = [@ EXCEPT !.pub = FALSE, !.out = FALSE]]
  /\ answer' = <<>>
  /\ UNCHANGED <<fq, topicVars>>

(* Mutant: the pipe stays in the fair queue.                                *)
Mutant_xsub_rm(l) ==
  /\ conn[l].sub /\ Breaks(l)
  /\ conn' = [conn EXCEPT ![l] = [@ EXCEPT !.sub = FALSE, !.flight = <<>>]]
  /\ answer' = <<>>
  /\ UNCHANGED <<fq, topicVars>>

nn_xsub_rm(l) ==
  /\ conn[l].sub /\ Breaks(l)
  /\ conn' = [conn EXCEPT ![l] = [@ EXCEPT !.sub = FALSE, !.flight = <<>>]]
  /\ fq' = [fq EXCEPT ![l[2]] = Without(@, l)]
  /\ answer' = <<>>
  /\ UNCHANGED topicVars

-----------------------------------------------------------------------------
(* PUB                                                                      *)

(* nn_dist_out: the pipe can send again.                                    *)
nn_xpub_out(l) ==
  /\ conn[l].pub /\ ~conn[l].out /\ Len(conn[l].flight) < MaxFlight
  /\ conn' = [conn EXCEPT ![l].out = TRUE]
  /\ answer' = <<>>
  /\ UNCHANGED <<fq, breaks, topicVars>>

(* nn_dist_send: a copy for each pipe in the list, which leaves it.  There  *)
(* may be none.                                                             *)
nn_dist_send(p, msg) ==
  [l \in Link |-> IF l[1] # p \/ ~conn[l].out THEN conn[l]
                  ELSE [conn[l] EXCEPT !.out = FALSE,
                                       !.flight = IF conn[l].sub THEN Append(@, msg) ELSE @]]

nn_xpub_send(p, msg) ==
  /\ conn' = nn_dist_send(p, msg)
  /\ answer' = <<>>
  /\ UNCHANGED <<fq, breaks, topicVars>>

-----------------------------------------------------------------------------
(* SUB                                                                      *)

(* nn_fq_in: the pipe has received a message.                               *)
nn_xsub_in(l) ==
  /\ conn[l].sub /\ conn[l].flight # <<>> /\ l \notin Queued(fq[l[2]])
  /\ fq' = [fq EXCEPT ![l[2]] = Append(@, l)]
  /\ answer' = <<>>
  /\ UNCHANGED <<conn, breaks, topicVars>>

(* nn_xsub_recv takes a message from each pipe in the fair queue until one  *)
(* matches, or none is left (EAGAIN).  The n-th is the last it takes.       *)
Offered(s) == [n \in DOMAIN fq[s] |-> Head(conn[fq[s][n]].flight)]

(* Mutant: a prefix of the trie is enough.                                  *)
MutantMatches(s, msg) ==
  {trie[s] # NULL /\ PrefixMatches(Node(trie[s]), msg)}

Matches(s, msg) == nn_trie_match(trie[s], msg)

nn_xsub_recv(s, n, hit) ==
  /\ Alive(s)
  /\ \A k \in 1 .. n - 1 : FALSE \in Matches(s, Offered(s)[k])
  /\ IF n = 0 THEN ~hit ELSE hit \in Matches(s, Offered(s)[n])
  /\ hit \/ n = Len(fq[s])
  /\ answer' = [sub |-> s, msg |-> IF hit THEN <<Offered(s)[n]>> ELSE <<>>,
                dropped |-> SubSeq(Offered(s), 1, IF hit THEN n - 1 ELSE n)]
  /\ conn' = [l \in Link |-> IF l \in Queued(SubSeq(fq[s], 1, n))
                             THEN [conn[l] EXCEPT !.flight = Tail(@)] ELSE conn[l]]
  /\ fq' = [fq EXCEPT ![s] = SubSeq(@, n + 1, Len(@))]
  /\ UNCHANGED <<breaks, topicVars>>

(* nn_xsub_setopt.  A node that becomes dense or sparse is made again       *)
(* without the subscriptions that end there.                                *)
Following(bag, t) ==
  {u[Len(t) + 1] : u \in {v \in Topic : bag[v] > 0 /\ IsStrictPrefix(t, v)}}
Converted(old, new) ==
  {t \in Topic : {Cardinality(Following(old, t)), Cardinality(Following(new, t))}
                = {SparseMax, SparseMax + 1}}
Kept(old, new) == [t \in Topic |-> IF t \in Converted(old, new) THEN 0 ELSE new[t]]

(* A trie is followed until a topic is unsubscribed it does not hold (a     *)
(* bound).                                                                  *)
Followed(s) == s \notin wild

Subscribe(s, topic) ==
  /\ Followed(s)
  /\ FoldFunction(LAMBDA a, b : a + b, 0, asked[s]) < MaxSubs[s]
  /\ trie' = [trie EXCEPT ![s] = nn_trie_subscribe(@, topic)]
  /\ asked' = [asked EXCEPT ![s][topic] = @ + 1]
  /\ held' = [held EXCEPT ![s] = Kept(@, [@ EXCEPT ![topic] = @ + 1])]
  /\ answer' = <<>>
  /\ UNCHANGED <<socketVars, breaks, wild, crashed>>

Unsubscribe(s, topic) ==
  LET done == nn_trie_unsubscribe(trie[s], topic) IN
  /\ Followed(s)
  /\ trie' = [trie EXCEPT ![s] = done.ptr]
  /\ crashed' = IF done.rc = "crash" THEN crashed \cup {s} ELSE crashed
  /\ asked' = [asked EXCEPT ![s][topic] = IF @ = 0 THEN 0 ELSE @ - 1]
  /\ IF held[s][topic] = 0 THEN wild' = wild \cup {s} /\ UNCHANGED held
     ELSE /\ held' = [held EXCEPT ![s] = Kept(@, [@ EXCEPT ![topic] = @ - 1])]
          /\ UNCHANGED wild
  /\ answer' = <<>>
  /\ UNCHANGED <<socketVars, breaks>>

-----------------------------------------------------------------------------
Next ==
  \/ \E l \in Link : Connect(l) \/ nn_xpub_rm(l) \/ nn_xsub_rm(l) \/ nn_xpub_out(l) \/ nn_xsub_in(l)
  \/ \E p \in Publisher, msg \in Body : nn_xpub_send(p, msg)
  \/ \E s \in Subscriber :
       \/ \E n \in 0 .. Len(fq[s]), hit \in BOOLEAN : nn_xsub_recv(s, n, hit)
       \/ \E topic \in Topic : Subscribe(s, topic) \/ Unsubscribe(s, topic)

Spec == Init /\ [][Next]_psVars
=============================================================================
