----------------------------- MODULE HandleMap ------------------------------
(***************************************************************************)
(* What a table of file handles promises, without paths, records, replies  *)
(* or processes: a handle leads to one file or directory from the moment   *)
(* it is given until it is forgotten, is never given for another, and no   *)
(* file or directory has two handles at a time.                            *)
(***************************************************************************)

CONSTANTS
  Handle,
  Node,      \* the files and directories
  NotGiven,  \* what a handle leads to that has never been given, and
  Gone       \* that has been forgotten; neither is a node

VARIABLE map   \* what each handle leads to

Init == map = [h \in Handle |-> NotGiven]

Live(h) == map[h] \in Node

(* A handle is given for a node that has none. *)
Give(h, node) ==
  /\ map[h] = NotGiven
  /\ \A g \in Handle : map[g] # node
  /\ map' = [map EXCEPT ![h] = node]

(* The node is removed. *)
Forget(h) == Live(h) /\ map' = [map EXCEPT ![h] = Gone]

(* The node is renamed, and goes on under another handle. *)
Renew(h, g) ==
  /\ Live(h)
  /\ map[g] = NotGiven
  /\ map' = [map EXCEPT ![g] = map[h], ![h] = Gone]

Next ==
  \E h \in Handle :
    \/ \E node \in Node : Give(h, node)
    \/ Forget(h)
    \/ \E g \in Handle : Renew(h, g)

Spec == Init /\ [][Next]_map
=============================================================================
