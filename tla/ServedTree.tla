----------------------------- MODULE ServedTree -----------------------------
(***************************************************************************)
(* The directory the SNFS server is jailed in, and the Linux calls the     *)
(* handlers make on it.  A path is the sequence of its names (the server   *)
(* and FUSE write it with one '/' before each); a node is a file or a      *)
(* directory with an identity of its own.  The server runs as root         *)
(* (chroot needs it), so no call fails for lack of permission.             *)
(***************************************************************************)
EXTENDS Integers, Sequences

CONSTANTS
  Name,      \* the file names
  MaxDepth,  \* how many names a path may have (a bound)
  MaxNode    \* how many files and directories a behaviour may create (a bound)

ASSUME DepthBound == MaxDepth \in Nat
ASSUME NodeBound  == MaxNode \in Nat \ {0}

Path == UNION {[1 .. n -> Name] : n \in 0 .. MaxDepth}
Root == <<>>

Parent(p)       == SubSeq(p, 1, Len(p) - 1)
Under(d, p)     == Len(d) < Len(p) /\ SubSeq(p, 1, Len(d)) = d
InDirectory(p)  == {q \in Path : Under(p, q)}
Rebase(p, d, e) == e \o SubSeq(p, Len(d) + 1, Len(p))

(* The root directory has id 1; id 0 stands for no node at all.             *)
Node   == [id : 0 .. MaxNode, dir : BOOLEAN]
Absent == [id |-> 0, dir |-> FALSE]
Tree   == [Path -> Node]

EmptyTree == [p \in Path |-> IF p = Root THEN [id |-> 1, dir |-> TRUE]
                                         ELSE Absent]

Exists(tree, p) == tree[p] # Absent
IsDir(tree, p)  == tree[p].dir
IsFile(tree, p) == Exists(tree, p) /\ ~IsDir(tree, p)
IsEmpty(tree, p) == \A q \in InDirectory(p) : ~Exists(tree, q)

-----------------------------------------------------------------------------
(* What the calls return: "ok" or an errno.                                 *)

(* The failure to find p: a name on the way is a file, or is missing.       *)
Missing(tree, p) ==
  IF \E q \in Path : Under(q, p) /\ IsFile(tree, q) THEN "ENOTDIR" ELSE "ENOENT"

Stat(tree, p) == IF Exists(tree, p) THEN "ok" ELSE Missing(tree, p)

Creat(tree, p) ==
  IF IsDir(tree, p) THEN "EISDIR"
  ELSE IF Exists(tree, p) \/ IsDir(tree, Parent(p)) THEN "ok"
  ELSE Missing(tree, p)

Mkdir(tree, p) ==
  IF Exists(tree, p) THEN "EEXIST"
  ELSE IF IsDir(tree, Parent(p)) THEN "ok"
  ELSE Missing(tree, p)

Unlink(tree, p) ==
  IF ~Exists(tree, p) THEN Missing(tree, p)
  ELSE IF IsDir(tree, p) THEN "EISDIR" ELSE "ok"

Rmdir(tree, p) ==
  IF ~Exists(tree, p) THEN Missing(tree, p)
  ELSE IF ~IsDir(tree, p) THEN "ENOTDIR"
  ELSE IF p = Root THEN "EBUSY"
  ELSE IF IsEmpty(tree, p) THEN "ok" ELSE "ENOTEMPTY"

Rename(tree, p, q) ==
  IF p # Root /\ ~IsDir(tree, Parent(p)) THEN Missing(tree, p)
  ELSE IF ~IsDir(tree, Parent(q)) THEN Missing(tree, q)
  ELSE IF p = Root THEN "EBUSY"
  ELSE IF ~Exists(tree, p) THEN "ENOENT"
  ELSE IF Under(p, q) THEN "EINVAL"
  ELSE IF Under(q, p) THEN "ENOTEMPTY"
  ELSE IF ~Exists(tree, q) THEN "ok"
  ELSE IF IsDir(tree, p) # IsDir(tree, q) THEN "EISDIR or ENOTDIR"
  ELSE IF IsDir(tree, q) /\ ~IsEmpty(tree, q) THEN "ENOTEMPTY"
  ELSE "ok"

(* A directory fits where it is moved to (a consequence of MaxDepth).       *)
Fits(tree, p, q) ==
  \A r \in InDirectory(p) : Exists(tree, r) => Len(r) - Len(p) + Len(q) <= MaxDepth

-----------------------------------------------------------------------------
(* What they do when they succeed.                                          *)

Put(tree, p, node) == [tree EXCEPT ![p] = node]
Drop(tree, p)      == [tree EXCEPT ![p] = Absent]

(* rename(2): what was at and under p is now at and under q; what was at q  *)
(* is gone.                                                                 *)
Move(tree, p, q) ==
  [r \in Path |->
     IF r = q THEN tree[p]
     ELSE IF Under(q, r) /\ Rebase(r, q, p) \in Path THEN tree[Rebase(r, q, p)]
     ELSE IF r = p \/ Under(p, r) THEN Absent
     ELSE tree[r]]
=============================================================================
