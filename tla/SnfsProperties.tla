--------------------------- MODULE SnfsProperties ---------------------------
(***************************************************************************)
(* What the SNFS server promises its clients of their file handles, and    *)
(* what its own code relies on.                                            *)
(***************************************************************************)
EXTENDS SnfsServer

Valid(h) == db.path[h] # NoPath

(* The node a valid handle leads to. *)
Reached(h) == tree[db.path[h]]

(* The file or directory h was first given for is still in the tree. *)
StillThere(h) == \E p \in Path : tree[p].id = meant[h]

(* Paired: the two records of a handle are there together and agree, so a   *)
(* path has one handle and a handle one path.  name_find_or_insert writes   *)
(* them one by one, handle_rename inserts a pair before it removes another, *)
(* and a crash goes back to the file as it was last closed                  *)
(* (fhandledb.c:230-238, 129-163; handlers.c:780-781).                      *)
Paired ==
  /\ \A h \in Handle : Valid(h) => db.handle[db.path[h]] = h
  /\ \A p \in Path : db.handle[p] # NoHandle => db.path[db.handle[p]] = p

(* NoErrExit: name_remove never finds one record of a handle without the    *)
(* other, where it ends the server with err_exit (fhandledb.c:153-156).     *)
NoErrExit == up # "exited"

(* ErrorChangesNothing: a request that is answered with an error has        *)
(* changed neither the served directory nor a handle, although REMOVE and   *)
(* RENAME change the directory first and can fail after (handlers.c:737-741 *)
(* and 780-784), so that a client may give up or try again.                 *)
ErrorChangesNothing ==
  [][up = "serving" /\ up' = "serving" /\ reply'.err # "none"
       => UNCHANGED <<tree, db>>]_vars

(* GrantedHandleWorks: a handle in a reply leads to a file or directory     *)
(* that exists, also when RENAME gives the handle its target already had    *)
(* and removes another in the same request (handlers.c:780-785).            *)
GrantedHandleWorks ==
  up = "serving" /\ reply.fh # NoHandle =>
    Valid(reply.fh) /\ Exists(tree, db.path[reply.fh])

(* RenameKeepsFile: the handle in the reply to a RENAME leads to the file   *)
(* or directory that was renamed: one that was elsewhere before and is no   *)
(* longer there (extra_credit.ops.txt:105-109).                             *)
RenameKeepsFile ==
  [][tree' # tree /\ reply'.op = "RENAME" /\ reply'.fh # NoHandle =>
       \E p \in Path :
         /\ Exists(tree, p) /\ ~Exists(tree', p)
         /\ Valid(reply.fh)' /\ Reached(reply.fh)' = tree[p]]_vars

(* The step in which the process ends without closing its database.         *)
Dies == up = "serving" /\ up' # "serving" /\ disk' = disk

(* PathKeepsHandle: as long as a file or directory stays at its path and    *)
(* the server does not crash, no request takes away or changes the handle   *)
(* of the path, which an open file of any client holds in fi->fh            *)
(* (extra_credit.ops.txt:92, "recreate existing files should return the     *)
(* same file handle").                                                      *)
PathKeepsHandle ==
  [][~Dies =>
       \A p \in Path :
         Exists(tree, p) /\ tree'[p] = tree[p] /\ db.handle[p] # NoHandle
           => db'.handle[p] = db.handle[p]]_vars

(* HandleExact: every valid handle leads to the file or directory it was    *)
(* first given for.  It needs the requests that break it left out: see the  *)
(* properties below.                                                        *)
HandleExact == \A h \in Handle : Valid(h) => Reached(h).id = meant[h]

(* What the clients may think of handle h: the file or directory it leads   *)
(* to, or that it is of no use.                                             *)
Leads(h) == CASE h \notin Issued -> 0
              [] h \in Issued /\ Valid(h) -> Reached(h).id
              [] h \in Issued /\ ~Valid(h) -> MaxNode + 1

Table == INSTANCE HandleMap WITH
  Node <- 1 .. MaxNode, NotGiven <- 0, Gone <- MaxNode + 1,
  map <- [h \in Handle |-> Leads(h)]

(* HandlesImplementMap: to its clients the server is a table in which a     *)
(* handle leads to one file or directory until it is gone for good, and no  *)
(* file has two; the same requests are left out as for HandleExact.         *)
HandlesImplementMap == Table!Spec

-----------------------------------------------------------------------------
(* What the repository says of a handle                                     *)

(* HandlesSurviveCrash: "Because file handles must be valid even after a    *)
(* server crashes, this mapping must be made persistent" (Lab 2 handout,    *)
(* page 5).                                                                 *)
HandlesSurviveCrash ==
  [][\A h \in Handle : Valid(h) /\ Dies => Valid(h)']_vars

(* GoneMeansEnoent: "If the file no longer exists, an SNFS_NOENT error      *)
(* reply is sent" (handlers.c:122-123): the handle of a file that is gone   *)
(* does not lead to another file.                                           *)
GoneMeansEnoent ==
  \A h \in Issued : Valid(h) /\ ~StillThere(h) => ~Exists(tree, db.path[h])

(* EnoentMeansGone: a handle that is still valid is answered with           *)
(* SNFS_ENOENT only if "the file no longer exists" (handlers.c:121-123).    *)
EnoentMeansGone ==
  \A h \in Issued : Valid(h) /\ ~Exists(tree, db.path[h]) => ~StillThere(h)
=============================================================================
