----------------------------- MODULE SnfsServer -----------------------------
(***************************************************************************)
(* The SNFS server (lab2/src/server): one process that takes a request off *)
(* its socket, runs its handler to the end and answers (server/main.c,     *)
(* serve_loop).  It owns the handle database and, by the rules of the lab, *)
(* is the only process that changes the served directory.  The clients     *)
(* send any request, with any handle a reply has given them and any path.  *)
(*                                                                         *)
(* A handler is one action: nothing else runs between its steps, and a     *)
(* process that dies within it leaves what one that dies before or after   *)
(* it leaves, since the database records it wrote are still in the cache.  *)
(***************************************************************************)
EXTENDS FHandleDb

CONSTANTS
  Renames,    \* the kinds of rename(2) the clients perform
  MaxFds,     \* how many descriptors the process may leave open
  Ends        \* the ways the process may end: SIGTERM, a crash

ASSUME RenameKinds == Renames \subseteq {"file", "overwrite", "directory"}
ASSUME FdBound     == MaxFds \in Nat
ASSUME EndKinds    == Ends \subseteq {"sigterm", "crash"}

VARIABLES
  up,       \* "serving", "down", or "exited" by err_exit
  tree,     \* the served directory
  db,       \* the handle database, as the process sees it (its cache)
  disk,     \* the handle database file
  fds,      \* the descriptors that handlers have left open
  reply,    \* the answer to the last request
  meant     \* history: the file or directory each handle was first given for

vars == <<up, tree, db, disk, fds, reply, meant>>

Ops  == {"MOUNT", "GETATTR", "READDIR", "LOOKUP", "READ", "WRITE", "SETATTR",
         "CREATE", "REMOVE", "RENAME", "MKDIR", "NOOP", "other"}
Errs == {"none", "ENOENT", "ENOTDIR", "EINTERNAL", "ENOTIMPL"}

Reply   == [op : Ops, err : Errs, fh : Handle \cup {NoHandle}]
NoReply == [op |-> "MOUNT", err |-> "ENOENT", fh |-> NoHandle]

TypeOK ==
  /\ up \in {"serving", "down", "exited"}
  /\ tree \in Tree
  /\ db \in Db
  /\ disk \in Db
  /\ fds \in 0 .. MaxFds
  /\ reply \in Reply
  /\ meant \in [Handle -> 0 .. MaxNode]

(* A first server process, with the directory it finds.                     *)
InitWith(served) ==
  /\ up = "serving"
  /\ tree = served
  /\ db = EmptyDb
  /\ disk = EmptyDb
  /\ fds = 0
  /\ reply = NoReply
  /\ meant = [h \in Handle |-> 0]

Init == InitWith(EmptyTree)

(* The handles the clients have been given. *)
Issued == {h \in Handle : meant[h] # 0}

(* The nodes that are not in the tree and that no handle was given for.     *)
Unused == (1 .. MaxNode) \ ({tree[p].id : p \in Path} \cup {meant[h] : h \in Handle})

(* The next file or directory to be created. *)
Fresh(i) == i \in Unused /\ \A j \in Unused : i <= j

-----------------------------------------------------------------------------
(* The ways a handler ends                                                  *)

(* Mutant: the errno is sent as it is.                                      *)
MutantSnfsError(e, known) == e

(* The error that stands for errno e where the handler tells those in       *)
(* `known' apart.                                                           *)
snfs_error(e, known) == IF e \in known THEN e ELSE "EINTERNAL"

(* It answers and has changed nothing.                                      *)
Answer(op, err) ==
  /\ reply' = [op |-> op, err |-> err, fh |-> NoHandle]
  /\ UNCHANGED <<up, tree, db, disk, meant>>

(* handle_error *)
Refuse(op, err) == Answer(op, err) /\ UNCHANGED fds

(* The clients learn h as a handle of node, if they do not know it yet.     *)
Means(h, node) == meant' = [meant EXCEPT ![h] = IF @ = 0 THEN node.id ELSE @]

(* It answers with the handle name_find_or_insert returns for p.            *)
GrantFound(op, p, node) ==
  \E found \in name_find_or_insert(db, p, Issued) :
    /\ db' = found.db
    /\ reply' = [op |-> op, err |-> "none", fh |-> found.fh]
    /\ Means(found.fh, node)
    /\ UNCHANGED <<up, disk>>

-----------------------------------------------------------------------------
(* The handlers (lab2/src/server/handlers.c)                                *)

handle_noop ==
  /\ up = "serving"
  /\ Answer("NOOP", "none")
  /\ UNCHANGED fds

(* A message of any other type. *)
handle_unimplemented ==
  /\ up = "serving"
  /\ Refuse("other", "ENOTIMPL")

handle_mount ==
  /\ up = "serving"
  /\ GrantFound("MOUNT", Root, tree[Root])
  /\ UNCHANGED <<tree, fds>>

(* Look the handle up and stat() the path.                                  *)
handle_attr(op, h) ==
  /\ up = "serving"
  /\ LET p == get_file(db, h) IN
     \/ p = NoPath /\ Refuse(op, "ENOENT")
     \/ /\ p # NoPath
        /\ Stat(tree, p) = "ok"
        /\ Answer(op, "none")
        /\ UNCHANGED fds
     \/ /\ p # NoPath
        /\ Stat(tree, p) # "ok"
        /\ Refuse(op, snfs_error(Stat(tree, p), {"ENOENT"}))

handle_getattr(h) == handle_attr("GETATTR", h)

(* An attribute that cannot be set is left out of the answer's `which'.     *)
handle_setattr(h) == handle_attr("SETATTR", h)

(* READ refuses a file it cannot open or seek in, and most directories.     *)
handle_read(h) ==
  /\ up = "serving"
  /\ LET p == get_file(db, h) IN
     \/ p = NoPath /\ Refuse("READ", "ENOENT")
     \/ /\ p # NoPath
        /\ Stat(tree, p) # "ok"
        /\ Refuse("READ", snfs_error(Stat(tree, p), {"ENOENT"}))
     \/ p # NoPath /\ Stat(tree, p) = "ok" /\ Refuse("READ", "EINTERNAL")
     \/ /\ p # NoPath
        /\ Stat(tree, p) = "ok"
        /\ fds < MaxFds
        /\ Answer("READ", "none") /\ UNCHANGED fds

(* WRITE opens the file without a stat(): the descriptor comes first.       *)
handle_write(h) ==
  /\ up = "serving"
  /\ LET p == get_file(db, h) IN
     \/ p = NoPath /\ Refuse("WRITE", "ENOENT")
     \/ /\ p # NoPath
        /\ fds = MaxFds \/ Exists(tree, p)
        /\ Refuse("WRITE", "EINTERNAL")
     \/ /\ p # NoPath
        /\ fds < MaxFds
        /\ ~Exists(tree, p)
        /\ Refuse("WRITE", snfs_error(Missing(tree, p), {"ENOENT"}))
     \/ /\ p # NoPath
        /\ fds < MaxFds
        /\ IsFile(tree, p)
        /\ Answer("WRITE", "none") /\ UNCHANGED fds

(* The directory is never closed again.                                     *)
handle_readdir(h) ==
  /\ up = "serving"
  /\ LET p == get_file(db, h) IN
     \/ p = NoPath /\ Refuse("READDIR", "ENOENT")
     \/ /\ p # NoPath
        /\ Stat(tree, p) # "ok"
        /\ Refuse("READDIR", snfs_error(Stat(tree, p), {"ENOENT"}))
     \/ p # NoPath /\ IsFile(tree, p) /\ Refuse("READDIR", "ENOTDIR")
     \/ /\ p # NoPath
        /\ IsDir(tree, p)
        /\ fds = MaxFds
        /\ Refuse("READDIR", "EINTERNAL")
     \/ /\ p # NoPath
        /\ IsDir(tree, p)
        /\ fds < MaxFds
        /\ fds' = fds + 1
        /\ Answer("READDIR", "none")

handle_lookup(h, name) ==
  /\ up = "serving"
  /\ LET p == get_file(db, h) IN
     \/ p = NoPath /\ Refuse("LOOKUP", "ENOENT")
     \/ /\ p # NoPath
        /\ Stat(tree, p) # "ok"
        /\ Refuse("LOOKUP", snfs_error(Stat(tree, p), {"ENOENT"}))
     \/ p # NoPath /\ IsFile(tree, p) /\ Refuse("LOOKUP", "ENOTDIR")
     \/ /\ p # NoPath
        /\ IsDir(tree, p)
        /\ Append(p, name) \in Path
        /\ LET q == Append(p, name) IN
           \/ ~Exists(tree, q) /\ Refuse("LOOKUP", "ENOENT")
           \/ /\ Exists(tree, q)
              /\ GrantFound("LOOKUP", q, tree[q])
              /\ UNCHANGED <<tree, fds>>

(* creat() empties a file that exists; its descriptor is never closed.      *)
handle_create(p) ==
  /\ up = "serving"
  /\ \/ fds = MaxFds /\ Refuse("CREATE", "EINTERNAL")
     \/ /\ fds < MaxFds
        /\ Creat(tree, p) # "ok"
        /\ Refuse("CREATE", snfs_error(Creat(tree, p), {"ENOENT"}))
     \/ /\ fds < MaxFds
        /\ Creat(tree, p) = "ok"
        /\ \/ Exists(tree, p) /\ tree' = tree
           \/ ~Exists(tree, p) /\ \E i \in 1 .. MaxNode :
                Fresh(i) /\ tree' = Put(tree, p, [id |-> i, dir |-> FALSE])
        /\ fds' = fds + 1
        /\ GrantFound("CREATE", p, tree'[p])

handle_mkdir(p) ==
  /\ up = "serving"
  /\ \/ /\ Mkdir(tree, p) # "ok"
        /\ Refuse("MKDIR", snfs_error(Mkdir(tree, p), {"ENOENT"}))
     \/ /\ Mkdir(tree, p) = "ok"
        /\ \E i \in 1 .. MaxNode :
             Fresh(i) /\ tree' = Put(tree, p, [id |-> i, dir |-> TRUE])
        /\ GrantFound("MKDIR", p, tree'[p])
        /\ UNCHANGED fds

(* The call that removes p, and what it returns.                            *)
RemoveCall(p, is_dir) == IF is_dir THEN Rmdir(tree, p) ELSE Unlink(tree, p)

(* err_exit ends the process without closing the database (and without an   *)
(* answer: reply then only tells that it was not a success).                *)
handle_remove(h, is_dir) ==
  /\ up = "serving"
  /\ UNCHANGED fds
  /\ LET p == get_file(db, h) IN
     \/ p = NoPath /\ Refuse("REMOVE", "ENOENT")
     \/ /\ p # NoPath
        /\ RemoveCall(p, is_dir) # "ok"
        /\ Refuse("REMOVE",
             snfs_error(RemoveCall(p, is_dir),
               IF Exists(tree, p) THEN {"ENOTDIR"} ELSE {"ENOENT"}))
     \/ /\ p # NoPath
        /\ RemoveCall(p, is_dir) = "ok"
        /\ tree' = Drop(tree, p)
        /\ db' = Removed(db, p)
        /\ up' = IF RemoveResult(db, p) = "exit" THEN "exited" ELSE up
        /\ reply' = [op |-> "REMOVE", fh |-> NoHandle,
                     err |-> IF RemoveResult(db, p) = "true" THEN "none"
                             ELSE "EINTERNAL"]
        /\ UNCHANGED <<disk, meant>>

(* The kind of rename(2) that moves p to q.                                 *)
RenameKind(p, q) == IF Exists(tree, q) THEN "overwrite"
                    ELSE IF IsDir(tree, p) THEN "directory" ELSE "file"

(* Mutant: the reply names the entry of the old path.                       *)
MutantRenameHandle(p, q) == name_find_or_insert(db, p, Issued)

(* The entry RENAME answers with: that of the new path.                     *)
RenameHandle(p, q) == name_find_or_insert(db, q, Issued)

(* The kernel answers a rename of a path to itself without asking FUSE.     *)
handle_rename(h, q) ==
  /\ up = "serving"
  /\ UNCHANGED fds
  /\ LET p == get_file(db, h) IN
     \/ p = NoPath /\ Refuse("RENAME", "ENOENT")
     \/ /\ p \notin {NoPath, q}
        /\ Rename(tree, p, q) # "ok"
        /\ Refuse("RENAME", snfs_error(Rename(tree, p, q), {"ENOENT"}))
     \/ /\ p \notin {NoPath, q}
        /\ Rename(tree, p, q) = "ok"
        /\ RenameKind(p, q) \in Renames
        /\ Fits(tree, p, q)
        /\ tree' = Move(tree, p, q)
        /\ \E found \in RenameHandle(p, q) :
             LET result == RemoveResult(found.db, p) IN
             /\ db' = Removed(found.db, p)
             /\ up' = IF result = "exit" THEN "exited" ELSE up
             /\ reply' = [op |-> "RENAME",
                          err |-> IF result = "true" THEN "none" ELSE "EINTERNAL",
                          fh |-> IF result = "true" THEN found.fh ELSE NoHandle]
             /\ Means(found.fh, tree[p])
        /\ UNCHANGED disk

-----------------------------------------------------------------------------
(* The end of the process and the next one                                  *)

(* Mutant: the database is not closed.                                      *)
MutantTerminate ==
  /\ up = "serving"
  /\ "sigterm" \in Ends
  /\ up' = "down"
  /\ fds' = 0
  /\ reply' = NoReply
  /\ UNCHANGED <<tree, db, disk, meant>>

(* SIGTERM: serve_loop ends and destroy_db(false) closes the database.      *)
Terminate ==
  /\ up = "serving"
  /\ "sigterm" \in Ends
  /\ up' = "down"
  /\ disk' = db
  /\ fds' = 0
  /\ reply' = NoReply
  /\ UNCHANGED <<tree, db, meant>>

(* Mutant: half of the cached pages had been written back.                  *)
MutantCrash ==
  /\ up = "serving"
  /\ "crash" \in Ends
  /\ up' = "down"
  /\ db' = [db EXCEPT !.path = disk.path]
  /\ disk' = db'
  /\ fds' = 0
  /\ reply' = NoReply
  /\ UNCHANGED <<tree, meant>>

(* Nothing writes the cache back but DB->close.                             *)
Crash ==
  /\ up = "serving"
  /\ "crash" \in Ends
  /\ up' = "down"
  /\ db' = disk
  /\ fds' = 0
  /\ reply' = NoReply
  /\ UNCHANGED <<tree, disk, meant>>

(* server_main opens the database file, or creates it.                      *)
Restart ==
  /\ up # "serving"
  /\ up' = "serving"
  /\ db' = disk
  /\ fds' = 0
  /\ UNCHANGED <<tree, disk, reply, meant>>

Next ==
  \/ handle_noop
  \/ handle_unimplemented
  \/ handle_mount
  \/ \E h \in Issued :
       \/ handle_getattr(h)
       \/ handle_setattr(h)
       \/ handle_read(h)
       \/ handle_write(h)
       \/ handle_readdir(h)
       \/ \E name \in Name : handle_lookup(h, name)
       \/ \E is_dir \in BOOLEAN : handle_remove(h, is_dir)
       \/ \E q \in Path \ {Root} : handle_rename(h, q)
  \/ \E p \in Path \ {Root} : handle_create(p) \/ handle_mkdir(p)
  \/ Terminate
  \/ Crash
  \/ Restart

Spec == Init /\ [][Next]_vars
=============================================================================
