-------------------------- MODULE SnfsServerProofs --------------------------
(***************************************************************************)
(* For every value of the constants: SnfsServer keeps its types, the two   *)
(* records of a handle stay paired in the database and in its file, the    *)
(* server never ends by err_exit, and a request answered with an error has *)
(* changed nothing. A granted handle works, a RENAME's handle leads to the *)
(* renamed file, and a path that stays keeps its handle. Without directory *)
(* and overwriting renames and without crashes, every valid handle leads   *)
(* to the file it was first given for, and the server implements           *)
(* HandleMap.                                                              *)
(***************************************************************************)
EXTENDS SnfsProperties, SequenceTheorems, TLAPS

(* The two records of every handle in database d agree. *)
PairedDb(d) ==
  /\ d \in Db
  /\ \A h \in Handle : d.path[h] # NoPath => d.handle[d.path[h]] = h
  /\ \A p \in Path : d.handle[p] # NoHandle => d.path[d.handle[p]] = p

(* The inductive invariant: a crash returns to the file, so it is paired    *)
(* as the cache is.                                                         *)
IInv == TypeOK /\ PairedDb(db) /\ PairedDb(disk) /\ NoErrExit

-----------------------------------------------------------------------------
(* The database                                                             *)

(* A new database has no records to disagree. *)
LEMMA EmptyDbPaired == PairedDb(EmptyDb)
BY Sentinels DEF PairedDb, EmptyDb, Db

(* generate_new_fhandle and new_fhandle: a handle that is in no record,     *)
(* inserted for a path that has none, makes a pair and touches no other.    *)
LEMMA InsertPaired ==
  ASSUME NEW d, PairedDb(d), NEW p \in Path, NEW h \in Handle,
         d.handle[p] = NoHandle, d.path[h] = NoPath
  PROVE  /\ PairedDb(new_fhandle(d, p, h))
         /\ \A r \in Path \ {p} : new_fhandle(d, p, h).handle[r] = d.handle[r]
<1> DEFINE e == new_fhandle(d, p, h)
<1>1. /\ e \in Db
      /\ e.path = [d.path EXCEPT ![h] = p]
      /\ e.handle = [d.handle EXCEPT ![p] = h]
  BY DEF PairedDb, Db, new_fhandle
<1>2. ASSUME NEW g \in Handle, e.path[g] # NoPath PROVE e.handle[e.path[g]] = g
  <2>1. CASE g = h
    BY <1>1, <2>1 DEF PairedDb, Db
  <2>2. CASE g # h
    <3>1. e.path[g] = d.path[g]
      BY <1>1, <2>2 DEF PairedDb, Db
    <3>2. d.path[g] \in Path /\ d.handle[d.path[g]] = g /\ d.path[g] # p
      BY <1>2, <3>1, Sentinels DEF PairedDb, Db
    <3> QED BY <1>1, <3>1, <3>2 DEF PairedDb, Db
  <2> QED BY <2>1, <2>2
<1>3. ASSUME NEW r \in Path, e.handle[r] # NoHandle PROVE e.path[e.handle[r]] = r
  <2>1. CASE r = p
    BY <1>1, <2>1 DEF PairedDb, Db
  <2>2. CASE r # p
    <3>1. e.handle[r] = d.handle[r]
      BY <1>1, <2>2 DEF PairedDb, Db
    <3>2. d.handle[r] \in Handle /\ d.path[d.handle[r]] = r /\ d.handle[r] # h
      BY <1>3, <3>1, Sentinels DEF PairedDb, Db
    <3> QED BY <1>1, <3>1, <3>2 DEF PairedDb, Db
  <2> QED BY <2>1, <2>2
<1>4. \A r \in Path \ {p} : e.handle[r] = d.handle[r]
  BY <1>1 DEF PairedDb, Db
<1> HIDE DEF e
<1>5. PairedDb(e)
  BY <1>1, <1>2, <1>3 DEF PairedDb
<1> QED BY <1>4, <1>5 DEF e

(* name_find_or_insert returns a handle that leads to the path, in a paired *)
(* database that has the same handle as before for every other path.        *)
LEMMA FoundPaired ==
  ASSUME NEW d, PairedDb(d), NEW p \in Path, NEW drawn,
         NEW found \in name_find_or_insert(d, p, drawn)
  PROVE  /\ PairedDb(found.db)
         /\ found.fh \in Handle
         /\ \A r \in Path \ {p} : found.db.handle[r] = d.handle[r]
<1>1. CASE d.handle[p] # NoHandle
  BY <1>1 DEF name_find_or_insert, PairedDb, Db
<1>2. CASE d.handle[p] = NoHandle
  <2>1. PICK h \in generate_new_fhandle(d, drawn) :
          found = [fh |-> h, db |-> new_fhandle(d, p, h)]
    BY <1>2 DEF name_find_or_insert
  <2>2. h \in Handle /\ d.path[h] = NoPath
    BY DEF generate_new_fhandle, get_file
  <2>3. found.fh = h /\ found.db = new_fhandle(d, p, h)
    BY <2>1
  <2> QED BY <1>2, <2>2, <2>3, InsertPaired
<1> QED BY <1>1, <1>2

(* name_remove deletes a pair. *)
LEMMA RemovedPaired ==
  ASSUME NEW d, PairedDb(d), NEW p \in Path
  PROVE  PairedDb(Removed(d, p))
<1>1. CASE d.handle[p] = NoHandle
  BY <1>1 DEF Removed
<1>2. CASE d.handle[p] # NoHandle
  <2> DEFINE e == Removed(d, p)
  <2>1. /\ d.handle[p] \in Handle /\ d.path[d.handle[p]] = p
        /\ e.path = [d.path EXCEPT ![d.handle[p]] = NoPath]
        /\ e.handle = [d.handle EXCEPT ![p] = NoHandle]
        /\ e \in Db
    BY <1>2 DEF PairedDb, Db, Removed
  <2>2. ASSUME NEW g \in Handle, e.path[g] # NoPath PROVE e.handle[e.path[g]] = g
    <3>1. g # d.handle[p] /\ e.path[g] = d.path[g]
      BY <2>1, <2>2 DEF PairedDb, Db
    <3>2. d.path[g] \in Path /\ d.handle[d.path[g]] = g
      BY <2>2, <3>1 DEF PairedDb, Db
    <3>3. d.path[g] # p
      BY <3>1, <3>2
    <3> QED BY <2>1, <3>1, <3>2, <3>3 DEF PairedDb, Db
  <2>3. ASSUME NEW r \in Path, e.handle[r] # NoHandle PROVE e.path[e.handle[r]] = r
    <3>1. r # p /\ e.handle[r] = d.handle[r]
      BY <2>1, <2>3 DEF PairedDb, Db
    <3>2. d.handle[r] \in Handle /\ d.path[d.handle[r]] = r
      BY <2>3, <3>1 DEF PairedDb, Db
    <3> QED BY <2>1, <3>1, <3>2 DEF PairedDb, Db
  <2> HIDE DEF e
  <2>4. PairedDb(e)
    BY <2>1, <2>2, <2>3 DEF PairedDb
  <2> QED BY <2>4 DEF e
<1> QED BY <1>1, <1>2

(* In a paired database name_remove succeeds on every path with a handle.   *)
LEMMA RemoveSucceeds ==
  ASSUME NEW d, PairedDb(d), NEW p \in Path
  PROVE  /\ RemoveResult(d, p) # "exit"
         /\ d.handle[p] # NoHandle => RemoveResult(d, p) = "true"
BY Sentinels DEF PairedDb, Db, RemoveResult

-----------------------------------------------------------------------------
(* The served tree                                                          *)

LEMMA RootIsPath == Root \in Path
BY DepthBound DEF Root, Path

LEMMA PutInTree ==
  ASSUME NEW t \in Tree, NEW p \in Path, NEW node \in Node
  PROVE  Put(t, p, node) \in Tree
BY DEF Put, Tree

LEMMA AbsentIsNode == Absent \in Node
BY NodeBound DEF Absent, Node

LEMMA DropInTree ==
  ASSUME NEW t \in Tree, NEW p \in Path
  PROVE  Drop(t, p) \in Tree
BY AbsentIsNode DEF Drop, Tree

LEMMA MoveInTree ==
  ASSUME NEW t \in Tree, NEW p \in Path, NEW q \in Path
  PROVE  Move(t, p, q) \in Tree
BY AbsentIsNode DEF Move, Tree

-----------------------------------------------------------------------------
(* How a handler ends                                                       *)

LEMMA SnfsErrorTyped ==
  ASSUME NEW e, NEW known \in SUBSET Errs
  PROVE  snfs_error(e, known) \in Errs
BY DEF snfs_error, Errs

LEMMA AnswerKeeps ==
  ASSUME IInv, NEW op \in Ops, NEW err \in Errs, Answer(op, err),
         fds' \in 0 .. MaxFds
  PROVE  IInv'
BY DEF IInv, TypeOK, PairedDb, NoErrExit, Answer, Reply

LEMMA RefuseKeeps ==
  ASSUME IInv, NEW op \in Ops, NEW err \in Errs, Refuse(op, err)
  PROVE  IInv'
BY AnswerKeeps DEF Refuse, IInv, TypeOK

(* Also where the error is an errno that the handler translates.            *)
LEMMA RefuseErrnoKeeps ==
  ASSUME IInv, NEW op \in Ops, NEW e, NEW known \in SUBSET Errs,
         Refuse(op, snfs_error(e, known))
  PROVE  IInv'
BY RefuseKeeps, SnfsErrorTyped

LEMMA MeansTyped ==
  ASSUME meant \in [Handle -> 0 .. MaxNode], NEW h \in Handle, NEW node \in Node,
         Means(h, node)
  PROVE  meant' \in [Handle -> 0 .. MaxNode]
BY DEF Means, Node

LEMMA GrantKeeps ==
  ASSUME IInv, NEW op \in Ops, NEW p \in Path, NEW node \in Node,
         GrantFound(op, p, node), tree' \in Tree, fds' \in 0 .. MaxFds
  PROVE  IInv'
<1>1. PICK found \in name_find_or_insert(db, p, Issued) :
        /\ db' = found.db
        /\ reply' = [op |-> op, err |-> "none", fh |-> found.fh]
        /\ Means(found.fh, node)
        /\ UNCHANGED <<up, disk>>
  BY DEF GrantFound
<1>2. PairedDb(found.db) /\ found.fh \in Handle
  BY FoundPaired DEF IInv
<1>3. meant' \in [Handle -> 0 .. MaxNode]
  BY <1>1, <1>2, MeansTyped DEF IInv, TypeOK
<1>4. reply' \in Reply
  BY <1>1, <1>2 DEF Reply, Errs
<1>5. PairedDb(db)' /\ db' \in Db
  BY <1>1, <1>2 DEF PairedDb
<1>6. up' = up /\ disk' = disk /\ PairedDb(disk)'
  BY <1>1 DEF IInv, PairedDb
<1> QED BY <1>3, <1>4, <1>5, <1>6 DEF IInv, TypeOK, NoErrExit

-----------------------------------------------------------------------------
(* Every step keeps the invariant                                           *)

LEMMA InitKeeps == Init => IInv
<1> SUFFICES ASSUME Init PROVE IInv
  OBVIOUS
<1>1. EmptyTree \in Tree
  BY NodeBound DEF EmptyTree, Tree, Node, Absent
<1>2. NoReply \in Reply
  BY DEF NoReply, Reply, Ops, Errs
<1>3. EmptyDb \in Db
  BY EmptyDbPaired DEF PairedDb
<1>4. meant \in [Handle -> 0 .. MaxNode] /\ fds \in 0 .. MaxFds
  BY NodeBound, FdBound DEF Init, InitWith
<1> QED BY <1>1, <1>2, <1>3, <1>4, EmptyDbPaired DEF Init, InitWith, IInv, TypeOK, NoErrExit

(* Where a handle leads is a path. *)
LEMMA FileIsPath ==
  ASSUME IInv, NEW h \in Handle, get_file(db, h) # NoPath
  PROVE  get_file(db, h) \in Path
BY DEF IInv, TypeOK, Db, get_file

LEMMA MountKeeps ==
  ASSUME IInv, handle_mount
  PROVE  IInv'
<1>1. GrantFound("MOUNT", Root, tree[Root]) /\ tree' = tree /\ fds' = fds
  BY DEF handle_mount
<1>2. Root \in Path /\ tree[Root] \in Node /\ "MOUNT" \in Ops
  BY RootIsPath DEF IInv, TypeOK, Tree, Ops
<1>3. tree' \in Tree /\ fds' \in 0 .. MaxFds
  BY <1>1 DEF IInv, TypeOK
<1> QED BY <1>1, <1>2, <1>3, GrantKeeps

LEMMA AttrKeeps ==
  ASSUME IInv, NEW op \in Ops, NEW h \in Handle, handle_attr(op, h)
  PROVE  IInv'
<1> DEFINE p == get_file(db, h)
<1>1. {"ENOENT"} \in SUBSET Errs /\ "ENOENT" \in Errs /\ "none" \in Errs
  BY DEF Errs
<1>2. fds' = fds => fds' \in 0 .. MaxFds
  BY DEF IInv, TypeOK
<1>3. \/ Refuse(op, "ENOENT")
      \/ Answer(op, "none") /\ fds' = fds
      \/ Refuse(op, snfs_error(Stat(tree, p), {"ENOENT"}))
  BY DEF handle_attr
<1> QED BY <1>1, <1>2, <1>3, RefuseKeeps, AnswerKeeps, RefuseErrnoKeeps

LEMMA ReadKeeps ==
  ASSUME IInv, NEW h \in Handle, handle_read(h)
  PROVE  IInv'
<1> DEFINE p == get_file(db, h)
<1>1. /\ {"ENOENT"} \in SUBSET Errs /\ "READ" \in Ops
      /\ "ENOENT" \in Errs /\ "EINTERNAL" \in Errs /\ "none" \in Errs
  BY DEF Errs, Ops
<1>2. fds' = fds => fds' \in 0 .. MaxFds
  BY DEF IInv, TypeOK
<1>3. \/ Refuse("READ", "ENOENT")
      \/ Refuse("READ", snfs_error(Stat(tree, p), {"ENOENT"}))
      \/ Refuse("READ", "EINTERNAL")
      \/ Answer("READ", "none") /\ fds' = fds
  BY DEF handle_read
<1> QED BY <1>1, <1>2, <1>3, RefuseKeeps, AnswerKeeps, RefuseErrnoKeeps

LEMMA WriteKeeps ==
  ASSUME IInv, NEW h \in Handle, handle_write(h)
  PROVE  IInv'
<1> DEFINE p == get_file(db, h)
<1>1. /\ {"ENOENT"} \in SUBSET Errs /\ "WRITE" \in Ops
      /\ "ENOENT" \in Errs /\ "EINTERNAL" \in Errs /\ "none" \in Errs
  BY DEF Errs, Ops
<1>2. fds' = fds => fds' \in 0 .. MaxFds
  BY DEF IInv, TypeOK
<1>3. \/ Refuse("WRITE", "ENOENT")
      \/ Refuse("WRITE", snfs_error(Missing(tree, p), {"ENOENT"}))
      \/ Refuse("WRITE", "EINTERNAL")
      \/ Answer("WRITE", "none") /\ fds' = fds
  BY DEF handle_write
<1> QED BY <1>1, <1>2, <1>3, RefuseKeeps, AnswerKeeps, RefuseErrnoKeeps

LEMMA ReaddirKeeps ==
  ASSUME IInv, NEW h \in Handle, handle_readdir(h)
  PROVE  IInv'
<1> DEFINE p == get_file(db, h)
<1>1. /\ {"ENOENT"} \in SUBSET Errs /\ "READDIR" \in Ops
      /\ {"ENOENT", "ENOTDIR", "EINTERNAL", "none"} \subseteq Errs
  BY DEF Errs, Ops
<1>2. fds < MaxFds /\ fds' = fds + 1 => fds' \in 0 .. MaxFds
  BY FdBound DEF IInv, TypeOK
<1>3. \/ \E err \in {"ENOENT", "ENOTDIR", "EINTERNAL"} : Refuse("READDIR", err)
      \/ Refuse("READDIR", snfs_error(Stat(tree, p), {"ENOENT"}))
      \/ fds < MaxFds /\ fds' = fds + 1 /\ Answer("READDIR", "none")
  BY DEF handle_readdir
<1> QED BY <1>1, <1>2, <1>3, RefuseKeeps, AnswerKeeps, RefuseErrnoKeeps

LEMMA LookupKeeps ==
  ASSUME IInv, NEW h \in Handle, NEW name \in Name, handle_lookup(h, name)
  PROVE  IInv'
<1> DEFINE p == get_file(db, h)
           q == Append(p, name)
<1>1. /\ {"ENOENT"} \in SUBSET Errs /\ "LOOKUP" \in Ops
      /\ {"ENOENT", "ENOTDIR"} \subseteq Errs
  BY DEF Errs, Ops
<1>2. \/ \E err \in {"ENOENT", "ENOTDIR"} : Refuse("LOOKUP", err)
      \/ Refuse("LOOKUP", snfs_error(Stat(tree, p), {"ENOENT"}))
      \/ /\ q \in Path
         /\ GrantFound("LOOKUP", q, tree[q])
         /\ UNCHANGED <<tree, fds>>
  BY DEF handle_lookup
<1>3. CASE \E err \in {"ENOENT", "ENOTDIR"} : Refuse("LOOKUP", err)
  BY <1>1, <1>3, RefuseKeeps
<1>4. CASE Refuse("LOOKUP", snfs_error(Stat(tree, p), {"ENOENT"}))
  BY <1>1, <1>4, RefuseErrnoKeeps
<1>5. CASE /\ q \in Path
           /\ GrantFound("LOOKUP", q, tree[q])
           /\ UNCHANGED <<tree, fds>>
  <2>1. tree[q] \in Node /\ tree' \in Tree /\ fds' \in 0 .. MaxFds
    BY <1>5 DEF IInv, TypeOK, Tree
  <2> QED BY <1>1, <1>5, <2>1, GrantKeeps
<1> QED BY <1>2, <1>3, <1>4, <1>5

(* A node that is created is a node. *)
LEMMA FreshNode ==
  ASSUME NEW i \in 1 .. MaxNode, NEW dir \in BOOLEAN
  PROVE  [id |-> i, dir |-> dir] \in Node
BY NodeBound DEF Node

LEMMA CreateKeeps ==
  ASSUME IInv, NEW p \in Path, handle_create(p)
  PROVE  IInv'
<1>1. /\ {"ENOENT"} \in SUBSET Errs /\ "CREATE" \in Ops /\ "EINTERNAL" \in Errs
  BY DEF Errs, Ops
<1>2. CASE Refuse("CREATE", "EINTERNAL")
  BY <1>1, <1>2, RefuseKeeps
<1>3. CASE Refuse("CREATE", snfs_error(Creat(tree, p), {"ENOENT"}))
  BY <1>1, <1>3, RefuseErrnoKeeps
<1>4. CASE /\ fds < MaxFds /\ fds' = fds + 1
           /\ \/ tree' = tree
              \/ \E i \in 1 .. MaxNode : tree' = Put(tree, p, [id |-> i, dir |-> FALSE])
           /\ GrantFound("CREATE", p, tree'[p])
  <2>1. tree' \in Tree
    BY <1>4, FreshNode, PutInTree DEF IInv, TypeOK
  <2>2. tree'[p] \in Node
    BY <2>1 DEF Tree
  <2>3. fds' \in 0 .. MaxFds
    BY <1>4, FdBound DEF IInv, TypeOK
  <2> QED BY <1>1, <1>4, <2>1, <2>2, <2>3, GrantKeeps
<1> QED BY <1>2, <1>3, <1>4 DEF handle_create

LEMMA MkdirKeeps ==
  ASSUME IInv, NEW p \in Path, handle_mkdir(p)
  PROVE  IInv'
<1>1. /\ {"ENOENT"} \in SUBSET Errs /\ "MKDIR" \in Ops
  BY DEF Errs, Ops
<1>2. CASE Refuse("MKDIR", snfs_error(Mkdir(tree, p), {"ENOENT"}))
  BY <1>1, <1>2, RefuseErrnoKeeps
<1>3. CASE /\ \E i \in 1 .. MaxNode : tree' = Put(tree, p, [id |-> i, dir |-> TRUE])
           /\ GrantFound("MKDIR", p, tree'[p])
           /\ UNCHANGED fds
  <2>1. tree' \in Tree
    BY <1>3, FreshNode, PutInTree DEF IInv, TypeOK
  <2>2. tree'[p] \in Node
    BY <2>1 DEF Tree
  <2>3. fds' \in 0 .. MaxFds
    BY <1>3 DEF IInv, TypeOK
  <2> QED BY <1>1, <1>3, <2>1, <2>2, <2>3, GrantKeeps
<1> QED BY <1>2, <1>3 DEF handle_mkdir

(* In a paired database a valid handle is the handle of its path. *)
LEMMA HandleOfFile ==
  ASSUME IInv, NEW h \in Handle, get_file(db, h) # NoPath
  PROVE  /\ db.handle[get_file(db, h)] = h
         /\ db.handle[get_file(db, h)] # NoHandle
BY Sentinels DEF IInv, PairedDb, get_file

(* A REMOVE that deletes the path also deletes its records: name_remove     *)
(* does not fail.                                                           *)
LEMMA RemoveKeeps ==
  ASSUME IInv, NEW h \in Handle, NEW is_dir \in BOOLEAN, handle_remove(h, is_dir)
  PROVE  /\ IInv'
         /\ reply'.err # "none" => UNCHANGED <<tree, db>>
<1> DEFINE p == get_file(db, h)
<1>1. /\ {"ENOENT"} \in SUBSET Errs /\ {"ENOTDIR"} \in SUBSET Errs
      /\ "REMOVE" \in Ops /\ "ENOENT" \in Errs /\ "none" \in Errs
  BY DEF Errs, Ops
<1>2. CASE Refuse("REMOVE", "ENOENT")
  BY <1>1, <1>2, RefuseKeeps DEF Refuse, Answer
<1>3. CASE Refuse("REMOVE", snfs_error(RemoveCall(p, is_dir),
                              IF Exists(tree, p) THEN {"ENOTDIR"} ELSE {"ENOENT"}))
  <2>1. (IF Exists(tree, p) THEN {"ENOTDIR"} ELSE {"ENOENT"}) \in SUBSET Errs
    BY <1>1
  <2>2. IInv'
    BY <1>1, <1>3, <2>1, RefuseErrnoKeeps
  <2>3. UNCHANGED <<tree, db>>
    BY <1>3 DEF Refuse, Answer
  <2> QED BY <2>2, <2>3
<1>4. CASE /\ p # NoPath
           /\ tree' = Drop(tree, p)
           /\ db' = Removed(db, p)
           /\ up' = IF RemoveResult(db, p) = "exit" THEN "exited" ELSE up
           /\ reply' = [op |-> "REMOVE", fh |-> NoHandle,
                        err |-> IF RemoveResult(db, p) = "true" THEN "none"
                                ELSE "EINTERNAL"]
           /\ UNCHANGED <<disk, meant, fds>>
  <2>1. p \in Path /\ db.handle[p] # NoHandle
    BY <1>4, FileIsPath, HandleOfFile
  <2>2. RemoveResult(db, p) = "true"
    BY <2>1, RemoveSucceeds DEF IInv
  <2>3. up' = up /\ reply' = [op |-> "REMOVE", fh |-> NoHandle, err |-> "none"]
    BY <1>4, <2>2
  <2>4. reply' \in Reply /\ reply'.err = "none"
    BY <1>1, <2>3 DEF Reply
  <2>5. tree' \in Tree
    BY <1>4, <2>1, DropInTree DEF IInv, TypeOK
  <2>6. PairedDb(db)' /\ db' \in Db
    BY <1>4, <2>1, RemovedPaired DEF IInv, PairedDb
  <2>7. up' \in {"serving", "down", "exited"} /\ NoErrExit'
    BY <2>3 DEF IInv, TypeOK, NoErrExit
  <2>8. /\ PairedDb(disk)' /\ disk' \in Db /\ fds' \in 0 .. MaxFds
        /\ meant' \in [Handle -> 0 .. MaxNode]
    BY <1>4 DEF IInv, TypeOK, PairedDb
  <2>9. IInv'
    BY <2>4, <2>5, <2>6, <2>7, <2>8 DEF IInv, TypeOK
  <2> QED BY <2>4, <2>9
<1> QED BY <1>2, <1>3, <1>4 DEF handle_remove

(* RENAME inserts a pair for the new path before it deletes that of the     *)
(* old, which is therefore still there to be deleted.                       *)
LEMMA RenameKeeps ==
  ASSUME IInv, NEW h \in Handle, NEW q \in Path, handle_rename(h, q)
  PROVE  /\ IInv'
         /\ reply'.err # "none" => UNCHANGED <<tree, db>>
<1> DEFINE p == get_file(db, h)
<1>1. /\ {"ENOENT"} \in SUBSET Errs
      /\ "RENAME" \in Ops /\ "ENOENT" \in Errs /\ "none" \in Errs
  BY DEF Errs, Ops
<1>2. CASE Refuse("RENAME", "ENOENT")
  BY <1>1, <1>2, RefuseKeeps DEF Refuse, Answer
<1>3. CASE Refuse("RENAME", snfs_error(Rename(tree, p, q), {"ENOENT"}))
  <2>1. IInv'
    BY <1>1, <1>3, RefuseErrnoKeeps
  <2>2. UNCHANGED <<tree, db>>
    BY <1>3 DEF Refuse, Answer
  <2> QED BY <2>1, <2>2
<1>4. ASSUME p \notin {NoPath, q}, tree' = Move(tree, p, q),
             NEW found \in RenameHandle(p, q),
             db' = Removed(found.db, p),
             up' = IF RemoveResult(found.db, p) = "exit" THEN "exited" ELSE up,
             reply' = [op |-> "RENAME",
                       err |-> IF RemoveResult(found.db, p) = "true" THEN "none"
                               ELSE "EINTERNAL",
                       fh |-> IF RemoveResult(found.db, p) = "true" THEN found.fh
                              ELSE NoHandle],
             Means(found.fh, tree[p]),
             UNCHANGED <<disk, fds>>
      PROVE  IInv' /\ reply'.err = "none"
  <2>1. p \in Path /\ p # q /\ db.handle[p] # NoHandle
    BY <1>4, FileIsPath, HandleOfFile
  <2>2. /\ PairedDb(found.db) /\ found.fh \in Handle
        /\ found.db.handle[p] = db.handle[p]
    BY <1>4, <2>1, FoundPaired DEF IInv, RenameHandle
  <2>3. RemoveResult(found.db, p) = "true"
    BY <2>1, <2>2, RemoveSucceeds
  <2>4. up' = up /\ reply' = [op |-> "RENAME", err |-> "none", fh |-> found.fh]
    BY <1>4, <2>3
  <2>5. reply' \in Reply /\ reply'.err = "none"
    BY <1>1, <2>2, <2>4 DEF Reply
  <2>6. tree' \in Tree /\ tree[p] \in Node
    BY <1>4, <2>1, MoveInTree DEF IInv, TypeOK, Tree
  <2>7. meant' \in [Handle -> 0 .. MaxNode]
    BY <1>4, <2>2, <2>6, MeansTyped DEF IInv, TypeOK
  <2>8. PairedDb(db)' /\ db' \in Db
    <3>1. PairedDb(Removed(found.db, p))
      BY <2>1, <2>2, RemovedPaired
    <3>2. PairedDb(db')
      BY <1>4, <3>1
    <3> QED
      BY <3>2 DEF PairedDb
  <2>9. up' \in {"serving", "down", "exited"} /\ NoErrExit'
    BY <2>4 DEF IInv, TypeOK, NoErrExit
  <2>10. PairedDb(disk)' /\ disk' \in Db /\ fds' \in 0 .. MaxFds
    BY <1>4 DEF IInv, TypeOK, PairedDb
  <2>11. IInv'
    BY <2>5, <2>6, <2>7, <2>8, <2>9, <2>10 DEF IInv, TypeOK
  <2> QED BY <2>5, <2>11
<1> QED BY <1>2, <1>3, <1>4 DEF handle_rename

(* SIGTERM, a crash and the next start exchange the database and its file. *)
LEMMA ProcessKeeps ==
  ASSUME IInv, Terminate \/ Crash \/ Restart
  PROVE  IInv'
<1>1. NoReply \in Reply /\ 0 \in 0 .. MaxFds
  BY FdBound DEF NoReply, Reply, Ops, Errs
<1>2. CASE Terminate
  BY <1>1, <1>2 DEF Terminate, IInv, TypeOK, PairedDb, NoErrExit
<1>3. CASE Crash
  BY <1>1, <1>3 DEF Crash, IInv, TypeOK, PairedDb, NoErrExit
<1>4. CASE Restart
  BY <1>1, <1>4 DEF Restart, IInv, TypeOK, PairedDb, NoErrExit
<1> QED BY <1>2, <1>3, <1>4

-----------------------------------------------------------------------------
(* An error reply                                                           *)

(* The part of a step that ErrorChangesNothing speaks of.                   *)
ErrorIsQuiet ==
  up = "serving" /\ up' = "serving" /\ reply'.err # "none" => UNCHANGED <<tree, db>>

(* A handler that only answers, and one that grants a handle, are quiet.    *)
LEMMA AnswerIsQuiet ==
  ASSUME NEW op, NEW err, Answer(op, err)
  PROVE  ErrorIsQuiet
BY DEF Answer, ErrorIsQuiet

LEMMA RefuseIsQuiet ==
  ASSUME NEW op, NEW err, Refuse(op, err)
  PROVE  ErrorIsQuiet
BY AnswerIsQuiet DEF Refuse

LEMMA GrantIsQuiet ==
  ASSUME NEW op, NEW p, NEW node, GrantFound(op, p, node)
  PROVE  ErrorIsQuiet
BY DEF GrantFound, ErrorIsQuiet

-----------------------------------------------------------------------------
(* The theorems                                                             *)

(* Every step of the server keeps the invariant and answers an error only   *)
(* when it has changed nothing.                                             *)
LEMMA StepKeeps == IInv /\ [Next]_vars => IInv' /\ (ErrorIsQuiet \/ UNCHANGED vars)
<1> SUFFICES ASSUME IInv, [Next]_vars
             PROVE  IInv' /\ (ErrorIsQuiet \/ UNCHANGED vars)
  OBVIOUS
<1>1. CASE handle_mount
  BY <1>1, MountKeeps, GrantIsQuiet DEF handle_mount
<1>2. ASSUME NEW h \in Issued, handle_getattr(h) \/ handle_setattr(h)
      PROVE  IInv' /\ ErrorIsQuiet
  <2>1. PICK op \in {"GETATTR", "SETATTR"} : handle_attr(op, h)
    BY <1>2 DEF handle_getattr, handle_setattr
  <2>2. h \in Handle /\ op \in Ops
    BY DEF Issued, Ops
  <2>3. ErrorIsQuiet
    BY <2>1, RefuseIsQuiet, AnswerIsQuiet DEF handle_attr
  <2> QED BY <2>1, <2>2, <2>3, AttrKeeps
<1>3. ASSUME NEW h \in Issued, handle_read(h) \/ handle_write(h)
      PROVE  IInv' /\ ErrorIsQuiet
  <2>1. h \in Handle
    BY DEF Issued
  <2>2. ErrorIsQuiet
    BY <1>3, RefuseIsQuiet, AnswerIsQuiet DEF handle_read, handle_write
  <2> QED BY <1>3, <2>1, <2>2, ReadKeeps, WriteKeeps
<1>4. ASSUME NEW h \in Issued, handle_readdir(h)
      PROVE  IInv' /\ ErrorIsQuiet
  <2>1. h \in Handle
    BY DEF Issued
  <2>2. ErrorIsQuiet
    BY <1>4, RefuseIsQuiet, AnswerIsQuiet DEF handle_readdir
  <2> QED BY <1>4, <2>1, <2>2, ReaddirKeeps
<1>5. ASSUME NEW h \in Issued, NEW name \in Name, handle_lookup(h, name)
      PROVE  IInv' /\ ErrorIsQuiet
  <2>1. h \in Handle
    BY DEF Issued
  <2>2. ErrorIsQuiet
    BY <1>5, RefuseIsQuiet, GrantIsQuiet DEF handle_lookup
  <2> QED BY <1>5, <2>1, <2>2, LookupKeeps
<1>6. ASSUME NEW h \in Issued, NEW is_dir \in BOOLEAN, handle_remove(h, is_dir)
      PROVE  IInv' /\ ErrorIsQuiet
  BY <1>6, RemoveKeeps DEF Issued, ErrorIsQuiet
<1>7. ASSUME NEW h \in Issued, NEW q \in Path, handle_rename(h, q)
      PROVE  IInv' /\ ErrorIsQuiet
  BY <1>7, RenameKeeps DEF Issued, ErrorIsQuiet
<1>8. ASSUME NEW p \in Path, handle_create(p)
      PROVE  IInv' /\ ErrorIsQuiet
  <2>1. ErrorIsQuiet
    BY <1>8, RefuseIsQuiet, GrantIsQuiet DEF handle_create
  <2> QED BY <1>8, <2>1, CreateKeeps
<1>9. ASSUME NEW p \in Path, handle_mkdir(p)
      PROVE  IInv' /\ ErrorIsQuiet
  <2>1. ErrorIsQuiet
    BY <1>9, RefuseIsQuiet, GrantIsQuiet DEF handle_mkdir
  <2> QED BY <1>9, <2>1, MkdirKeeps
<1>10. CASE Terminate \/ Crash \/ Restart
  <2>1. ErrorIsQuiet
    BY <1>10 DEF Terminate, Crash, Restart, ErrorIsQuiet
  <2> QED BY <1>10, <2>1, ProcessKeeps
<1>11. CASE handle_noop \/ handle_unimplemented
  <2>1. {"NOOP", "other"} \subseteq Ops /\ {"none", "ENOTIMPL"} \subseteq Errs
    BY DEF Ops, Errs
  <2>2. CASE handle_noop
    BY <2>1, <2>2, AnswerKeeps, AnswerIsQuiet DEF handle_noop, IInv, TypeOK
  <2>3. CASE handle_unimplemented
    BY <2>1, <2>3, RefuseKeeps, RefuseIsQuiet DEF handle_unimplemented
  <2> QED BY <1>11, <2>2, <2>3
<1>12. CASE UNCHANGED vars
  BY <1>12 DEF vars, IInv, TypeOK, PairedDb, NoErrExit
<1> QED BY <1>1, <1>2, <1>3, <1>4, <1>5, <1>6, <1>7, <1>8, <1>9, <1>10, <1>11,
           <1>12 DEF Next

(* The inductive invariant holds in every state of the server. *)
THEOREM Invariance == Spec => []IInv
<1>1. IInv /\ [Next]_vars => IInv'
  BY StepKeeps
<1> QED BY InitKeeps, <1>1, PTL DEF Spec

(* TypeCorrect: every variable of the server keeps its type. *)
THEOREM TypeCorrect == Spec => []TypeOK
<1>1. IInv => TypeOK
  BY DEF IInv
<1> QED BY Invariance, <1>1, PTL

(* HandlesPaired: however requests, crashes and restarts follow each other, *)
(* the two records of a handle are in the database together and agree.      *)
THEOREM HandlesPaired == Spec => []Paired
<1>1. IInv => Paired
  BY DEF IInv, PairedDb, Paired, Valid
<1> QED BY Invariance, <1>1, PTL

(* NeverErrExit: name_remove never ends the server: REMOVE and RENAME find  *)
(* both records of the handle they delete.                                  *)
THEOREM NeverErrExit == Spec => []NoErrExit
<1>1. IInv => NoErrExit
  BY DEF IInv
<1> QED BY Invariance, <1>1, PTL

(* ErrorsAreHarmless: a request answered with an error has changed neither  *)
(* the served directory nor a handle, because REMOVE and RENAME, which      *)
(* change the directory before the database, then find the records they     *)
(* delete.                                                                  *)
THEOREM ErrorsAreHarmless == Spec => ErrorChangesNothing
<1>1. IInv /\ [Next]_vars => [ErrorIsQuiet]_vars
  BY StepKeeps
<1>2. ErrorIsQuiet <=> (up = "serving" /\ up' = "serving" /\ reply'.err # "none"
                          => UNCHANGED <<tree, db>>)
  BY DEF ErrorIsQuiet
<1> QED BY Invariance, <1>1, <1>2, PTL DEF Spec, ErrorChangesNothing, ErrorIsQuiet

-----------------------------------------------------------------------------
(***************************************************************************)
(* File handles: what the replies promise of them                          *)
(***************************************************************************)

(* The kinds of steps: what a handler does to the tree and to the handles.  *)

Quiet == UNCHANGED <<up, tree, db, disk, meant>> /\ reply'.fh = NoHandle

(* The file or directory at p is there, or has just been created.           *)
Found(p) == tree' = tree /\ Exists(tree, p)

Created(p) ==
  /\ p # Root /\ ~Exists(tree, p) /\ IsDir(tree, Parent(p))
  /\ \E i \in 1 .. MaxNode, dir \in BOOLEAN :
       Fresh(i) /\ tree' = Put(tree, p, [id |-> i, dir |-> dir])

Grants(p) ==
  /\ Found(p) \/ Created(p)
  /\ \E found \in name_find_or_insert(db, p, Issued) :
       /\ db' = found.db
       /\ reply'.fh = found.fh
       /\ Means(found.fh, tree'[p])
  /\ reply'.op # "RENAME"
  /\ UNCHANGED <<up, disk>>

Removes(p) ==
  /\ p # Root /\ db.handle[p] # NoHandle
  /\ Exists(tree, p) /\ (IsDir(tree, p) => IsEmpty(tree, p))
  /\ tree' = Drop(tree, p)
  /\ db' = Removed(db, p)
  /\ reply'.fh = NoHandle
  /\ UNCHANGED <<up, disk, meant>>

Renamed(p, q) ==
  /\ p \notin {Root, q} /\ q # Root
  /\ db.handle[p] # NoHandle
  /\ Rename(tree, p, q) = "ok" /\ RenameKind(p, q) \in Renames
  /\ tree' = Move(tree, p, q)
  /\ \E found \in name_find_or_insert(db, q, Issued) :
       /\ db' = Removed(found.db, p)
       /\ reply'.fh = found.fh
       /\ Means(found.fh, tree[p])
  /\ UNCHANGED <<up, disk>>

Kinds ==
  \/ up = "serving" /\ Quiet
  \/ up = "serving" /\ \E p \in Path : Grants(p) \/ Removes(p)
  \/ up = "serving" /\ \E p, q \in Path : Renamed(p, q)
  \/ Terminate \/ Crash \/ Restart
  \/ UNCHANGED vars

LEMMA AnswerKind ==
  ASSUME NEW op, NEW err, Answer(op, err)
  PROVE  Quiet
BY DEF Answer, Quiet

LEMMA RefuseKind ==
  ASSUME NEW op, NEW err, Refuse(op, err)
  PROVE  Quiet
BY AnswerKind DEF Refuse

LEMMA GrantKind ==
  ASSUME NEW op, op # "RENAME", NEW p, GrantFound(op, p, tree'[p]),
         Found(p) \/ Created(p)
  PROVE  Grants(p)
BY DEF GrantFound, Grants

(* The handlers that change nothing.                                        *)
LEMMA ReadingKinds ==
  ASSUME NEW h,
         \/ handle_noop \/ handle_unimplemented
         \/ handle_getattr(h) \/ handle_setattr(h)
         \/ handle_read(h) \/ handle_write(h) \/ handle_readdir(h)
  PROVE  up = "serving" /\ Quiet
<1>1. \A op : handle_attr(op, h) => up = "serving" /\ Quiet
  BY AnswerKind, RefuseKind DEF handle_attr
<1>2. handle_read(h) => up = "serving" /\ Quiet
  BY AnswerKind, RefuseKind DEF handle_read
<1>3. handle_write(h) => up = "serving" /\ Quiet
  BY AnswerKind, RefuseKind DEF handle_write
<1>4. handle_readdir(h) => up = "serving" /\ Quiet
  BY AnswerKind, RefuseKind DEF handle_readdir
<1>5. handle_noop \/ handle_unimplemented => up = "serving" /\ Quiet
  BY AnswerKind, RefuseKind DEF handle_noop, handle_unimplemented
<1> QED BY <1>1, <1>2, <1>3, <1>4, <1>5 DEF handle_getattr, handle_setattr

LEMMA LookupKind ==
  ASSUME NEW h, NEW name, handle_lookup(h, name)
  PROVE  up = "serving" /\ (Quiet \/ \E p \in Path : Grants(p))
<1> DEFINE q == Append(get_file(db, h), name)
<1>1. CASE /\ q \in Path /\ Exists(tree, q)
           /\ GrantFound("LOOKUP", q, tree[q])
           /\ UNCHANGED <<tree, fds>>
  <2>1. Found(q) /\ GrantFound("LOOKUP", q, tree'[q])
    BY <1>1 DEF Found
  <2>2. Grants(q)
    BY <2>1, GrantKind
  <2> QED BY <1>1, <2>2 DEF handle_lookup
<1>2. CASE \E err : Refuse("LOOKUP", err)
  BY <1>2, RefuseKind DEF handle_lookup
<1> QED BY <1>1, <1>2 DEF handle_lookup

LEMMA MountKind ==
  ASSUME IInv, IsDir(tree, Root), handle_mount
  PROVE  up = "serving" /\ \E p \in Path : Grants(p)
<1>1. up = "serving" /\ Found(Root) /\ GrantFound("MOUNT", Root, tree'[Root])
  BY DEF handle_mount, Found, Exists, IsDir, Absent
<1> QED BY <1>1, GrantKind, RootIsPath

LEMMA CreateKind ==
  ASSUME NEW p \in Path \ {Root}, handle_create(p)
  PROVE  up = "serving" /\ (Quiet \/ Grants(p))
<1>1. CASE \E err : Refuse("CREATE", err)
  BY <1>1, RefuseKind DEF handle_create
<1>2. CASE /\ Creat(tree, p) = "ok"
           /\ \/ Exists(tree, p) /\ tree' = tree
              \/ ~Exists(tree, p) /\ \E i \in 1 .. MaxNode :
                   Fresh(i) /\ tree' = Put(tree, p, [id |-> i, dir |-> FALSE])
           /\ GrantFound("CREATE", p, tree'[p])
  <2>1. ~Exists(tree, p) => IsDir(tree, Parent(p))
    BY <1>2 DEF Creat, Missing
  <2>2. Found(p) \/ Created(p)
    BY <1>2, <2>1 DEF Found, Created
  <2> QED BY <1>2, <2>2, GrantKind DEF handle_create
<1> QED BY <1>1, <1>2 DEF handle_create

LEMMA MkdirKind ==
  ASSUME NEW p \in Path \ {Root}, handle_mkdir(p)
  PROVE  up = "serving" /\ (Quiet \/ Grants(p))
<1>1. CASE \E err : Refuse("MKDIR", err)
  BY <1>1, RefuseKind DEF handle_mkdir
<1>2. CASE /\ Mkdir(tree, p) = "ok"
           /\ \E i \in 1 .. MaxNode :
                Fresh(i) /\ tree' = Put(tree, p, [id |-> i, dir |-> TRUE])
           /\ GrantFound("MKDIR", p, tree'[p])
  <2>1. ~Exists(tree, p) /\ IsDir(tree, Parent(p))
    BY <1>2 DEF Mkdir, Missing
  <2>2. Created(p)
    BY <1>2, <2>1 DEF Created
  <2> QED BY <1>2, <2>2, GrantKind DEF handle_mkdir
<1> QED BY <1>1, <1>2 DEF handle_mkdir

LEMMA RemoveKind ==
  ASSUME IInv, IsDir(tree, Root), NEW h \in Handle, NEW is_dir \in BOOLEAN,
         handle_remove(h, is_dir)
  PROVE  up = "serving" /\ (Quiet \/ \E p \in Path : Removes(p))
<1> DEFINE p == get_file(db, h)
<1>1. CASE \E err : Refuse("REMOVE", err)
  BY <1>1, RefuseKind DEF handle_remove
<1>2. CASE /\ p # NoPath
           /\ RemoveCall(p, is_dir) = "ok"
           /\ tree' = Drop(tree, p)
           /\ db' = Removed(db, p)
           /\ up' = IF RemoveResult(db, p) = "exit" THEN "exited" ELSE up
           /\ reply'.fh = NoHandle
           /\ UNCHANGED <<disk, meant>>
  <2>1. p \in Path /\ db.handle[p] # NoHandle
    BY <1>2, FileIsPath, HandleOfFile
  <2>2. up' = up
    BY <1>2, <2>1, RemoveSucceeds DEF IInv
  <2>3. Exists(tree, p) /\ p # Root /\ (IsDir(tree, p) => IsEmpty(tree, p))
    BY <1>2 DEF RemoveCall, Rmdir, Unlink, Missing
  <2> HIDE DEF p
  <2>4. Removes(p)
    BY <1>2, <2>1, <2>2, <2>3 DEF Removes
  <2> QED BY <2>1, <2>4 DEF handle_remove
<1>3. reply' = [op |-> "REMOVE", fh |-> NoHandle,
                err |-> IF RemoveResult(db, p) = "true" THEN "none" ELSE "EINTERNAL"]
      => reply'.fh = NoHandle
  OBVIOUS
<1> QED BY <1>1, <1>2, <1>3 DEF handle_remove

LEMMA RenamingKind ==
  ASSUME IInv, NEW h \in Handle, NEW q \in Path \ {Root}, handle_rename(h, q)
  PROVE  up = "serving" /\ (Quiet \/ \E p \in Path : Renamed(p, q))
<1> DEFINE p == get_file(db, h)
<1>1. CASE \E err : Refuse("RENAME", err)
  BY <1>1, RefuseKind DEF handle_rename
<1>2. ASSUME p \notin {NoPath, q}, Rename(tree, p, q) = "ok",
             RenameKind(p, q) \in Renames, tree' = Move(tree, p, q),
             NEW found \in RenameHandle(p, q),
             db' = Removed(found.db, p),
             up' = IF RemoveResult(found.db, p) = "exit" THEN "exited" ELSE up,
             reply' = [op |-> "RENAME",
                       err |-> IF RemoveResult(found.db, p) = "true" THEN "none"
                               ELSE "EINTERNAL",
                       fh |-> IF RemoveResult(found.db, p) = "true" THEN found.fh
                              ELSE NoHandle],
             Means(found.fh, tree[p]),
             disk' = disk
      PROVE  \E r \in Path : Renamed(r, q)
  <2>1. p \in Path /\ p # q /\ db.handle[p] # NoHandle
    BY <1>2, FileIsPath, HandleOfFile
  <2>2. PairedDb(found.db) /\ found.db.handle[p] = db.handle[p]
    BY <1>2, <2>1, FoundPaired DEF IInv, RenameHandle
  <2>3. RemoveResult(found.db, p) = "true"
    BY <2>1, <2>2, RemoveSucceeds
  <2>4. up' = up /\ reply'.fh = found.fh
    BY <1>2, <2>3
  <2>5. p # Root
    BY <1>2 DEF Rename, Missing
  <2> HIDE DEF p
  <2>6. Renamed(p, q)
    BY <1>2, <2>1, <2>4, <2>5 DEF Renamed, RenameHandle
  <2> QED BY <2>1, <2>6
<1> QED BY <1>1, <1>2 DEF handle_rename

(* Every step of the server is of one of the kinds.                         *)
LEMMA StepKinds == IInv /\ IsDir(tree, Root) /\ [Next]_vars => Kinds
<1> SUFFICES ASSUME IInv, IsDir(tree, Root), [Next]_vars PROVE Kinds
  OBVIOUS
<1>1. CASE handle_noop \/ handle_unimplemented \/ handle_mount
  BY <1>1, ReadingKinds, MountKind DEF Kinds
<1>2. ASSUME NEW h \in Issued,
             \/ handle_getattr(h) \/ handle_setattr(h)
             \/ handle_read(h) \/ handle_write(h) \/ handle_readdir(h)
             \/ \E name \in Name : handle_lookup(h, name)
      PROVE  Kinds
  BY <1>2, ReadingKinds, LookupKind DEF Kinds
<1>3. ASSUME NEW h \in Issued, NEW is_dir \in BOOLEAN, handle_remove(h, is_dir)
      PROVE  Kinds
  BY <1>3, RemoveKind DEF Kinds, Issued
<1>4. ASSUME NEW h \in Issued, NEW q \in Path \ {Root}, handle_rename(h, q)
      PROVE  Kinds
  BY <1>4, RenamingKind DEF Kinds, Issued
<1>5. ASSUME NEW p \in Path \ {Root}, handle_create(p) \/ handle_mkdir(p)
      PROVE  Kinds
  BY <1>5, CreateKind, MkdirKind DEF Kinds
<1> QED BY <1>1, <1>2, <1>3, <1>4, <1>5 DEF Next, Kinds

-----------------------------------------------------------------------------
(* What the database operations do to one handle and to one path            *)

LEMMA FoundFacts ==
  ASSUME NEW d, PairedDb(d), NEW p \in Path, NEW drawn,
         NEW found \in name_find_or_insert(d, p, drawn)
  PROVE  /\ found.fh \in Handle
         /\ found.db.path[found.fh] = p /\ found.db.handle[p] = found.fh
         /\ d.handle[p] # NoHandle => found.db = d /\ found.fh = d.handle[p]
         /\ d.handle[p] = NoHandle =>
              /\ found.fh \notin drawn /\ d.path[found.fh] = NoPath
              /\ \A g \in Handle \ {found.fh} : found.db.path[g] = d.path[g]
<1>1. CASE d.handle[p] # NoHandle
  BY <1>1 DEF name_find_or_insert, PairedDb, Db
<1>2. CASE d.handle[p] = NoHandle
  <2>1. PICK h \in generate_new_fhandle(d, drawn) :
          found = [fh |-> h, db |-> new_fhandle(d, p, h)]
    BY <1>2 DEF name_find_or_insert
  <2>2. h \in Handle \ drawn /\ d.path[h] = NoPath
    BY DEF generate_new_fhandle, get_file
  <2> QED BY <1>2, <2>1, <2>2 DEF new_fhandle, PairedDb, Db
<1> QED BY <1>1, <1>2

LEMMA RemovedFacts ==
  ASSUME NEW d, PairedDb(d), NEW p \in Path, d.handle[p] # NoHandle
  PROVE  /\ d.handle[p] \in Handle /\ d.path[d.handle[p]] = p
         /\ Removed(d, p).path[d.handle[p]] = NoPath
         /\ \A g \in Handle \ {d.handle[p]} :
              Removed(d, p).path[g] = d.path[g] /\ d.path[g] # p
         /\ \A r \in Path \ {p} : Removed(d, p).handle[r] = d.handle[r]
BY Sentinels DEF PairedDb, Db, Removed

(* RENAME inserts a pair for q and deletes that of p. *)
LEMMA RenewFacts ==
  ASSUME NEW d, PairedDb(d), NEW p \in Path, NEW q \in Path, p # q,
         d.handle[p] # NoHandle, NEW drawn,
         NEW found \in name_find_or_insert(d, q, drawn)
  PROVE  /\ found.fh \in Handle /\ found.fh # d.handle[p]
         /\ Removed(found.db, p).path[found.fh] = q
         /\ \A r \in Path \ {p} : d.handle[r] # NoHandle
              => Removed(found.db, p).handle[r] = d.handle[r]
<1>1. /\ PairedDb(found.db) /\ found.fh \in Handle
      /\ \A r \in Path \ {q} : found.db.handle[r] = d.handle[r]
  BY FoundPaired
<1>2. /\ found.db.path[found.fh] = q
      /\ d.handle[q] # NoHandle => found.db.handle[q] = d.handle[q]
  BY FoundFacts
<1>3. found.db.handle[p] = d.handle[p]
  BY <1>1
<1>4. /\ found.db.path[d.handle[p]] = p
      /\ \A g \in Handle \ {d.handle[p]} :
           Removed(found.db, p).path[g] = found.db.path[g]
      /\ \A r \in Path \ {p} : Removed(found.db, p).handle[r] = found.db.handle[r]
  BY <1>1, <1>3, RemovedFacts
<1> QED BY <1>1, <1>2, <1>4

-----------------------------------------------------------------------------
(* What the calls do to one path                                            *)

LEMMA PutAt ==
  ASSUME NEW t \in Tree, NEW p \in Path, NEW node
  PROVE  Put(t, p, node)[p] = node /\ \A r \in Path \ {p} : Put(t, p, node)[r] = t[r]
BY DEF Put, Tree

LEMMA DropAt ==
  ASSUME NEW t \in Tree, NEW p \in Path
  PROVE  Drop(t, p)[p] = Absent /\ \A r \in Path \ {p} : Drop(t, p)[r] = t[r]
BY DEF Drop, Tree

LEMMA MoveAt ==
  ASSUME NEW t \in Tree, NEW p \in Path, NEW q \in Path, Root \notin {p, q}, p # q,
         Rename(t, p, q) = "ok"
  PROVE  /\ Exists(t, p)
         /\ Move(t, p, q)[q] = t[p] /\ Move(t, p, q)[p] = Absent
         /\ Move(t, p, q)[Root] = t[Root]
<1>1. Exists(t, p) /\ ~Under(q, p)
  BY DEF Rename, Missing
<1>2. Root \in Path /\ ~Under(q, Root) /\ ~Under(p, Root)
  BY RootIsPath DEF Under, Root, Path
<1> QED BY <1>1, <1>2 DEF Move

-----------------------------------------------------------------------------
(* Granted handles, for any requests and any ends of the process            *)

(* A process that is not there has written its database, or has lost it,    *)
(* and its last reply granted nothing.                                      *)
GInv ==
  /\ IInv
  /\ IsDir(tree, Root)
  /\ GrantedHandleWorks
  /\ up # "serving" => db = disk /\ reply.fh = NoHandle

(* The steps that RenameKeepsFile and PathKeepsHandle allow. *)
RenameStep ==
  tree' # tree /\ reply'.op = "RENAME" /\ reply'.fh # NoHandle =>
    \E p \in Path :
      /\ Exists(tree, p) /\ ~Exists(tree', p)
      /\ Valid(reply.fh)' /\ Reached(reply.fh)' = tree[p]

PathStep ==
  ~Dies =>
    \A p \in Path :
      Exists(tree, p) /\ tree'[p] = tree[p] /\ db.handle[p] # NoHandle
        => db'.handle[p] = db.handle[p]

GoodStep ==
  /\ IsDir(tree, Root)' /\ GrantedHandleWorks'
  /\ (up # "serving" => db = disk /\ reply.fh = NoHandle)'
  /\ RenameStep /\ PathStep

LEMMA GoodQuiet ==
  ASSUME GInv, up = "serving", Quiet
  PROVE  GoodStep
BY DEF GInv, Quiet, GoodStep, GrantedHandleWorks, RenameStep, PathStep, IsDir

LEMMA GoodGrants ==
  ASSUME GInv, up = "serving", NEW p \in Path, Grants(p)
  PROVE  GoodStep
<1>1. tree \in Tree /\ PairedDb(db)
  BY DEF GInv, IInv, TypeOK
<1>2. PICK found \in name_find_or_insert(db, p, Issued) :
        db' = found.db /\ reply'.fh = found.fh
  BY DEF Grants
<1>3. /\ found.fh \in Handle /\ db'.path[found.fh] = p
      /\ \A r \in Path : db.handle[r] # NoHandle => db'.handle[r] = db.handle[r]
  BY <1>1, <1>2, FoundFacts, FoundPaired
<1>4. Exists(tree', p) /\ tree'[Root] = tree[Root]
  <2>1. CASE Found(p)
    BY <2>1 DEF Found
  <2>2. CASE Created(p)
    <3>1. PICK i \in 1 .. MaxNode, dir \in BOOLEAN :
            tree' = Put(tree, p, [id |-> i, dir |-> dir])
      BY <2>2 DEF Created
    <3>2. p # Root
      BY <2>2 DEF Created
    <3>3. tree'[p] = [id |-> i, dir |-> dir] /\ tree'[Root] = tree[Root]
      BY <1>1, <3>1, <3>2, PutAt, RootIsPath
    <3> QED BY <3>3 DEF Exists, Absent
  <2> QED BY <2>1, <2>2 DEF Grants
<1>5. Valid(reply.fh)' /\ Exists(tree, db.path[reply.fh])'
  BY <1>2, <1>3, <1>4, Sentinels DEF Valid, Exists
<1>6. RenameStep
  BY DEF Grants, RenameStep
<1>7. PathStep
  BY <1>3 DEF PathStep
<1> QED BY <1>4, <1>5, <1>6, <1>7 DEF GoodStep, GrantedHandleWorks, Grants, IsDir, GInv

LEMMA GoodRemoves ==
  ASSUME GInv, up = "serving", NEW p \in Path, Removes(p)
  PROVE  GoodStep
<1>1. tree \in Tree /\ PairedDb(db)
  BY DEF GInv, IInv, TypeOK
<1>2. /\ p # Root /\ Exists(tree, p) /\ tree' = Drop(tree, p)
      /\ db.handle[p] # NoHandle /\ db' = Removed(db, p)
      /\ reply'.fh = NoHandle /\ up' = up
  BY DEF Removes
<1>3. tree'[p] = Absent /\ tree'[Root] = tree[Root]
  BY <1>1, <1>2, DropAt, RootIsPath
<1>4. \A r \in Path \ {p} : db'.handle[r] = db.handle[r]
  BY <1>1, <1>2, RemovedFacts
<1>5. PathStep
  BY <1>2, <1>3, <1>4 DEF PathStep, Exists
<1> QED BY <1>2, <1>3, <1>5 DEF GoodStep, RenameStep, GrantedHandleWorks, IsDir, GInv

LEMMA GoodRenamed ==
  ASSUME GInv, up = "serving", NEW p \in Path, NEW q \in Path, Renamed(p, q)
  PROVE  GoodStep
<1>1. tree \in Tree /\ PairedDb(db)
  BY DEF GInv, IInv, TypeOK
<1>2. /\ Root \notin {p, q} /\ p # q /\ db.handle[p] # NoHandle
      /\ Rename(tree, p, q) = "ok" /\ tree' = Move(tree, p, q) /\ up' = up
  BY DEF Renamed
<1>3. PICK found \in name_find_or_insert(db, q, Issued) :
        db' = Removed(found.db, p) /\ reply'.fh = found.fh
  BY DEF Renamed
<1>4. /\ found.fh \in Handle /\ db'.path[found.fh] = q
      /\ \A r \in Path \ {p} : db.handle[r] # NoHandle => db'.handle[r] = db.handle[r]
  BY <1>1, <1>2, <1>3, RenewFacts
<1>5. /\ Exists(tree, p) /\ tree'[q] = tree[p] /\ tree'[p] = Absent
      /\ tree'[Root] = tree[Root]
  BY <1>1, <1>2, MoveAt
<1>6. Valid(reply.fh)' /\ Reached(reply.fh)' = tree[p]
  BY <1>3, <1>4, <1>5, Sentinels DEF Valid, Reached
<1>7. GrantedHandleWorks' /\ RenameStep
  BY <1>5, <1>6 DEF RenameStep, GrantedHandleWorks, Exists, Reached
<1>8. PathStep
  BY <1>4, <1>5 DEF PathStep, Exists
<1> QED BY <1>2, <1>5, <1>7, <1>8 DEF GoodStep, IsDir, GInv

LEMMA GoodProcess ==
  ASSUME GInv, Terminate \/ Crash \/ Restart
  PROVE  GoodStep
<1>1. CASE Terminate
  BY <1>1 DEF GInv, Terminate, GoodStep, GrantedHandleWorks, RenameStep, PathStep, IsDir, NoReply
<1>2. CASE Crash
  BY <1>2 DEF GInv, Crash, GoodStep, GrantedHandleWorks, RenameStep, PathStep, Dies, IsDir, NoReply
<1>3. CASE Restart
  BY <1>3 DEF GInv, Restart, GoodStep, GrantedHandleWorks, RenameStep, PathStep, IsDir
<1> QED BY <1>1, <1>2, <1>3

LEMMA GoodSteps == GInv /\ [Next]_vars => GInv' /\ [RenameStep /\ PathStep]_vars
<1> SUFFICES ASSUME GInv, [Next]_vars
             PROVE  GInv' /\ [RenameStep /\ PathStep]_vars
  OBVIOUS
<1>1. IInv' /\ Kinds
  BY StepKeeps, StepKinds DEF GInv
<1>2. CASE UNCHANGED vars
  BY <1>1, <1>2 DEF vars, GInv, GrantedHandleWorks, Valid, Exists, IsDir
<1>3. CASE ~UNCHANGED vars
  <2>1. GoodStep
    BY <1>1, <1>3, GoodQuiet, GoodGrants, GoodRemoves, GoodRenamed, GoodProcess DEF Kinds
  <2> QED BY <1>1, <2>1 DEF GoodStep, GInv
<1> QED BY <1>2, <1>3

LEMMA GoodInit == Init => GInv
<1> SUFFICES ASSUME Init PROVE GInv
  OBVIOUS
<1>1. IsDir(tree, Root)
  BY RootIsPath DEF Init, InitWith, EmptyTree, IsDir
<1> QED BY <1>1, InitKeeps DEF GInv, Init, InitWith, NoReply, GrantedHandleWorks

LEMMA GoodInvariance == Spec => []GInv
<1>1. GInv /\ [Next]_vars => GInv'
  BY GoodSteps
<1> QED BY GoodInit, <1>1, PTL DEF Spec

(* GrantsWork: a handle in a reply leads to a file or directory that exists *)
(* until the next request, whatever handle MOUNT, LOOKUP, CREATE, MKDIR or  *)
(* RENAME found or inserted.                                                *)
THEOREM GrantsWork == Spec => []GrantedHandleWorks
<1>1. GInv => GrantedHandleWorks
  BY DEF GInv
<1> QED BY GoodInvariance, <1>1, PTL

(* RenamesKeepFile: the handle in the reply to a RENAME leads to the file   *)
(* or directory that was renamed, which is gone from its old path.          *)
THEOREM RenamesKeepFile == Spec => RenameKeepsFile
<1>1. GInv /\ [Next]_vars => [RenameStep]_vars
  BY GoodSteps
<1> QED BY GoodInvariance, <1>1, PTL DEF Spec, RenameKeepsFile, RenameStep

(* PathsKeepHandle: a file or directory that stays at its path keeps the    *)
(* handle of the path, unless the server dies without closing its database. *)
THEOREM PathsKeepHandle == Spec => PathKeepsHandle
<1>1. GInv /\ [Next]_vars => [PathStep]_vars
  BY GoodSteps
<1> QED BY GoodInvariance, <1>1, PTL DEF Spec, PathKeepsHandle, PathStep

-----------------------------------------------------------------------------
(* The shape of the tree                                                    *)

(* No two paths lead to one file or directory, and every name that leads to *)
(* something is in a directory.                                             *)
Shape(t) ==
  /\ \A p \in Path : Exists(t, p) => t[p].id # 0
  /\ \A p, q \in Path : Exists(t, p) /\ Exists(t, q) /\ t[p].id = t[q].id => p = q
  /\ \A p, q \in Path : Under(p, q) /\ Exists(t, q) => IsDir(t, p)

LEMMA PathSeq ==
  ASSUME NEW p \in Path
  PROVE  p \in Seq(Name) /\ Len(p) \in 0 .. MaxDepth
BY DepthBound DEF Path

LEMMA SeqPath ==
  ASSUME NEW p \in Seq(Name), Len(p) <= MaxDepth
  PROVE  p \in Path
BY DepthBound DEF Path

LEMMA UnderParent ==
  ASSUME NEW a \in Path, NEW p \in Path \ {Root}
  PROVE  /\ Parent(p) \in Path
         /\ Under(a, p) => a = Parent(p) \/ Under(a, Parent(p))
<1>1. /\ p \in Seq(Name) /\ Len(p) \in 0 .. MaxDepth /\ Len(p) \in Nat
      /\ a \in Seq(Name) /\ Len(a) \in Nat /\ Len(p) # 0
  BY PathSeq, DepthBound DEF Root
<1>2. /\ Parent(p) \in Seq(Name) /\ Len(Parent(p)) = Len(p) - 1
      /\ \A i \in 1 .. Len(p) - 1 : Parent(p)[i] = p[i]
  <2>1. /\ 1 \in Int /\ Len(p) - 1 \in Int /\ 1 <= Len(p)
        /\ \A i \in 1 .. Len(p) - 1 : p[i] \in Name
    BY <1>1
  <2>2. /\ Parent(p) \in Seq(Name)
        /\ Len(Parent(p)) = IF 1 <= Len(p) - 1 THEN Len(p) - 1 - 1 + 1 ELSE 0
        /\ \A i \in 1 .. Len(p) - 1 - 1 + 1 : Parent(p)[i] = p[1 + i - 1]
    BY <2>1, SubSeqProperties DEF Parent
  <2>3. \A n \in Nat : n # 0 =>
          /\ n - 1 = IF 1 <= n - 1 THEN n - 1 - 1 + 1 ELSE 0
          /\ n - 1 - 1 + 1 = n - 1
    OBVIOUS
  <2>4. Len(Parent(p)) = Len(p) - 1
    BY <1>1, <2>2, <2>3
  <2>5. ASSUME NEW i \in 1 .. Len(p) - 1 PROVE Parent(p)[i] = p[i]
    <3>1. 1 + i - 1 = i /\ Len(p) - 1 - 1 + 1 = Len(p) - 1
      BY <1>1, <2>1
    <3> QED BY <2>2, <3>1
  <2> QED BY <2>2, <2>4, <2>5
<1>3. Parent(p) \in Path
  BY <1>1, <1>2, SeqPath, DepthBound
<1>4. ASSUME Under(a, p) PROVE a = Parent(p) \/ Under(a, Parent(p))
  <2>1. Len(a) < Len(p) /\ SubSeq(p, 1, Len(a)) = a
    BY <1>4 DEF Under
  <2>2. CASE Len(a) = Len(p) - 1
    BY <2>1, <2>2 DEF Parent
  <2>3. CASE Len(a) < Len(p) - 1
    <3>1. SubSeq(Parent(p), 1, Len(a)) = SubSeq(p, 1, Len(a))
      BY <1>1, <1>2, <2>3
    <3> QED BY <1>2, <2>1, <2>3, <3>1 DEF Under
  <2> QED BY <1>1, <2>1, <2>2, <2>3
<1> QED BY <1>3, <1>4

(* What is under q is under p once it is moved there. *)
LEMMA RebaseUnder ==
  ASSUME NEW p \in Path, NEW q \in Path, NEW r \in Path, Under(q, r)
  PROVE  Under(p, Rebase(r, q, p))
<1>1. /\ p \in Seq(Name) /\ q \in Seq(Name) /\ r \in Seq(Name)
      /\ Len(p) \in Nat /\ Len(q) \in Nat /\ Len(r) \in Nat /\ Len(q) < Len(r)
  BY PathSeq, DepthBound DEF Under
<1> DEFINE tail == SubSeq(r, Len(q) + 1, Len(r))
<1>2. tail \in Seq(Name) /\ Len(tail) = Len(r) - Len(q)
  BY <1>1
<1> HIDE DEF tail
<1>3. /\ p \o tail \in Seq(Name) /\ Len(p \o tail) = Len(p) + Len(tail)
      /\ \A i \in 1 .. Len(p) : (p \o tail)[i] = p[i]
  <2>1. \A i \in 1 .. Len(p) + Len(tail) :
          (p \o tail)[i] = IF i <= Len(p) THEN p[i] ELSE tail[i - Len(p)]
    BY <1>1, <1>2, ConcatProperties
  <2>2. p \o tail \in Seq(Name) /\ Len(p \o tail) = Len(p) + Len(tail)
    BY <1>1, <1>2, ConcatProperties
  <2>3. \A i \in 1 .. Len(p) : i \in 1 .. Len(p) + Len(tail)
    BY <1>1, <1>2
  <2> QED BY <2>1, <2>2, <2>3
<1>4. SubSeq(p \o tail, 1, Len(p)) = p
  BY <1>1, <1>2, <1>3
<1> QED BY <1>1, <1>2, <1>3, <1>4 DEF Under, Rebase, tail

LEMMA ShapePut ==
  ASSUME NEW t \in Tree, Shape(t), NEW p \in Path \ {Root},
         ~Exists(t, p), IsDir(t, Parent(p)),
         NEW i \in 1 .. MaxNode, \A r \in Path : t[r].id # i, NEW dir \in BOOLEAN
  PROVE  Shape(Put(t, p, [id |-> i, dir |-> dir]))
<1> DEFINE u == Put(t, p, [id |-> i, dir |-> dir])
<1>1. u[p] = [id |-> i, dir |-> dir] /\ \A r \in Path \ {p} : u[r] = t[r]
  BY PutAt
<1> HIDE DEF u
<1>2. \A r \in Path : IsDir(t, r) => Exists(t, r)
  BY DEF IsDir, Exists, Absent
<1>3. \A r \in Path : Exists(u, r) => u[r].id # 0
  BY <1>1 DEF Shape, Exists
<1>4. \A r, s \in Path : Exists(u, r) /\ Exists(u, s) /\ u[r].id = u[s].id => r = s
  BY <1>1 DEF Shape, Exists
<1>5. ASSUME NEW r \in Path, NEW s \in Path, Under(r, s), Exists(u, s)
      PROVE  IsDir(u, r)
  <2>1. CASE s = p
    <3>1. IsDir(t, r)
      <4>1. r = Parent(p) \/ Under(r, Parent(p))
        BY <1>5, <2>1, UnderParent
      <4>2. Parent(p) \in Path /\ Exists(t, Parent(p))
        BY <1>2, UnderParent
      <4> QED BY <4>1, <4>2 DEF Shape
    <3>2. r # p
      BY <1>2, <3>1
    <3> QED BY <1>1, <3>1, <3>2 DEF IsDir
  <2>2. CASE s # p
    <3>1. IsDir(t, r)
      BY <1>1, <1>5, <2>2 DEF Shape, Exists
    <3>2. r # p
      BY <1>2, <3>1
    <3> QED BY <1>1, <3>1, <3>2 DEF IsDir
  <2> QED BY <2>1, <2>2
<1>6. Shape(u)
  BY <1>3, <1>4, <1>5 DEF Shape
<1> QED BY <1>6 DEF u

LEMMA ShapeDrop ==
  ASSUME NEW t \in Tree, Shape(t), NEW p \in Path, IsDir(t, p) => IsEmpty(t, p)
  PROVE  Shape(Drop(t, p))
<1> DEFINE u == Drop(t, p)
<1>1. u[p] = Absent /\ \A r \in Path \ {p} : u[r] = t[r]
  BY DropAt
<1> HIDE DEF u
<1>2. \A r \in Path : Under(p, r) => ~Exists(t, r)
  BY DEF Shape, IsEmpty, InDirectory
<1>3. \A r \in Path : Exists(u, r) => u[r].id # 0
  BY <1>1 DEF Shape, Exists
<1>4. \A r, s \in Path : Exists(u, r) /\ Exists(u, s) /\ u[r].id = u[s].id => r = s
  BY <1>1 DEF Shape, Exists
<1>5. \A r, s \in Path : Under(r, s) /\ Exists(u, s) => IsDir(u, r)
  BY <1>1, <1>2 DEF Shape, Exists, IsDir
<1>6. Shape(u)
  BY <1>3, <1>4, <1>5 DEF Shape
<1> QED BY <1>6 DEF u

(* A file that is moved to a free path takes nothing with it. *)
LEMMA MoveFile ==
  ASSUME NEW t \in Tree, Shape(t), NEW p \in Path \ {Root}, NEW q \in Path \ {Root},
         p # q, Rename(t, p, q) = "ok", ~IsDir(t, p), ~Exists(t, q)
  PROVE  \A r \in Path \ {p, q} : Move(t, p, q)[r] = t[r]
<1> SUFFICES ASSUME NEW r \in Path \ {p, q} PROVE Move(t, p, q)[r] = t[r]
  OBVIOUS
<1>1. \A s \in Path : Under(p, s) \/ Under(q, s) => t[s] = Absent
  BY DEF Shape, Exists, IsDir, Absent
<1>2. CASE Under(q, r) /\ Rebase(r, q, p) \in Path
  <2>1. t[Rebase(r, q, p)] = Absent
    BY <1>1, <1>2, RebaseUnder
  <2> QED BY <1>1, <1>2, <2>1 DEF Move
<1>3. CASE ~(Under(q, r) /\ Rebase(r, q, p) \in Path)
  BY <1>1, <1>3 DEF Move
<1> QED BY <1>2, <1>3

LEMMA ShapeMove ==
  ASSUME NEW t \in Tree, Shape(t), NEW p \in Path \ {Root}, NEW q \in Path \ {Root},
         p # q, Rename(t, p, q) = "ok", ~IsDir(t, p), ~Exists(t, q)
  PROVE  Shape(Move(t, p, q))
<1> DEFINE u == Move(t, p, q)
<1>1. /\ u[q] = t[p] /\ u[p] = Absent /\ Exists(t, p)
      /\ \A r \in Path \ {p, q} : u[r] = t[r]
  BY MoveAt, MoveFile
<1> HIDE DEF u
<1>2. IsDir(t, Parent(q))
  BY DEF Rename, Missing
<1>3. \A r \in Path : IsDir(t, r) => Exists(t, r)
  BY DEF IsDir, Exists, Absent
<1>4. \A r \in Path : Exists(u, r) => u[r].id # 0
  BY <1>1 DEF Shape, Exists
<1>5. \A r, s \in Path : Exists(u, r) /\ Exists(u, s) /\ u[r].id = u[s].id => r = s
  BY <1>1 DEF Shape, Exists
<1>6. ASSUME NEW r \in Path, NEW s \in Path, Under(r, s), Exists(u, s)
      PROVE  IsDir(u, r)
  <2>1. IsDir(t, r)
    <3>1. CASE s = q
      <4>1. r = Parent(q) \/ Under(r, Parent(q))
        BY <1>6, <3>1, UnderParent
      <4>2. Parent(q) \in Path /\ Exists(t, Parent(q))
        BY <1>2, <1>3, UnderParent
      <4> QED BY <1>2, <4>1, <4>2 DEF Shape
    <3>2. CASE s # q
      BY <1>1, <1>6, <3>2 DEF Shape, Exists
    <3> QED BY <3>1, <3>2
  <2>2. r # p /\ r # q
    BY <1>3, <2>1
  <2> QED BY <1>1, <2>1, <2>2 DEF IsDir
<1>7. Shape(u)
  BY <1>4, <1>5, <1>6 DEF Shape
<1> QED BY <1>7 DEF u

-----------------------------------------------------------------------------
(* Exact handles, where clients rename files to free paths only and the     *)
(* process does not crash                                                   *)

Gentle == Renames \subseteq {"file"} /\ "crash" \notin Ends

Exact == \A h \in Handle : Valid(h) => meant[h] # 0 /\ Reached(h).id = meant[h]

EInv == GInv /\ Shape(tree) /\ Exact

(* What each kind of handle leads to, now and after a step.                 *)
LEMMA LeadsNow ==
  ASSUME NEW h \in Handle
  PROVE  /\ h \notin Issued => Leads(h) = 0
         /\ h \in Issued /\ Valid(h) => Leads(h) = Reached(h).id
         /\ h \in Issued /\ ~Valid(h) => Leads(h) = MaxNode + 1
<1>1. CASE h \notin Issued
  BY <1>1 DEF Leads
<1>2. CASE h \in Issued /\ Valid(h)
  BY <1>2 DEF Leads
<1>3. CASE h \in Issued /\ ~Valid(h)
  BY <1>3 DEF Leads
<1> QED BY <1>1, <1>2, <1>3

LEMMA LeadsThen ==
  ASSUME NEW h \in Handle
  PROVE  /\ h \notin Issued' => Leads(h)' = 0
         /\ h \in Issued' /\ Valid(h)' => Leads(h)' = Reached(h)'.id
         /\ h \in Issued' /\ ~Valid(h)' => Leads(h)' = MaxNode + 1
<1>1. CASE h \notin Issued'
  BY <1>1 DEF Leads
<1>2. CASE h \in Issued' /\ Valid(h)'
  BY <1>2 DEF Leads
<1>3. CASE h \in Issued' /\ ~Valid(h)'
  BY <1>3 DEF Leads
<1> QED BY <1>1, <1>2, <1>3

(* A handle whose record, meaning and node a step leaves alone.             *)
Untouched(h) ==
  /\ db'.path[h] = db.path[h] /\ meant'[h] = meant[h]
  /\ Valid(h) => tree'[db.path[h]] = tree[db.path[h]]

LEMMA UntouchedLeads ==
  ASSUME EInv, NEW h \in Handle, Untouched(h)
  PROVE  /\ Leads(h)' = Leads(h)
         /\ Valid(h)' => meant'[h] # 0 /\ Reached(h)'.id = meant'[h]
<1>1. Valid(h)' <=> Valid(h)
  BY DEF Untouched, Valid
<1>2. h \in Issued' <=> h \in Issued
  BY DEF Untouched, Issued
<1>3. Valid(h) => Reached(h)' = Reached(h)
  BY DEF Untouched, Reached
<1>4. Leads(h)' = Leads(h)
  BY <1>1, <1>2, <1>3, LeadsNow, LeadsThen
<1>5. Valid(h)' => meant'[h] # 0 /\ Reached(h)'.id = meant'[h]
  BY <1>1, <1>3 DEF Untouched, EInv, Exact
<1> QED BY <1>4, <1>5

(* The table the clients see. *)
TheMap == [h \in Handle |-> Leads(h)]

GentleStep == Shape(tree)' /\ Exact' /\ (Table!Next \/ TheMap' = TheMap)

LEMMA AllUntouched ==
  ASSUME EInv, \A h \in Handle : Untouched(h), Shape(tree)'
  PROVE  GentleStep
<1>1. Exact'
  BY UntouchedLeads DEF Exact
<1>2. \A h \in Handle : Leads(h)' = Leads(h)
  BY UntouchedLeads
<1>3. TheMap' = TheMap
  BY <1>2 DEF TheMap
<1> QED BY <1>1, <1>3 DEF GentleStep

LEMMA Ids ==
  ASSUME EInv
  PROVE  /\ tree \in Tree /\ PairedDb(db) /\ meant \in [Handle -> 0 .. MaxNode]
         /\ \A h \in Handle : Valid(h) =>
              /\ db.path[h] \in Path /\ db.handle[db.path[h]] = h
              /\ Exists(tree, db.path[h]) /\ h \in Issued
         /\ \A p \in Path : db.handle[p] # NoHandle =>
              db.handle[p] \in Handle /\ db.path[db.handle[p]] = p /\ Exists(tree, p)
         /\ \A p \in Path : Exists(tree, p) => tree[p].id \in 1 .. MaxNode
<1>1. tree \in Tree /\ PairedDb(db) /\ meant \in [Handle -> 0 .. MaxNode]
  BY DEF EInv, GInv, IInv, TypeOK
<1>2. \A p \in Path : tree[p].id # 0 => Exists(tree, p)
  BY DEF Exists, Absent
<1>3. ASSUME NEW h \in Handle, Valid(h)
      PROVE  /\ db.path[h] \in Path /\ db.handle[db.path[h]] = h
             /\ Exists(tree, db.path[h]) /\ h \in Issued
  <2>1. db.path[h] \in Path /\ db.handle[db.path[h]] = h
    BY <1>1, <1>3 DEF PairedDb, Db, Valid
  <2>2. meant[h] # 0 /\ tree[db.path[h]].id = meant[h]
    BY <1>3 DEF EInv, Exact, Reached
  <2> QED BY <1>2, <2>1, <2>2 DEF Issued
<1>4. ASSUME NEW p \in Path, db.handle[p] # NoHandle
      PROVE  db.handle[p] \in Handle /\ db.path[db.handle[p]] = p /\ Exists(tree, p)
  <2>1. db.handle[p] \in Handle /\ db.path[db.handle[p]] = p
    BY <1>1, <1>4 DEF PairedDb, Db
  <2>2. Valid(db.handle[p])
    BY <2>1, Sentinels DEF Valid
  <2> QED BY <1>3, <2>1, <2>2
<1>5. ASSUME NEW p \in Path, Exists(tree, p) PROVE tree[p].id \in 1 .. MaxNode
  <2>1. tree[p].id \in 0 .. MaxNode
    BY <1>1 DEF Tree, Node
  <2>2. tree[p].id # 0
    BY <1>5 DEF EInv, Shape
  <2> QED BY <2>1, <2>2, NodeBound
<1> QED BY <1>1, <1>3, <1>4, <1>5

LEMMA GentleGrants ==
  ASSUME EInv, NEW p \in Path, Grants(p)
  PROVE  GentleStep
<1>1. PICK found \in name_find_or_insert(db, p, Issued) :
        db' = found.db /\ Means(found.fh, tree'[p])
  BY DEF Grants
<1>2. CASE db.handle[p] # NoHandle
  <2>1. db' = db /\ found.fh = db.handle[p]
    BY <1>1, <1>2, Ids, FoundFacts
  <2>2. tree' = tree
    BY <1>2, Ids DEF Grants, Found, Created
  <2>3. found.fh \in Handle /\ meant[found.fh] # 0
    BY <1>2, <2>1, Ids, Sentinels DEF Valid, Issued
  <2>4. \A h \in Handle : meant'[h] = meant[h]
    BY <1>1, <2>3, Ids DEF Means
  <2> QED BY <2>1, <2>2, <2>4, AllUntouched DEF Untouched, EInv
<1>3. CASE db.handle[p] = NoHandle
  <2> DEFINE f == found.fh
             n == tree'[p].id
  <2>1. /\ f \in Handle /\ f \notin Issued /\ db'.path[f] = p
        /\ \A g \in Handle \ {f} : db'.path[g] = db.path[g]
    BY <1>1, <1>3, Ids, FoundFacts
  <2>2. /\ Shape(tree') /\ n \in 1 .. MaxNode
        /\ Exists(tree', p)
        /\ \A r \in Path \ {p} : tree'[r] = tree[r]
    <3>1. CASE Found(p)
      BY <3>1, Ids DEF Found, EInv
    <3>2. CASE Created(p)
      <4>1. PICK i \in 1 .. MaxNode, dir \in BOOLEAN :
              Fresh(i) /\ tree' = Put(tree, p, [id |-> i, dir |-> dir])
        BY <3>2 DEF Created
      <4>2. \A r \in Path : tree[r].id # i
        BY <4>1 DEF Fresh, Unused
      <4>3. p \in Path \ {Root} /\ ~Exists(tree, p) /\ IsDir(tree, Parent(p))
        BY <3>2 DEF Created
      <4>4. Shape(tree')
        BY <4>1, <4>2, <4>3, Ids, ShapePut DEF EInv
      <4>5. /\ tree'[p] = [id |-> i, dir |-> dir]
            /\ \A r \in Path \ {p} : tree'[r] = tree[r]
        BY <4>1, Ids, PutAt
      <4>6. n = i /\ Exists(tree', p)
        BY <4>5 DEF Exists, Absent
      <4> QED BY <4>4, <4>5, <4>6
    <3> QED BY <3>1, <3>2 DEF Grants
  <2>3. /\ meant[f] = 0 /\ meant'[f] = n
        /\ \A g \in Handle \ {f} : meant'[g] = meant[g]
    BY <1>1, <2>1, Ids DEF Means, Issued
  <2>4. \A g \in Handle : Valid(g) => db.path[g] \in Path \ {p}
    BY <1>3, Ids, Sentinels
  <2>5. \A g \in Handle \ {f} : Untouched(g)
    BY <2>1, <2>2, <2>3, <2>4 DEF Untouched
  <2>6. Valid(f)' /\ f \in Issued' /\ Reached(f)' = tree'[p]
    BY <2>1, <2>2, <2>3, Sentinels DEF Valid, Issued, Reached
  <2>7. Exact'
    <3>1. ASSUME NEW g \in Handle, Valid(g)'
          PROVE  meant'[g] # 0 /\ Reached(g)'.id = meant'[g]
      BY <2>2, <2>3, <2>5, <2>6, <3>1, UntouchedLeads
    <3> QED BY <3>1 DEF Exact
  <2>8. /\ Leads(f) = 0 /\ Leads(f)' = n
        /\ \A g \in Handle \ {f} : Leads(g)' = Leads(g)
    BY <2>1, <2>5, <2>6, LeadsNow, LeadsThen, UntouchedLeads
  <2>9. ASSUME NEW g \in Handle PROVE Leads(g) # n
    <3>1. CASE g \notin Issued
      BY <2>2, <3>1, LeadsNow
    <3>2. CASE g \in Issued /\ Valid(g)
      <4>1. db.path[g] \in Path \ {p} /\ Exists(tree, db.path[g])
        BY <2>4, <3>2, Ids
      <4>2. tree'[db.path[g]] = tree[db.path[g]] /\ Exists(tree', db.path[g])
        BY <2>2, <4>1 DEF Exists
      <4>3. tree[db.path[g]].id # n
        BY <2>2, <4>1, <4>2 DEF Shape
      <4> QED BY <3>2, <4>3, LeadsNow DEF Reached
    <3>3. CASE g \in Issued /\ ~Valid(g)
      <4>1. MaxNode + 1 # n
        BY <2>2, NodeBound
      <4> QED BY <3>3, <4>1, LeadsNow
    <3> QED BY <3>1, <3>2, <3>3
  <2> HIDE DEF f, n
  <2>10. TheMap' = [TheMap EXCEPT ![f] = n]
    BY <2>1, <2>8 DEF TheMap
  <2>11. Table!Give(f, n)
    BY <2>1, <2>8, <2>9, <2>10 DEF TheMap, Table!Give
  <2> QED BY <2>1, <2>2, <2>7, <2>11 DEF GentleStep, Table!Next
<1> QED BY <1>2, <1>3

LEMMA GentleRemoves ==
  ASSUME EInv, NEW p \in Path, Removes(p)
  PROVE  GentleStep
<1>1. /\ Exists(tree, p) /\ (IsDir(tree, p) => IsEmpty(tree, p))
      /\ tree' = Drop(tree, p) /\ db' = Removed(db, p) /\ meant' = meant
      /\ db.handle[p] # NoHandle
  BY DEF Removes
<1> PICK f \in Handle : f = db.handle[p]
  BY <1>1, Ids
<1>2. /\ f \in Handle /\ db.path[f] = p /\ db'.path[f] = NoPath
      /\ \A g \in Handle \ {f} : db'.path[g] = db.path[g] /\ db.path[g] # p
  BY <1>1, Ids, RemovedFacts
<1>3. Shape(tree') /\ \A r \in Path \ {p} : tree'[r] = tree[r]
  BY <1>1, Ids, ShapeDrop, DropAt DEF EInv
<1>4. \A g \in Handle \ {f} : Untouched(g)
  BY <1>1, <1>2, <1>3, Ids DEF Untouched
<1>5. Valid(f) /\ ~Valid(f)' /\ f \in Issued /\ f \in Issued'
  <2>1. Valid(f) /\ ~Valid(f)'
    BY <1>2, Sentinels DEF Valid
  <2>2. f \in Issued
    BY <1>2, <2>1, Ids
  <2> QED BY <1>1, <2>1, <2>2 DEF Issued
<1>6. Exact'
  <2>1. ASSUME NEW g \in Handle, Valid(g)'
        PROVE  meant'[g] # 0 /\ Reached(g)'.id = meant'[g]
    BY <1>4, <1>5, <2>1, UntouchedLeads
  <2> QED BY <2>1 DEF Exact
<1>7. /\ Leads(f) \in 1 .. MaxNode /\ Leads(f)' = MaxNode + 1
      /\ \A g \in Handle \ {f} : Leads(g)' = Leads(g)
  BY <1>1, <1>2, <1>4, <1>5, Ids, LeadsNow, LeadsThen, UntouchedLeads DEF Reached
<1>8. TheMap' = [TheMap EXCEPT ![f] = MaxNode + 1]
  BY <1>2, <1>7 DEF TheMap
<1>9. Table!Forget(f)
  BY <1>2, <1>7, <1>8 DEF TheMap, Table!Forget, Table!Live
<1> QED BY <1>2, <1>3, <1>6, <1>9 DEF GentleStep, Table!Next

LEMMA GentleRenamed ==
  ASSUME EInv, Gentle, NEW p \in Path, NEW q \in Path, Renamed(p, q)
  PROVE  GentleStep
<1>1. /\ p \in Path \ {Root} /\ q \in Path \ {Root} /\ p # q
      /\ db.handle[p] # NoHandle
      /\ Rename(tree, p, q) = "ok" /\ tree' = Move(tree, p, q)
  BY DEF Renamed
<1>2. ~Exists(tree, q) /\ ~IsDir(tree, p)
  <2>1. RenameKind(p, q) = "file"
    BY DEF Renamed, Gentle
  <2> QED BY <2>1 DEF RenameKind
<1>3. /\ Shape(tree') /\ tree'[q] = tree[p] /\ Exists(tree, p)
      /\ \A r \in Path \ {p, q} : tree'[r] = tree[r]
  BY <1>1, <1>2, Ids, ShapeMove, MoveFile, MoveAt DEF EInv
<1>4. PICK found \in name_find_or_insert(db, q, Issued) :
        db' = Removed(found.db, p) /\ Means(found.fh, tree[p])
  BY DEF Renamed
<1> PICK f \in Handle : f = db.handle[p]
  BY <1>1, Ids
<1> PICK g : g = found.fh
  OBVIOUS
<1>5. /\ g \in Handle /\ g \notin Issued /\ db.path[g] = NoPath
      /\ found.db.path[g] = q
      /\ \A h \in Handle \ {g} : found.db.path[h] = db.path[h]
  BY <1>2, <1>4, Ids, FoundFacts
<1>6. PairedDb(found.db) /\ found.db.handle[p] = f
  BY <1>1, <1>4, Ids, FoundPaired
<1>7. /\ f \in Handle /\ db.path[f] = p /\ f # g
  BY <1>1, <1>5, Ids, Sentinels
<1>8. /\ db'.path[f] = NoPath /\ db'.path[g] = q
      /\ \A h \in Handle \ {f, g} : db'.path[h] = db.path[h] /\ db.path[h] # p
  BY <1>1, <1>4, <1>5, <1>6, <1>7, RemovedFacts
<1>9. /\ meant[g] = 0 /\ meant'[g] = tree[p].id
      /\ \A h \in Handle \ {g} : meant'[h] = meant[h]
  BY <1>4, <1>5, Ids DEF Means, Issued
<1>10. ASSUME NEW h \in Handle \ {f, g} PROVE Untouched(h)
  <2>1. Valid(h) => db.path[h] \in Path \ {p, q}
    BY <1>2, <1>8, Ids
  <2> QED BY <1>3, <1>8, <1>9, <2>1 DEF Untouched
<1>11. Valid(f) /\ ~Valid(f)' /\ f \in Issued /\ f \in Issued'
  <2>1. Valid(f) /\ ~Valid(f)'
    BY <1>1, <1>7, <1>8, Sentinels DEF Valid
  <2>2. f \in Issued
    BY <1>7, <2>1, Ids
  <2> QED BY <1>7, <1>9, <2>1, <2>2 DEF Issued
<1>12. tree[p].id \in 1 .. MaxNode
  BY <1>3, Ids
<1>13. Valid(g)' /\ g \in Issued' /\ Reached(g)' = tree[p]
  BY <1>1, <1>3, <1>5, <1>8, <1>9, <1>12, Sentinels DEF Valid, Issued, Reached
<1>14. Exact'
  <2>1. ASSUME NEW h \in Handle, Valid(h)'
        PROVE  meant'[h] # 0 /\ Reached(h)'.id = meant'[h]
    <3>1. CASE h = g
      BY <1>9, <1>12, <1>13, <3>1
    <3>2. CASE h = f
      BY <1>11, <2>1, <3>2
    <3>3. CASE h \notin {f, g}
      BY <1>10, <2>1, <3>3, UntouchedLeads
    <3> QED BY <3>1, <3>2, <3>3
  <2> QED BY <2>1 DEF Exact
<1>15. /\ Leads(f) = tree[p].id /\ Leads(f)' = MaxNode + 1
       /\ Leads(g) = 0 /\ Leads(g)' = tree[p].id
       /\ \A h \in Handle \ {f, g} : Leads(h)' = Leads(h)
  <2>1. Reached(f) = tree[p]
    BY <1>7 DEF Reached
  <2>2. Leads(f) = tree[p].id /\ Leads(f)' = MaxNode + 1
    BY <1>7, <1>11, <2>1, LeadsNow, LeadsThen
  <2>3. Leads(g) = 0 /\ Leads(g)' = tree[p].id
    BY <1>5, <1>13, LeadsNow, LeadsThen
  <2>4. \A h \in Handle \ {f, g} : Leads(h)' = Leads(h)
    BY <1>10, UntouchedLeads
  <2> QED BY <2>2, <2>3, <2>4
<1>16. TheMap' = [TheMap EXCEPT ![g] = TheMap[f], ![f] = MaxNode + 1]
  BY <1>5, <1>7, <1>15 DEF TheMap
<1>17. Table!Renew(f, g)
  BY <1>5, <1>7, <1>12, <1>15, <1>16 DEF TheMap, Table!Renew, Table!Live
<1> QED BY <1>3, <1>5, <1>7, <1>14, <1>17 DEF GentleStep, Table!Next

LEMMA GentleSteps ==
  Gentle /\ EInv /\ [Next]_vars => EInv' /\ (Table!Next \/ TheMap' = TheMap)
<1> SUFFICES ASSUME Gentle, EInv, [Next]_vars
             PROVE  EInv' /\ GentleStep
  BY DEF GentleStep
<1>1. Kinds /\ GInv'
  BY StepKinds, GoodSteps DEF EInv, GInv
<1>2. ASSUME UNCHANGED <<tree, db, meant>> PROVE GentleStep
  BY <1>2, AllUntouched DEF Untouched, EInv
<1>3. Quiet \/ Terminate \/ UNCHANGED vars => UNCHANGED <<tree, db, meant>>
  BY DEF Quiet, Terminate, vars
<1>4. ~Crash
  BY DEF Crash, Gentle
<1>5. Restart => UNCHANGED <<tree, db, meant>>
  BY DEF Restart, EInv, GInv
<1>6. GentleStep
  BY <1>1, <1>2, <1>3, <1>4, <1>5, GentleGrants, GentleRemoves, GentleRenamed DEF Kinds
<1> QED BY <1>1, <1>6 DEF EInv, GentleStep

LEMMA GentleInit == Init => EInv /\ Table!Init
<1> SUFFICES ASSUME Init PROVE EInv /\ Table!Init
  OBVIOUS
<1>1. \A p \in Path : /\ ~Under(p, Root)
                      /\ Exists(tree, p) => p = Root
                      /\ tree[Root].id = 1
  BY RootIsPath, PathSeq, DepthBound DEF Init, InitWith, EmptyTree, Exists, Under, Root
<1>2. Shape(tree)
  BY <1>1 DEF Shape
<1>3. \A h \in Handle : ~Valid(h) /\ h \notin Issued
  BY DEF Init, InitWith, Valid, EmptyDb, Issued
<1>4. Exact
  BY <1>3 DEF Exact
<1>5. Table!Init
  BY <1>3, LeadsNow DEF Table!Init
<1> QED BY <1>2, <1>4, <1>5, GoodInit DEF EInv

(* ExactHandles: where clients rename files to free paths only and the      *)
(* process does not crash, every valid handle leads to the file or          *)
(* directory it was first given for, through any creations, removals,       *)
(* renames and restarts.                                                    *)
THEOREM ExactHandles ==
  ASSUME Gentle
  PROVE  Spec => []HandleExact
<1>1. EInv => HandleExact
  BY DEF EInv, Exact, HandleExact
<1>2. EInv /\ [Next]_vars => EInv'
  BY GentleSteps
<1>3. Init => EInv
  BY GentleInit
<1> QED BY <1>1, <1>2, <1>3, PTL DEF Spec

(* MapImplemented: under the same conditions the server, seen by its        *)
(* clients, is the table of HandleMap: a handle leads to one file from the  *)
(* reply that gives it until the file is removed or renamed.                *)
THEOREM MapImplemented ==
  ASSUME Gentle
  PROVE  Spec => HandlesImplementMap
<1>1. EInv /\ [Next]_vars => EInv'
  BY GentleSteps
<1>2. EInv /\ [Next]_vars => [Table!Next]_TheMap
  BY GentleSteps
<1>3. Init => EInv /\ Table!Init
  BY GentleInit
<1>4. [Table!Next]_TheMap <=> [Table!Next]_([h \in Handle |-> Leads(h)])
  BY DEF TheMap
<1>5. EInv /\ [Next]_vars => [Table!Next]_([h \in Handle |-> Leads(h)])
  BY <1>2, <1>4
<1> QED BY <1>1, <1>3, <1>5, PTL DEF Spec, HandlesImplementMap, Table!Spec
=============================================================================
