-------------------------- MODULE SnfsClientProofs --------------------------
(***************************************************************************)
(* SNFS clients and their server, for any clients, callbacks, names, depth, *)
(* handles and served directory: the server is the one of SnfsServer, a    *)
(* handle a client holds is that of the path it wanted or of none, and a   *)
(* callback that succeeds has had its request run.  If the server does not *)
(* crash, it deletes and renames at most once for each request.            *)
(***************************************************************************)
EXTENDS SnfsClientProperties, SnfsServerProofs

(* Handle h has been issued, and it is the handle of p or of nothing: in    *)
(* the database, and in its file, to which a crash goes back.               *)
Bound(h, p) ==
  /\ h \in Issued
  /\ db.path[h] \in {p, NoPath} /\ disk.path[h] \in {p, NoPath}

(* Every handle of the database or its file has been issued, and has one    *)
(* path in both.                                                            *)
KnownHandles ==
  \A h \in Handle :
    /\ db.path[h] # NoPath \/ disk.path[h] # NoPath => h \in Issued
    /\ db.path[h] # NoPath /\ disk.path[h] # NoPath => db.path[h] = disk.path[h]

NodesNumbered == \A p \in Path : Exists(tree, p) => tree[p].id # 0

ServerInv == GInv /\ NodesNumbered /\ KnownHandles

(* The names a callback has looked up. *)
Names(k) == SubSeq(k.path, 1, k.done)

-----------------------------------------------------------------------------
(* The inductive invariant of a client                                      *)

ByHandle == {"GETATTR", "SETATTR", "READ", "WRITE", "READDIR", "LOOKUP", "REMOVE", "RENAME"}
ByPath   == {"CREATE", "MKDIR"}
Messages ==
  [op : {"NOOP", "MOUNT"} \cup ByHandle \cup ByPath, fh : Handle \cup {NoHandle},
   path : Path, is_dir : BOOLEAN]
EntrySet == [msg : Messages, call : Nat, acts : Nat]
Answers  == [err : Errs, fh : Handle \cup {NoHandle}]

CallSet  ==
  [kind : Kind \cup {"mount", "idle", "dead"}, path : Path, to : Path, done : Nat,
   cur : Handle \cup {NoHandle}]
SockSet  ==
  [held : EntrySet \cup {NoRequest}, waiting : BOOLEAN, answer : Answers \cup {NoAnswer},
   late : SUBSET EntrySet]
FileSet  == [fh : Handle \cup {NoHandle}, path : Path]

ClientTypes ==
  /\ call \in [Client -> CallSet]
  /\ root \in [Client -> Handle \cup {NoHandle}]
  /\ fi \in [Client -> FileSet]
  /\ result \in [Client -> {"ok", "ENOENT", "EIO"}]
  /\ count \in [Client -> Nat]
  /\ \A c \in Client : count[c] <= MaxCalls[c]
  /\ sock \in [Client -> SockSet]

(* The server can run message m.                                            *)
Served(m) ==
  /\ m.op \in ByHandle => m.fh \in Issued
  /\ m.op = "LOOKUP" => m.path # Root
  /\ m.op \in ByPath \cup {"RENAME"} => m.path # Root

(* The callback has handles that fit, and has not looked up too much.       *)
CallFits(k) ==
  /\ k.kind = "rename" => k.to # Root
  /\ k.kind \in {"create", "mkdir"} => k.path # Root
  /\ k.kind \in Lookups => k.done <= Len(k.path) /\ Bound(k.cur, Names(k))
  /\ k.kind = "mount" => k.done <= 2
  /\ k.kind \notin Lookups \cup {"mount"} => k.done = 0
  /\ k.kind \in Kind => k.cur \in Issued
  /\ k.kind \notin Kind => k.cur = NoHandle

(* What the answer to entry e tells callback k.                             *)
AnswerFits(k, e, a) ==
  /\ e.msg.op = "LOOKUP" => Bound(a.fh, Append(Names(k), e.msg.path[1]))
  /\ e.msg.op = "MOUNT"  => Bound(a.fh, Root)
  /\ e.msg.op = "CREATE" => Bound(a.fh, e.msg.path)
  /\ e.msg.op \in {"REMOVE", "RENAME", "MKDIR"} => e.acts >= 1

(* The requests that socket s holds or has on the way.                      *)
Holds(s) == s.late \cup ({s.held} \ {NoRequest})

(* Socket s waits for the answer to the next request of callback k.         *)
SockFits(c, k, s) ==
  /\ s.waiting <=> k.kind \notin {"idle", "dead"}
  /\ s.waiting =>
       /\ HasRequest(k) /\ s.held \in EntrySet
       /\ s.held.msg = Request(c, k)
  /\ \A e \in Holds(s) : Served(e.msg)
  /\ s.answer # NoAnswer =>
       /\ s.waiting
       /\ s.answer.err = "none" => AnswerFits(k, s.held, s.answer)

(* A client in callback k, with socket s, root handle r and open file f.    *)
CallerFits(c, k, s, r, f) ==
  /\ CallFits(k) /\ SockFits(c, k, s)
  /\ k.kind \in Kind \cup {"idle"} => r # NoHandle
  /\ r # NoHandle => Bound(r, Root)
  /\ f # NoFile => Bound(f.fh, f.path)

ClientFits(c) == CallerFits(c, call[c], sock[c], root[c], fi[c])

CInv == ServerInv /\ ClientTypes /\ \A c \in Client : ClientFits(c)

(* Where the server does not crash: a request that has deleted or renamed   *)
(* something has lost its handle, and the root's handle stays.              *)
ActedOnce(e) ==
  e.msg.op \in {"REMOVE", "RENAME"} =>
    e.acts = 0 \/ (e.acts = 1 /\ db.path[e.msg.fh] = NoPath)

RootKept(s, r) ==
  /\ r # NoHandle => db.path[r] = Root
  /\ s.answer # NoAnswer /\ s.answer.err = "none" /\ s.held.msg.op = "MOUNT"
       => db.path[s.answer.fh] = Root

Lasts(s, r) == RootKept(s, r) /\ \A e \in Holds(s) : ActedOnce(e)

AInv == CInv /\ \A c \in Client : Lasts(sock[c], root[c])

-----------------------------------------------------------------------------
(* The server: what a step of it does to the handles it has issued          *)

(* A handle that has been issued is never given to another path; without a  *)
(* crash a deleted one does not come back, and the root's stays.            *)
HandleStep ==
  /\ Issued \subseteq Issued'
  /\ \A h \in Issued :
       /\ {db.path[h], disk.path[h]}' \subseteq {db.path[h], disk.path[h], NoPath}
       /\ "crash" \notin Ends /\ db.path[h] \in {Root, NoPath} => db'.path[h] = db.path[h]

LEMMA BoundStays ==
  ASSUME HandleStep, NEW h, NEW p, Bound(h, p)
  PROVE  Bound(h, p)'
BY DEF HandleStep, Bound

(* The part of ServerInv that SnfsHandleProofs does not have.               *)
Known == NodesNumbered /\ KnownHandles

LEMMA KnownQuiet ==
  ASSUME Known, UNCHANGED <<tree, db, disk, meant>>
  PROVE  Known' /\ HandleStep
BY DEF Known, NodesNumbered, KnownHandles, HandleStep, Issued, Exists

(* The handle the server finds or draws for path p, when it tells the       *)
(* clients that it leads to node.                                           *)
LEMMA FoundKnown ==
  ASSUME ServerInv, NEW p \in Path, NEW found \in name_find_or_insert(db, p, Issued),
         NEW node \in Node, node.id # 0, Means(found.fh, node)
  PROVE  /\ found.fh \in Handle /\ Issued' = Issued \cup {found.fh}
         /\ found.db.path[found.fh] = p /\ disk.path[found.fh] \in {p, NoPath}
         /\ \A g \in Handle \ {found.fh} : found.db.path[g] = db.path[g]
         /\ found.fh \in Issued => found.db.path[found.fh] = db.path[found.fh]
<1>1. /\ PairedDb(db) /\ PairedDb(disk) /\ meant \in [Handle -> 0 .. MaxNode]
      /\ KnownHandles
  BY DEF ServerInv, GInv, IInv, TypeOK
<1>2. /\ found.fh \in Handle /\ found.db.path[found.fh] = p
      /\ db.handle[p] # NoHandle => found.db = db /\ found.fh = db.handle[p]
      /\ db.handle[p] = NoHandle =>
           /\ found.fh \notin Issued /\ db.path[found.fh] = NoPath
           /\ \A g \in Handle \ {found.fh} : found.db.path[g] = db.path[g]
  BY <1>1, FoundFacts
<1>3. Issued' = Issued \cup {found.fh}
  BY <1>1, <1>2, NodeBound DEF Means, Issued, Node
<1>4. disk.path[found.fh] \in {p, NoPath}
  BY <1>1, <1>2, Sentinels DEF KnownHandles
<1> QED BY <1>2, <1>3, <1>4

LEMMA KnownGrants ==
  ASSUME ServerInv, NEW p \in Path, Grants(p)
  PROVE  /\ Known' /\ HandleStep
         /\ Bound(reply.fh, p)' /\ db'.path[reply'.fh] = p
<1>1. tree \in Tree /\ NodesNumbered /\ KnownHandles
  BY DEF ServerInv, GInv, IInv, TypeOK
<1>2. NodesNumbered' /\ tree' \in Tree /\ Exists(tree', p)
  <2>1. CASE Found(p)
    BY <1>1, <2>1 DEF Found, NodesNumbered, Exists
  <2>2. CASE Created(p)
    <3>1. PICK i \in 1 .. MaxNode, dir \in BOOLEAN :
            tree' = Put(tree, p, [id |-> i, dir |-> dir])
      BY <2>2 DEF Created
    <3>2. /\ tree'[p] = [id |-> i, dir |-> dir]
          /\ \A r \in Path \ {p} : tree'[r] = tree[r]
      BY <1>1, <3>1, PutAt
    <3>3. tree' \in Tree
      BY <1>1, <3>1, FreshNode, PutInTree
    <3> QED BY <1>1, <3>2, <3>3, NodeBound DEF NodesNumbered, Exists, Absent
  <2> QED BY <2>1, <2>2 DEF Grants
<1>3. PICK found \in name_find_or_insert(db, p, Issued) :
        /\ db' = found.db /\ reply'.fh = found.fh
        /\ Means(found.fh, tree'[p])
  BY DEF Grants
<1>4. tree'[p] \in Node /\ tree'[p].id # 0
  BY <1>2 DEF NodesNumbered, Tree, Exists
<1>5. /\ found.fh \in Handle /\ Issued' = Issued \cup {found.fh}
      /\ db'.path[found.fh] = p /\ disk'.path[found.fh] \in {p, NoPath}
      /\ \A g \in Handle \ {found.fh} : db'.path[g] = db.path[g]
      /\ found.fh \in Issued => db'.path[found.fh] = db.path[found.fh]
      /\ disk' = disk
  BY <1>3, <1>4, FoundKnown DEF Grants
<1>6. KnownHandles'
  BY <1>1, <1>5, Sentinels DEF KnownHandles
<1>7. HandleStep
  BY <1>5 DEF HandleStep, Issued
<1>8. Bound(reply.fh, p)'
  BY <1>3, <1>5 DEF Bound
<1> QED BY <1>2, <1>3, <1>5, <1>6, <1>7, <1>8 DEF Known

LEMMA KnownRemoves ==
  ASSUME ServerInv, NEW p \in Path, Removes(p)
  PROVE  Known' /\ HandleStep
<1>1. tree \in Tree /\ PairedDb(db) /\ NodesNumbered /\ KnownHandles
  BY DEF ServerInv, GInv, IInv, TypeOK
<1>2. NodesNumbered'
  BY <1>1, DropAt DEF Removes, NodesNumbered, Exists
<1>3. /\ \A g \in Handle :
           db'.path[g] = db.path[g] \/ (db'.path[g] = NoPath /\ db.path[g] # Root)
      /\ disk' = disk /\ meant' = meant
  BY <1>1, RemovedFacts DEF Removes
<1>4. Issued' = Issued
  BY <1>3 DEF Issued
<1>5. KnownHandles'
  BY <1>1, <1>3, <1>4 DEF KnownHandles
<1>6. HandleStep
  BY <1>3, <1>4 DEF HandleStep, Issued
<1> QED BY <1>2, <1>5, <1>6 DEF Known

(* A node that is moved is one that was there.                              *)
LEMMA MovedNodes ==
  ASSUME NEW t \in Tree, NEW p \in Path, NEW q \in Path, NEW r \in Path
  PROVE  Move(t, p, q)[r] = Absent \/ \E s \in Path : Move(t, p, q)[r] = t[s]
BY DEF Move

LEMMA KnownRenamed ==
  ASSUME ServerInv, NEW p \in Path, NEW q \in Path, Renamed(p, q)
  PROVE  Known' /\ HandleStep
<1>1. tree \in Tree /\ PairedDb(db) /\ NodesNumbered /\ KnownHandles
  BY DEF ServerInv, GInv, IInv, TypeOK
<1>2. NodesNumbered'
  BY <1>1, MovedNodes DEF Renamed, NodesNumbered, Exists
<1>3. PICK found \in name_find_or_insert(db, q, Issued) :
        db' = Removed(found.db, p) /\ Means(found.fh, tree[p])
  BY DEF Renamed
<1>4. Exists(tree, p) /\ p # q /\ db.handle[p] # NoHandle /\ disk' = disk
  BY <1>1, MoveAt DEF Renamed
<1>5. tree[p] \in Node /\ tree[p].id # 0
  BY <1>1, <1>4 DEF NodesNumbered, Tree
<1>6. /\ found.fh \in Handle /\ Issued' = Issued \cup {found.fh}
      /\ found.db.path[found.fh] = q /\ disk.path[found.fh] \in {q, NoPath}
      /\ \A g \in Handle \ {found.fh} : found.db.path[g] = db.path[g]
      /\ found.fh \in Issued => found.db.path[found.fh] = db.path[found.fh]
  BY <1>3, <1>5, FoundKnown
<1>7. PairedDb(found.db) /\ found.db.handle[p] = db.handle[p]
  BY <1>1, <1>4, FoundPaired
<1>8. \A g \in Handle :
        db'.path[g] = found.db.path[g] \/ (db'.path[g] = NoPath /\ found.db.path[g] # Root)
  BY <1>1, <1>3, <1>4, <1>7, RemovedFacts DEF Renamed
<1>9. KnownHandles'
  BY <1>1, <1>4, <1>6, <1>8, Sentinels DEF KnownHandles
<1>10. HandleStep
  BY <1>4, <1>6, <1>8 DEF HandleStep, Issued
<1> QED BY <1>2, <1>9, <1>10 DEF Known

LEMMA KnownProcess ==
  ASSUME ServerInv, Terminate \/ Crash \/ Restart
  PROVE  Known' /\ HandleStep
<1>1. /\ NodesNumbered /\ KnownHandles /\ tree' = tree /\ meant' = meant
      /\ up # "serving" => db = disk
  BY DEF ServerInv, GInv, Terminate, Crash, Restart
<1>2. NodesNumbered' /\ Issued' = Issued
  BY <1>1 DEF NodesNumbered, Exists, Issued
<1>3. \/ db' = db /\ disk' = db
      \/ db' = disk /\ disk' = disk /\ ("crash" \in Ends \/ db = disk)
  BY <1>1 DEF Terminate, Crash, Restart
<1>4. KnownHandles'
  BY <1>1, <1>2, <1>3 DEF KnownHandles
<1>5. HandleStep
  BY <1>2, <1>3 DEF HandleStep
<1> QED BY <1>2, <1>4, <1>5 DEF Known

LEMMA ServerSteps == ServerInv /\ [Next]_vars => ServerInv' /\ HandleStep
<1> SUFFICES ASSUME ServerInv, [Next]_vars PROVE ServerInv' /\ HandleStep
  OBVIOUS
<1>1. GInv' /\ Kinds /\ Known
  BY GoodSteps, StepKinds DEF ServerInv, GInv, Known
<1>2. Known' /\ HandleStep
  <2>1. CASE Quiet \/ UNCHANGED vars
    BY <1>1, <2>1, KnownQuiet DEF Quiet, vars
  <2>2. CASE Terminate \/ Crash \/ Restart
    BY <2>2, KnownProcess
  <2> QED BY <1>1, <2>1, <2>2, KnownGrants, KnownRemoves, KnownRenamed DEF Kinds
<1> QED BY <1>1, <1>2 DEF ServerInv, Known

LEMMA ServerStarts == InitWith(InitialTree) => ServerInv
<1> SUFFICES ASSUME InitWith(InitialTree) PROVE ServerInv
  OBVIOUS
<1>1. tree \in Tree /\ IsDir(tree, Root) /\ NodesNumbered
  BY ServedDirectory DEF InitWith, NodesNumbered
<1>2. NoReply \in Reply /\ NoReply.fh = NoHandle
  BY DEF NoReply, Reply, Ops, Errs
<1>3. EmptyDb \in Db /\ PairedDb(EmptyDb)
  BY EmptyDbPaired DEF PairedDb
<1>4. meant \in [Handle -> 0 .. MaxNode] /\ fds \in 0 .. MaxFds
  BY NodeBound, FdBound DEF InitWith
<1>5. GInv
  BY <1>1, <1>2, <1>3, <1>4
     DEF InitWith, GInv, IInv, TypeOK, NoErrExit, GrantedHandleWorks, NoReply
<1>6. KnownHandles
  BY DEF InitWith, EmptyDb, KnownHandles
<1> QED BY <1>1, <1>5, <1>6 DEF ServerInv

-----------------------------------------------------------------------------
(* What a request that succeeds has done                                    *)

LEMMA ErrnoIsError ==
  ASSUME NEW e, NEW known \in SUBSET {"ENOENT", "ENOTDIR"}
  PROVE  snfs_error(e, known) # "none"
BY DEF snfs_error

LEMMA RefusedIsError ==
  ASSUME NEW op, NEW err, err # "none", Refuse(op, err)
  PROVE  reply'.err # "none" /\ tree' = tree
BY DEF Refuse, Answer

LEMMA LookupGrants ==
  ASSUME NEW h, NEW name, handle_lookup(h, name), reply'.err = "none"
  PROVE  /\ db.path[h] # NoPath /\ Append(db.path[h], name) \in Path
         /\ Grants(Append(db.path[h], name))
<1> DEFINE p == get_file(db, h)
           q == Append(p, name)
<1>1. ~Refuse("LOOKUP", "ENOENT") /\ ~Refuse("LOOKUP", "ENOTDIR")
  BY RefusedIsError
<1>2. ~Refuse("LOOKUP", snfs_error(Stat(tree, p), {"ENOENT"}))
  BY RefusedIsError, ErrnoIsError
<1>3. /\ p # NoPath /\ q \in Path
      /\ Exists(tree, q) /\ GrantFound("LOOKUP", q, tree[q]) /\ tree' = tree
  BY <1>1, <1>2 DEF handle_lookup
<1>4. Grants(q)
  BY <1>3, GrantKind DEF Found
<1> QED BY <1>3, <1>4 DEF get_file

LEMMA MountGrants ==
  ASSUME IsDir(tree, Root), handle_mount
  PROVE  Grants(Root)
<1>1. Found(Root) /\ GrantFound("MOUNT", Root, tree'[Root])
  BY DEF handle_mount, Found, Exists, IsDir, Absent
<1> QED BY <1>1, GrantKind

LEMMA CreateGrants ==
  ASSUME NEW p \in Path \ {Root}, handle_create(p), reply'.err = "none"
  PROVE  Grants(p)
<1>1. ~Refuse("CREATE", "EINTERNAL")
  BY RefusedIsError
<1>2. ~Refuse("CREATE", snfs_error(Creat(tree, p), {"ENOENT"}))
  BY RefusedIsError, ErrnoIsError
<1>3. /\ Creat(tree, p) = "ok"
      /\ \/ Exists(tree, p) /\ tree' = tree
         \/ ~Exists(tree, p) /\ \E i \in 1 .. MaxNode :
              Fresh(i) /\ tree' = Put(tree, p, [id |-> i, dir |-> FALSE])
      /\ GrantFound("CREATE", p, tree'[p])
  BY <1>1, <1>2 DEF handle_create
<1>4. ~Exists(tree, p) => IsDir(tree, Parent(p))
  BY <1>3 DEF Creat, Missing
<1>5. Found(p) \/ Created(p)
  BY <1>3, <1>4 DEF Found, Created
<1> QED BY <1>3, <1>5, GrantKind

LEMMA MkdirChanges ==
  ASSUME IInv, NEW p \in Path, handle_mkdir(p), reply'.err = "none"
  PROVE  tree' # tree
<1>1. ~Refuse("MKDIR", snfs_error(Mkdir(tree, p), {"ENOENT"}))
  BY RefusedIsError, ErrnoIsError
<1>2. PICK i \in 1 .. MaxNode : tree' = Put(tree, p, [id |-> i, dir |-> TRUE])
  BY <1>1 DEF handle_mkdir
<1>3. ~Exists(tree, p)
  BY <1>1 DEF handle_mkdir, Mkdir
<1>4. tree'[p] = [id |-> i, dir |-> TRUE]
  BY <1>2, PutAt DEF IInv, TypeOK
<1> QED BY <1>3, <1>4 DEF Exists, Absent

(* A REMOVE or RENAME that changes the directory deletes its handle.        *)
LEMMA RemoveChanges ==
  ASSUME IInv, NEW h \in Handle, NEW is_dir \in BOOLEAN, handle_remove(h, is_dir)
  PROVE  /\ reply'.err = "none" => tree' # tree
         /\ tree' # tree => db.path[h] # NoPath /\ db'.path[h] = NoPath
<1> DEFINE p == get_file(db, h)
<1>1. CASE \E err : err # "none" /\ Refuse("REMOVE", err)
  BY <1>1, RefusedIsError
<1>2. CASE /\ p # NoPath /\ RemoveCall(p, is_dir) = "ok"
           /\ tree' = Drop(tree, p) /\ db' = Removed(db, p)
  <2>1. p \in Path /\ db.handle[p] = h /\ db.handle[p] # NoHandle
    BY <1>2, FileIsPath, HandleOfFile
  <2>2. Exists(tree, p)
    BY <1>2 DEF RemoveCall, Rmdir, Unlink, Missing
  <2>3. tree'[p] = Absent /\ db'.path[h] = NoPath
    BY <1>2, <2>1, DropAt, RemovedFacts DEF IInv, TypeOK
  <2> QED BY <1>2, <2>2, <2>3 DEF Exists, get_file
<1>3. snfs_error(RemoveCall(p, is_dir),
        IF Exists(tree, p) THEN {"ENOTDIR"} ELSE {"ENOENT"}) # "none"
  BY ErrnoIsError
<1> QED BY <1>1, <1>2, <1>3 DEF handle_remove

LEMMA RenameChanges ==
  ASSUME IInv, NEW h \in Handle, NEW q \in Path \ {Root}, handle_rename(h, q)
  PROVE  /\ reply'.err = "none" => tree' # tree
         /\ tree' # tree => db.path[h] # NoPath /\ db'.path[h] = NoPath
<1> DEFINE p == get_file(db, h)
<1>1. CASE \E err : err # "none" /\ Refuse("RENAME", err)
  BY <1>1, RefusedIsError
<1>2. ASSUME p \notin {NoPath, q}, Rename(tree, p, q) = "ok", tree' = Move(tree, p, q),
             NEW found \in RenameHandle(p, q), db' = Removed(found.db, p)
      PROVE  tree' # tree /\ db.path[h] # NoPath /\ db'.path[h] = NoPath
  <2>1. p \in Path /\ p # q /\ db.handle[p] = h /\ db.handle[p] # NoHandle
    BY <1>2, FileIsPath, HandleOfFile
  <2>2. PairedDb(found.db) /\ found.db.handle[p] = db.handle[p]
    BY <1>2, <2>1, FoundPaired DEF IInv, RenameHandle
  <2>3. db'.path[h] = NoPath
    BY <1>2, <2>1, <2>2, RemovedFacts
  <2>4. p # Root
    BY <1>2 DEF Rename, Missing
  <2>5. Exists(tree, p) /\ tree'[p] = Absent
    BY <1>2, <2>1, <2>4, MoveAt DEF IInv, TypeOK
  <2> QED BY <1>2, <2>3, <2>5 DEF Exists, get_file
<1>3. snfs_error(Rename(tree, p, q), {"ENOENT"}) # "none"
  BY ErrnoIsError
<1> QED BY <1>1, <1>2, <1>3 DEF handle_rename

-----------------------------------------------------------------------------
(* A callback and its requests                                              *)

LEMMA NextName ==
  ASSUME NEW p \in Path, NEW n \in Nat, n < Len(p)
  PROVE  /\ p[n + 1] \in Name /\ <<p[n + 1]>> \in Path \ {Root}
         /\ SubSeq(p, 1, n + 1) = Append(SubSeq(p, 1, n), p[n + 1])
<1>1. p \in Seq(Name) /\ Len(p) \in Nat /\ Len(p) <= MaxDepth
  BY PathSeq, DepthBound
<1>2. p[n + 1] \in Name /\ n + 1 \in 1 .. Len(p)
  BY <1>1
<1>3. <<p[n + 1]>> \in Seq(Name) /\ Len(<<p[n + 1]>>) = 1
  BY <1>2
<1>4. <<p[n + 1]>> \in Path /\ <<p[n + 1]>> # Root
  <2>1. Len(<<p[n + 1]>>) <= MaxDepth
    BY <1>1, <1>3, DepthBound
  <2>2. <<p[n + 1]>> \in Path
    BY <1>3, <2>1, SeqPath
  <2>3. <<p[n + 1]>> # Root
    BY DEF Root
  <2> QED BY <2>2, <2>3
<1>5. SubSeq(p, 1, n + 1) = Append(SubSeq(p, 1, n), p[n + 1])
  <2>1. SubSeq(p, 1, n + 1) = SubSeq(p, 1, n + 1 - 1) \o <<p[n + 1]>>
    BY <1>1, <1>2, SubSeqRecursiveSecond
  <2>2. n + 1 - 1 = n /\ SubSeq(p, 1, n) \in Seq(Name)
    BY <1>1
  <2> QED BY <1>2, <2>1, <2>2, AppendIsConcat
<1> QED BY <1>2, <1>4, <1>5

LEMMA AllNames ==
  ASSUME NEW p \in Path
  PROVE  SubSeq(p, 1, 0) = Root /\ SubSeq(p, 1, Len(p)) = p
<1>1. p \in Seq(Name)
  BY PathSeq
<1>2. SubSeq(p, 1, 0) = <<>>
  BY SubSeqEmpty
<1> QED BY <1>1, <1>2, SubSeqFull DEF Root

(* The operation of a callback's own request. *)
LEMMA OwnRequest ==
  ASSUME NEW kind \in Kind \ Opens
  PROVE  /\ OpOf(kind) \in (ByHandle \cup ByPath) \ {"LOOKUP"}
         /\ OpOf(kind) \in ByPath => kind \in {"create", "mkdir"}
         /\ OpOf(kind) = "RENAME" <=> kind = "rename"
         /\ OpOf(kind) = "CREATE" <=> kind = "create"
         /\ kind \in {"unlink", "rmdir"} => OpOf(kind) = "REMOVE"
         /\ kind = "mkdir" => OpOf(kind) = "MKDIR"
BY DEF Kind, Lookups, Opens, Data, OpOf, ByHandle, ByPath

LEMMA RequestFits ==
  ASSUME NEW c, NEW k \in CallSet, CallFits(k), HasRequest(k), k.kind \in Kind \cup {"mount"}
  PROVE  Request(c, k) \in Messages /\ Served(Request(c, k))
<1>1. k.path \in Path /\ k.to \in Path /\ k.done \in Nat /\ k.cur \in Handle \cup {NoHandle}
  BY DEF CallSet
<1>2. k.kind \in Kind => k.cur \in Handle /\ k.cur \in Issued
  BY DEF CallFits, Issued
<1>3. CASE LooksUp(k)
  <2>1. k.done < Len(k.path) /\ k.kind \in Kind
    BY <1>3 DEF LooksUp, Kind
  <2>2. <<k.path[k.done + 1]>> \in Path \ {Root}
    BY <1>1, <2>1, NextName
  <2>3. Request(c, k) = [op |-> "LOOKUP", fh |-> k.cur, path |-> <<k.path[k.done + 1]>>,
                         is_dir |-> FALSE]
    BY <1>3 DEF Request
  <2> QED BY <1>2, <2>1, <2>2, <2>3 DEF Messages, Served, ByHandle, ByPath
<1>4. CASE ~LooksUp(k) /\ k.kind = "mount"
  <2>1. PICK op \in {"NOOP", "MOUNT"} : Request(c, k) =
          [op |-> op, fh |-> k.cur, path |-> k.path, is_dir |-> FALSE]
    BY <1>4 DEF Request
  <2> QED BY <1>1, <2>1 DEF Messages, Served, ByHandle, ByPath
<1>5. CASE ~LooksUp(k) /\ k.kind # "mount"
  <2>1. k.kind \in Kind \ Opens
    BY <1>5 DEF HasRequest
  <2>2. Request(c, k) =
          [op |-> OpOf(k.kind), fh |-> k.cur,
           path |-> IF k.kind = "rename" THEN k.to ELSE k.path, is_dir |-> k.kind = "rmdir"]
    BY <1>5 DEF Request
  <2>3. /\ OpOf(k.kind) \in (ByHandle \cup ByPath) \ {"LOOKUP"}
        /\ OpOf(k.kind) \in ByPath => k.kind \in {"create", "mkdir"}
        /\ OpOf(k.kind) = "RENAME" <=> k.kind = "rename"
    BY <2>1, OwnRequest
  <2>4. Request(c, k) \in Messages
    BY <1>1, <2>2, <2>3 DEF Messages
  <2>5. Served(Request(c, k))
    BY <1>2, <2>1, <2>2, <2>3 DEF Served, CallFits, Root
  <2> QED BY <2>4, <2>5
<1> QED BY <1>3, <1>4, <1>5

-----------------------------------------------------------------------------
(* The steps of one client                                                  *)

(* What fits goes on to fit whatever the server does.                       *)
LEMMA FitsStays ==
  ASSUME HandleStep, NEW c, NEW k, NEW s, NEW r, NEW f, CallerFits(c, k, s, r, f)
  PROVE  CallerFits(c, k, s, r, f)'
<1>1. \A h, p : Bound(h, p) => Bound(h, p)'
  BY BoundStays
<1>2. \A h : h \in Issued => h \in Issued'
  BY DEF HandleStep
<1>3. CallFits(k)'
  BY <1>1, <1>2 DEF CallerFits, CallFits
<1>4. \A m : Served(m) => Served(m)'
  BY <1>2 DEF Served
<1>5. \A e, a : AnswerFits(k, e, a) => AnswerFits(k, e, a)'
  BY <1>1 DEF AnswerFits
<1>6. SockFits(c, k, s)'
  BY <1>4, <1>5 DEF CallerFits, SockFits
<1> QED BY <1>1, <1>3, <1>6 DEF CallerFits

(* A client that has gone on to fitting values, while the server rested.    *)
LEMMA ClientMoves ==
  ASSUME CInv, UNCHANGED vars, NEW c \in Client,
         NEW k \in CallSet, NEW s \in SockSet, NEW r \in Handle \cup {NoHandle},
         NEW f \in FileSet, NEW res \in {"ok", "ENOENT", "EIO"},
         NEW n \in Nat, n <= MaxCalls[c], CallerFits(c, k, s, r, f),
         call' = [call EXCEPT ![c] = k], sock' = [sock EXCEPT ![c] = s],
         root' = [root EXCEPT ![c] = r], fi' = [fi EXCEPT ![c] = f],
         result' = [result EXCEPT ![c] = res], count' = [count EXCEPT ![c] = n]
  PROVE  CInv'
<1>1. ServerInv' /\ HandleStep
  BY ServerSteps DEF CInv
<1>2. ClientTypes'
  BY DEF CInv, ClientTypes
<1>3. /\ call'[c] = k /\ sock'[c] = s /\ root'[c] = r /\ fi'[c] = f
      /\ \A d \in Client \ {c} : /\ call'[d] = call[d] /\ sock'[d] = sock[d]
                                 /\ root'[d] = root[d] /\ fi'[d] = fi[d]
  BY DEF CInv, ClientTypes
<1>4. ASSUME NEW d \in Client PROVE ClientFits(d)'
  <2>1. CASE d = c
    <3>1. CallerFits(c, k, s, r, f)'
      BY <1>1, FitsStays
    <3> QED BY <1>3, <2>1, <3>1 DEF ClientFits
  <2>2. CASE d # c
    <3>1. CallerFits(d, call[d], sock[d], root[d], fi[d])
      BY DEF CInv, ClientFits
    <3>2. \A e1, e2, e3, e4 : CallerFits(d, e1, e2, e3, e4) => CallerFits(d, e1, e2, e3, e4)'
      BY <1>1, FitsStays
    <3> QED BY <1>3, <2>2, <3>1, <3>2 DEF ClientFits
  <2> QED BY <2>1, <2>2
<1> QED BY <1>1, <1>2, <1>4 DEF CInv

(* What is known of client c, in one place.                                 *)
LEMMA ClientFacts ==
  ASSUME CInv, NEW c \in Client
  PROVE  /\ call[c] \in CallSet /\ sock[c] \in SockSet /\ fi[c] \in FileSet
         /\ root[c] \in Handle \cup {NoHandle} /\ result[c] \in {"ok", "ENOENT", "EIO"}
         /\ count[c] \in Nat /\ MaxCalls[c] \in Nat /\ count[c] <= MaxCalls[c]
         /\ CallerFits(c, call[c], sock[c], root[c], fi[c])
BY CallBound DEF CInv, ClientTypes, ClientFits

(* A socket that does not wait and has no answer: it holds no request that  *)
(* it did not hold.                                                         *)
AtRest(s) ==
  /\ s \in SockSet /\ ~s.waiting /\ s.answer = NoAnswer
  /\ \A e \in Holds(s) : Served(e.msg)

LEMMA TakenRests ==
  ASSUME CInv, NEW c \in Client
  PROVE  /\ AtRest(Taken(sock[c]))
         /\ ~Ready(sock[c]) => AtRest(GivenUp(sock[c]))
         /\ ~sock[c].waiting => AtRest(sock[c])
<1>1. sock[c] \in SockSet /\ SockFits(c, call[c], sock[c])
  BY ClientFacts DEF CallerFits
<1>2. Holds(Taken(sock[c])) \subseteq Holds(sock[c])
  BY <1>1 DEF Holds, Taken, SockSet
<1>3. Holds(GivenUp(sock[c])) = Holds(sock[c])
  BY <1>1 DEF Holds, GivenUp, SockSet
<1>4. AtRest(Taken(sock[c]))
  BY <1>1, <1>2 DEF AtRest, Taken, SockSet, SockFits
<1>5. ~Ready(sock[c]) => AtRest(GivenUp(sock[c]))
  BY <1>1, <1>3 DEF AtRest, GivenUp, SockSet, SockFits, Ready
<1>6. ~sock[c].waiting => AtRest(sock[c])
  BY <1>1 DEF AtRest, SockFits
<1> QED BY <1>4, <1>5, <1>6

(* A client that is in no callback, or has left.                            *)
LEMMA NoCallFits ==
  ASSUME NEW c, NEW s, AtRest(s), NEW kind \in {"idle", "dead"},
         NEW r, NEW f, kind = "idle" => r # NoHandle,
         r # NoHandle => Bound(r, Root), f # NoFile => Bound(f.fh, f.path)
  PROVE  /\ [NoCall EXCEPT !.kind = kind] \in CallSet
         /\ CallerFits(c, [NoCall EXCEPT !.kind = kind], s, r, f)
<1> DEFINE k == [NoCall EXCEPT !.kind = kind]
<1>1. k = [kind |-> kind, path |-> Root, to |-> Root, done |-> 0, cur |-> NoHandle]
  BY DEF NoCall
<1>2. k \in CallSet
  BY <1>1, RootIsPath DEF CallSet
<1>3. kind \notin Kind \cup {"mount"} /\ kind \notin Lookups
  BY DEF Kind, Lookups, Opens, Data
<1>4. CallFits(k)
  BY <1>1, <1>3 DEF CallFits
<1>5. SockFits(c, k, s)
  BY <1>1 DEF SockFits, AtRest
<1> HIDE DEF k
<1>6. k.kind = kind
  BY <1>1
<1> QED BY <1>2, <1>3, <1>4, <1>5, <1>6 DEF CallerFits, k

(* Callback k goes on, from a socket at rest. *)
LEMMA GoOnKeeps ==
  ASSUME CInv, UNCHANGED vars, NEW c \in Client, NEW k \in CallSet, NEW s, AtRest(s),
         k.kind \in Kind \cup {"mount"}, CallFits(k), k.kind \in Kind => root[c] # NoHandle,
         NEW n \in Nat, n <= MaxCalls[c], count' = [count EXCEPT ![c] = n],
         HasRequest(k) \/ result' = [result EXCEPT ![c] = "ok"],
         GoOn(c, k, s)
  PROVE  CInv'
<1>1. /\ fi[c] \in FileSet /\ root[c] \in Handle \cup {NoHandle}
      /\ result[c] \in {"ok", "ENOENT", "EIO"} /\ root' = [root EXCEPT ![c] = root[c]]
      /\ root[c] # NoHandle => Bound(root[c], Root)
      /\ fi[c] # NoFile => Bound(fi[c].fh, fi[c].path)
      /\ count'[c] = n
  BY ClientFacts DEF GoOn, CallerFits, CInv, ClientTypes
<1>2. CASE HasRequest(k)
  <2> DEFINE e == Entry(c, k, n)
             t == Submitted(s, e)
  <2>1. /\ call' = [call EXCEPT ![c] = k] /\ sock' = [sock EXCEPT ![c] = t]
        /\ fi' = fi /\ result' = result
    BY <1>1, <1>2 DEF GoOn
  <2>2. fi' = [fi EXCEPT ![c] = fi[c]] /\ result' = [result EXCEPT ![c] = result[c]]
    BY <2>1 DEF CInv, ClientTypes
  <2>3. e \in EntrySet /\ Served(e.msg) /\ e.msg = Request(c, k)
    BY <1>2, RequestFits DEF Entry, EntrySet
  <2> HIDE DEF e
  <2>4. t = [held |-> e, waiting |-> TRUE, answer |-> NoAnswer,
             late |-> s.late \cup ({s.held} \ {NoRequest})]
    BY DEF Submitted
  <2>5. t \in SockSet
    BY <2>3, <2>4 DEF SockSet, AtRest
  <2>6. \A x \in Holds(t) : x = e \/ x \in Holds(s)
    BY <2>4 DEF Holds
  <2> HIDE DEF t
  <2>7. k.kind \notin {"idle", "dead"}
    BY DEF Kind, Lookups, Opens, Data
  <2>8. SockFits(c, k, t)
    BY <1>2, <2>3, <2>4, <2>6, <2>7 DEF SockFits, AtRest
  <2>9. CallerFits(c, k, t, root[c], fi[c])
    BY <1>1, <2>7, <2>8 DEF CallerFits
  <2> QED BY <1>1, <2>1, <2>2, <2>5, <2>9, ClientMoves
<1>3. CASE ~HasRequest(k)
  <2> DEFINE f == [fh |-> k.cur, path |-> k.path]
  <2>1. /\ call' = [call EXCEPT ![c] = NoCall] /\ sock' = [sock EXCEPT ![c] = s]
        /\ fi' = [fi EXCEPT ![c] = f] /\ result' = [result EXCEPT ![c] = "ok"]
    BY <1>3 DEF GoOn
  <2>2. k.kind \in Opens /\ ~LooksUp(k)
    BY <1>3 DEF HasRequest
  <2>3. k.kind \in Lookups /\ k.kind \in Kind
    BY <2>2 DEF Lookups, Kind
  <2>4. /\ k.path \in Path /\ k.done \in Nat /\ Len(k.path) \in Nat
        /\ k.cur \in Handle \cup {NoHandle}
    BY PathSeq DEF CallSet
  <2>5. k.done = Len(k.path) /\ Bound(k.cur, Names(k))
    BY <2>2, <2>3, <2>4 DEF LooksUp, CallFits
  <2>6. Bound(f.fh, f.path) /\ f \in FileSet
    BY <2>4, <2>5, AllNames DEF Names, FileSet
  <2> HIDE DEF f
  <2>7. NoCall \in CallSet /\ CallerFits(c, NoCall, s, root[c], f)
    <3>1. NoCall = [NoCall EXCEPT !.kind = "idle"]
      BY DEF NoCall
    <3> QED BY <1>1, <2>3, <2>6, <3>1, NoCallFits
  <2>8. s \in SockSet
    BY DEF AtRest
  <2> QED BY <1>1, <2>1, <2>6, <2>7, <2>8, ClientMoves
<1> QED BY <1>2, <1>3

LEMMA CallKeeps ==
  ASSUME CInv, NEW c \in Client, NEW a \in Callbacks[c], Call(c, a)
  PROVE  CInv'
<1> DEFINE k == NewCall(c, a)
           n == count[c] + 1
<1>1. /\ call[c].kind = "idle" /\ ~sock[c].waiting /\ root[c] # NoHandle
      /\ root[c] \in Handle \cup {NoHandle} /\ Bound(root[c], Root)
      /\ call[c] \in CallSet /\ sock[c] \in SockSet /\ fi[c] \in FileSet
      /\ fi[c] # NoFile => Bound(fi[c].fh, fi[c].path)
      /\ AtRest(sock[c]) /\ CallerFits(c, call[c], sock[c], root[c], fi[c])
  BY ClientFacts, TakenRests DEF Call, CallerFits, SockFits
<1>2. n \in Nat /\ n <= MaxCalls[c] /\ count' = [count EXCEPT ![c] = n]
  BY ClientFacts DEF Call
<1>3. /\ a \in [kind : Kind, path : Path, to : Path]
      /\ a.kind = "rename" => a.to # Root
  BY CallbackForms
<1>4. CASE /\ result' = [result EXCEPT ![c] = "ENOENT"]
           /\ UNCHANGED <<sock, call, root, fi>>
  <2>1. /\ call' = [call EXCEPT ![c] = call[c]] /\ sock' = [sock EXCEPT ![c] = sock[c]]
        /\ root' = [root EXCEPT ![c] = root[c]] /\ fi' = [fi EXCEPT ![c] = fi[c]]
    BY <1>4 DEF CInv, ClientTypes
  <2>2. UNCHANGED vars
    BY DEF Call
  <2> HIDE DEF n
  <2> QED BY <1>1, <1>2, <1>4, <2>1, <2>2, ClientMoves
<1>5. CASE /\ a.kind \in {"create", "mkdir"} => a.path # Root
           /\ GoOn(c, NewCall(c, a), sock[c])
  <2>1. a.kind \in Data => Bound(fi[c].fh, fi[c].path)
    BY <1>1 DEF Call
  <2>2. k = [kind |-> a.kind, path |-> a.path, to |-> a.to, done |-> 0,
             cur |-> IF a.kind \in Data THEN fi[c].fh ELSE root[c]]
    BY DEF NewCall
  <2>3. k \in CallSet /\ k.kind \in Kind
    BY <1>1, <1>3, <2>2 DEF CallSet, FileSet
  <2>4. a.kind \in Lookups => Bound(k.cur, Names(k)) /\ k.done <= Len(k.path)
    <3>1. a.kind \in Lookups => a.kind \notin Data
      BY DEF Lookups, Opens, Data
    <3>2. k.path \in Path /\ k.done = 0 /\ Names(k) = Root /\ 0 <= Len(k.path)
      BY <1>3, <2>2, AllNames, PathSeq DEF Names
    <3> QED BY <1>1, <2>2, <3>1, <3>2
  <2>5. k.cur \in Issued
    BY <1>1, <2>1, <2>2 DEF Bound
  <2>6. "mount" \notin Kind
    BY DEF Kind, Lookups, Opens, Data
  <2>7. CallFits(k)
    BY <1>3, <1>5, <2>2, <2>3, <2>4, <2>5, <2>6 DEF CallFits
  <2>8. HasRequest(k) \/ result' = [result EXCEPT ![c] = "ok"]
    BY <1>5 DEF GoOn
  <2> HIDE DEF k
  <2> QED BY <1>1, <1>2, <1>5, <2>3, <2>7, <2>8, GoOnKeeps DEF Call, k
<1> QED BY <1>4, <1>5 DEF Call

(* The callback fails, with its socket at rest. *)
LEMMA FailKeeps ==
  ASSUME CInv, UNCHANGED <<vars, count>>, NEW c \in Client, sock[c].waiting,
         NEW s, AtRest(s), Fail(c, s)
  PROVE  CInv'
<1> DEFINE kind == IF call[c].kind = "mount" THEN "dead" ELSE "idle"
           k == [NoCall EXCEPT !.kind = kind]
<1>1. /\ CallerFits(c, call[c], sock[c], root[c], fi[c]) /\ call[c] \in CallSet
      /\ fi[c] \in FileSet /\ root[c] \in Handle \cup {NoHandle}
      /\ count[c] \in Nat /\ count[c] <= MaxCalls[c]
  BY ClientFacts
<1>2. call[c].kind \in Kind \cup {"mount"}
  BY <1>1 DEF CallerFits, SockFits, CallSet
<1>3. k \in CallSet /\ CallerFits(c, k, s, root[c], fi[c])
  <2>1. /\ kind \in {"idle", "dead"}
        /\ kind = "idle" => root[c] # NoHandle
    BY <1>1, <1>2 DEF CallerFits
  <2>2. /\ root[c] # NoHandle => Bound(root[c], Root)
        /\ fi[c] # NoFile => Bound(fi[c].fh, fi[c].path)
    BY <1>1 DEF CallerFits
  <2> HIDE DEF kind
  <2> QED BY <2>1, <2>2, NoCallFits
<1>4. k = [NoCall EXCEPT !.kind = IF call[c].kind = "mount" THEN "dead" ELSE @]
  BY DEF NoCall
<1>5. Failure(call[c]) \in {"ok", "ENOENT", "EIO"}
  BY DEF Failure
<1>6. /\ call' = [call EXCEPT ![c] = k] /\ sock' = [sock EXCEPT ![c] = s]
      /\ result' = [result EXCEPT ![c] = Failure(call[c])]
  BY <1>4 DEF Fail
<1>7. /\ root' = [root EXCEPT ![c] = root[c]] /\ fi' = [fi EXCEPT ![c] = fi[c]]
      /\ count' = [count EXCEPT ![c] = count[c]]
  BY DEF Fail, CInv, ClientTypes
<1> HIDE DEF k
<1> QED BY <1>1, <1>3, <1>5, <1>6, <1>7, ClientMoves DEF AtRest

LEMMA ReleaseKeeps ==
  ASSUME CInv, NEW c \in Client, Release(c)
  PROVE  CInv'
<1>1. /\ CallerFits(c, call[c], sock[c], root[c], fi[c])
      /\ call[c] \in CallSet /\ sock[c] \in SockSet
      /\ root[c] \in Handle \cup {NoHandle} /\ result[c] \in {"ok", "ENOENT", "EIO"}
      /\ count[c] \in Nat /\ count[c] <= MaxCalls[c]
  BY ClientFacts
<1>2. NoFile \in FileSet
  BY RootIsPath DEF NoFile, FileSet
<1>3. CallerFits(c, call[c], sock[c], root[c], NoFile)
  BY <1>1 DEF CallerFits
<1>4. /\ call' = [call EXCEPT ![c] = call[c]] /\ sock' = [sock EXCEPT ![c] = sock[c]]
      /\ root' = [root EXCEPT ![c] = root[c]] /\ fi' = [fi EXCEPT ![c] = NoFile]
      /\ result' = [result EXCEPT ![c] = result[c]]
      /\ count' = [count EXCEPT ![c] = count[c]] /\ UNCHANGED vars
  BY DEF Release, CInv, ClientTypes
<1> QED BY <1>1, <1>2, <1>3, <1>4, ClientMoves

LEMMA TimeOutKeeps ==
  ASSUME CInv, NEW c \in Client, TimeOut(c)
  PROVE  CInv'
BY FailKeeps, TakenRests DEF TimeOut

(* The answer a client takes is that to the next request of its callback.   *)
LEMMA AnswerTaken ==
  ASSUME CInv, NEW c \in Client, Ready(sock[c])
  PROVE  /\ sock[c].waiting /\ call[c].kind \in Kind \cup {"mount"}
         /\ HasRequest(call[c]) /\ sock[c].held.msg = Request(c, call[c])
         /\ sock[c].answer.err = "none" =>
              AnswerFits(call[c], sock[c].held, sock[c].answer)
BY ClientFacts DEF Ready, CallerFits, SockFits, CallSet

(* What AnswerFits says to a callback, of the request it has sent.          *)
LEMMA AnswerSays ==
  ASSUME CInv, NEW c \in Client, NEW e, NEW a,
         call[c].kind \in Kind \cup {"mount"}, HasRequest(call[c]),
         e.msg = Request(c, call[c]), AnswerFits(call[c], e, a)
  PROVE  /\ LooksUp(call[c]) =>
              Bound(a.fh, SubSeq(call[c].path, 1, call[c].done + 1))
         /\ call[c].kind = "mount" /\ call[c].done >= 2 => Bound(a.fh, Root)
         /\ call[c].kind = "create" => Bound(a.fh, call[c].path)
         /\ ~LooksUp(call[c]) /\ call[c].kind \in {"unlink", "rmdir", "rename", "mkdir"}
              => e.acts >= 1
<1> DEFINE k == call[c]
<1>1. k \in CallSet /\ k.path \in Path /\ k.done \in Nat
  BY ClientFacts DEF CallSet
<1>2. CASE LooksUp(k)
  <2>1. /\ e.msg.op = "LOOKUP" /\ e.msg.path[1] = k.path[k.done + 1]
    BY <1>2 DEF Request
  <2>2. Append(Names(k), e.msg.path[1]) = SubSeq(k.path, 1, k.done + 1)
    BY <1>1, <1>2, <2>1, NextName DEF Names, LooksUp
  <2>3. k.kind \notin {"mount", "create"}
    BY <1>2 DEF LooksUp, Lookups, Opens
  <2> QED BY <1>2, <2>1, <2>2, <2>3 DEF AnswerFits
<1>3. CASE ~LooksUp(k) /\ k.kind = "mount"
  <2>1. k.done >= 2 => e.msg.op = "MOUNT"
    BY <1>1, <1>3 DEF Request
  <2> QED BY <1>3, <2>1 DEF AnswerFits
<1>4. CASE ~LooksUp(k) /\ k.kind # "mount"
  <2>1. k.kind \in Kind \ Opens /\ e.msg.op = OpOf(k.kind)
    BY <1>4 DEF HasRequest, Request
  <2>2. k.kind # "rename" => e.msg.path = k.path
    BY <1>4 DEF Request
  <2> QED BY <1>4, <2>1, <2>2, OwnRequest DEF AnswerFits
<1> QED BY <1>2, <1>3, <1>4

LEMMA FinishKeeps ==
  ASSUME CInv, UNCHANGED <<vars, count>>, NEW c \in Client, Ready(sock[c]),
         sock[c].answer.err = "none", ~LooksUp(call[c]),
         call[c].kind = "mount" => call[c].done = 2, Finish(c, sock[c].answer)
  PROVE  CInv'
<1> DEFINE a == sock[c].answer
           r == IF call[c].kind = "mount" THEN a.fh ELSE root[c]
           f == IF call[c].kind = "create" THEN [fh |-> a.fh, path |-> call[c].path]
                ELSE fi[c]
<1>1. /\ CallerFits(c, call[c], sock[c], root[c], fi[c]) /\ call[c] \in CallSet
      /\ fi[c] \in FileSet /\ root[c] \in Handle \cup {NoHandle}
      /\ count[c] \in Nat /\ count[c] <= MaxCalls[c]
  BY ClientFacts
<1>2. /\ call[c].kind \in Kind \cup {"mount"}
      /\ call[c].kind = "mount" => Bound(a.fh, Root)
      /\ call[c].kind = "create" => Bound(a.fh, call[c].path)
  BY AnswerTaken, AnswerSays
<1>3. /\ AtRest(Taken(sock[c])) /\ call[c].path \in Path
      /\ \A h, p : Bound(h, p) => h \in Handle /\ h # NoHandle
  BY <1>1, TakenRests, Sentinels DEF CallSet, Bound, Issued
<1>4. r \in Handle \cup {NoHandle} /\ r # NoHandle /\ Bound(r, Root)
  BY <1>1, <1>2, <1>3 DEF CallerFits
<1>5. f \in FileSet /\ (f # NoFile => Bound(f.fh, f.path))
  BY <1>1, <1>2, <1>3 DEF CallerFits, FileSet
<1>6. /\ call' = [call EXCEPT ![c] = NoCall] /\ sock' = [sock EXCEPT ![c] = Taken(sock[c])]
      /\ root' = [root EXCEPT ![c] = r] /\ fi' = [fi EXCEPT ![c] = f]
      /\ result' = [result EXCEPT ![c] = "ok"] /\ count' = [count EXCEPT ![c] = count[c]]
  BY DEF Finish, CInv, ClientTypes
<1> HIDE DEF r, f
<1>7. NoCall \in CallSet /\ CallerFits(c, NoCall, Taken(sock[c]), r, f)
  <2>1. NoCall = [NoCall EXCEPT !.kind = "idle"]
    BY DEF NoCall
  <2> QED BY <1>3, <1>4, <1>5, <2>1, NoCallFits
<1> QED BY <1>1, <1>3, <1>4, <1>5, <1>6, <1>7, ClientMoves DEF AtRest

(* The callback has looked up one name more.                                *)
LEMMA OneMore ==
  ASSUME NEW k \in CallSet, NEW h \in Handle
  PROVE  LET k2 == [k EXCEPT !.done = @ + 1, !.cur = h] IN
         /\ k2 \in CallSet /\ k2.kind = k.kind /\ k2.path = k.path /\ k2.to = k.to
         /\ k2.done = k.done + 1 /\ k2.cur = h
<1> DEFINE n  == k.done + 1
           k2 == [k EXCEPT !.done = n, !.cur = h]
<1>1. n \in Nat /\ h \in Handle \cup {NoHandle}
  BY DEF CallSet
<1> HIDE DEF n
<1>2. k2 \in CallSet
  BY <1>1 DEF CallSet
<1>3. k2.done = n /\ k2.cur = h
  BY DEF CallSet
<1>4. k2.kind = k.kind /\ k2.path = k.path /\ k2.to = k.to
  BY DEF CallSet
<1> QED BY <1>2, <1>3, <1>4 DEF n

LEMMA ReceiveKeeps ==
  ASSUME CInv, NEW c \in Client, Receive(c)
  PROVE  CInv'
<1> DEFINE k == call[c]
           a == sock[c].answer
           s == Taken(sock[c])
<1>1. Ready(sock[c]) /\ sock[c].waiting /\ UNCHANGED <<vars, count>> /\ AtRest(s)
  BY TakenRests, AnswerTaken DEF Receive
<1>2. /\ k \in CallSet /\ sock[c] \in SockSet /\ k.done \in Nat
      /\ count[c] \in Nat /\ count[c] <= MaxCalls[c] /\ CallFits(k)
      /\ k.kind \in Kind => root[c] # NoHandle
      /\ count' = [count EXCEPT ![c] = count[c]]
  BY <1>1, ClientFacts DEF CallerFits, CallSet, CInv, ClientTypes
<1>3. CASE a.err # "none" /\ Fail(c, s)
  BY <1>1, <1>3, FailKeeps
<1>4. CASE a.err = "none" /\ LooksUp(k) /\ GoOn(c, [k EXCEPT !.done = @ + 1, !.cur = a.fh], s)
  <2> DEFINE k2 == [k EXCEPT !.done = @ + 1, !.cur = a.fh]
  <2>1. Bound(a.fh, SubSeq(k.path, 1, k.done + 1))
    BY <1>1, <1>4, AnswerTaken, AnswerSays
  <2>2. a.fh \in Handle /\ a.fh \in Issued
    BY <2>1 DEF Bound, Issued
  <2>3. /\ k2 \in CallSet /\ k2.kind = k.kind /\ k2.path = k.path /\ k2.to = k.to
        /\ k2.done = k.done + 1 /\ k2.cur = a.fh
    BY <1>2, <2>2, OneMore
  <2>4. k.kind \in Lookups /\ k.kind \in Kind /\ k.done < Len(k.path) /\ k.kind # "mount"
    BY <1>4 DEF LooksUp, Kind, Lookups, Opens
  <2>5. k.done + 1 <= Len(k.path)
    BY <1>2, <2>4, PathSeq DEF CallSet
  <2> HIDE DEF k2
  <2>6. CallFits(k2)
    BY <1>2, <2>1, <2>2, <2>3, <2>4, <2>5 DEF CallFits, Names
  <2>7. HasRequest(k2) \/ result' = [result EXCEPT ![c] = "ok"]
    BY <1>4 DEF GoOn, k2
  <2> QED BY <1>1, <1>2, <1>4, <2>3, <2>4, <2>6, <2>7, GoOnKeeps DEF k2
<1>5. CASE /\ a.err = "none" /\ k.kind = "mount" /\ k.done < 2
           /\ GoOn(c, [k EXCEPT !.done = @ + 1], s)
  <2> DEFINE k2 == [k EXCEPT !.done = @ + 1]
  <2>1. /\ k2 \in CallSet /\ k2.kind = "mount" /\ k2.cur = k.cur /\ k2.done = k.done + 1
    BY <1>2, <1>5 DEF CallSet
  <2> HIDE DEF k2
  <2>2. "mount" \notin Kind \cup Lookups
    BY DEF Kind, Lookups, Opens, Data
  <2>3. CallFits(k2) /\ HasRequest(k2)
    BY <1>2, <1>5, <2>1, <2>2 DEF CallFits, HasRequest, Opens
  <2> QED BY <1>1, <1>2, <1>5, <2>1, <2>2, <2>3, GoOnKeeps DEF k2
<1>6. CASE /\ a.err = "none" /\ ~LooksUp(k) /\ (k.kind = "mount" => k.done = 2)
           /\ Finish(c, a)
  BY <1>1, <1>6, FinishKeeps
<1> QED BY <1>3, <1>4, <1>5, <1>6 DEF Receive

-----------------------------------------------------------------------------
(* The steps of the server                                                  *)

(* A message a client has sent is one of those SnfsServer is asked.         *)
LEMMA MessageFacts ==
  ASSUME NEW m \in Messages, Served(m)
  PROVE  /\ m.is_dir \in BOOLEAN /\ m.path \in Path
         /\ m.op \in ByHandle => m.fh \in Handle /\ m.fh \in Issued
         /\ m.op = "LOOKUP" => m.path[1] \in Name
         /\ m.op \in ByPath \cup {"RENAME"} => m.path \in Path \ {Root}
<1>1. m.path \in Path /\ m.is_dir \in BOOLEAN
  BY DEF Messages
<1>2. m.op = "LOOKUP" => m.path[1] \in Name
  <2>1. m.path \in Seq(Name) /\ Len(m.path) \in Nat
    BY <1>1, PathSeq, DepthBound
  <2>2. m.path # <<>> => 1 \in 1 .. Len(m.path)
    BY <2>1
  <2>3. m.path # <<>> => m.path[1] \in Name
    BY <2>1, <2>2
  <2> QED BY <2>3 DEF Served, Root
<1> QED BY <1>1, <1>2 DEF Served, Issued

LEMMA HandlerIsStep ==
  ASSUME NEW m \in Messages, Served(m), Handler(m)
  PROVE  Next
<1>1. /\ m.is_dir \in BOOLEAN
      /\ m.op \in ByHandle => m.fh \in Issued
      /\ m.op = "LOOKUP" => m.path[1] \in Name
      /\ m.op \in ByPath \cup {"RENAME"} => m.path \in Path \ {Root}
  BY MessageFacts
<1>2. ASSUME m.op \notin ByHandle \cup ByPath PROVE Next
  BY <1>2 DEF Handler, ByHandle, ByPath, Next
<1>3. ASSUME m.op \in ByPath PROVE Next
  <2>1. handle_create(m.path) \/ handle_mkdir(m.path)
    BY <1>3 DEF Handler, ByPath
  <2> QED BY <1>1, <1>3, <2>1 DEF Next
<1>4. ASSUME m.op \in ByHandle PROVE Next
  <2>1. m.fh \in Issued
    BY <1>1, <1>4
  <2>2. CASE m.op = "LOOKUP" /\ handle_lookup(m.fh, m.path[1])
    BY <1>1, <2>1, <2>2 DEF Next
  <2>3. CASE m.op = "REMOVE" /\ handle_remove(m.fh, m.is_dir)
    BY <1>1, <2>1, <2>3 DEF Next
  <2>4. CASE m.op = "RENAME" /\ handle_rename(m.fh, m.path)
    BY <1>1, <2>1, <2>4 DEF Next
  <2>5. CASE \/ handle_getattr(m.fh) \/ handle_setattr(m.fh) \/ handle_read(m.fh)
             \/ handle_write(m.fh) \/ handle_readdir(m.fh)
    BY <2>1, <2>5 DEF Next
  <2> QED BY <1>4, <2>2, <2>3, <2>4, <2>5 DEF Handler, ByHandle
<1> QED BY <1>2, <1>3, <1>4

(* What a handler has done when it answers a success, and when a REMOVE or  *)
(* RENAME has changed the directory.                                        *)
LEMMA HandlerDoes ==
  ASSUME ServerInv, NEW m \in Messages, Served(m), Handler(m)
  PROVE  /\ m.op = "LOOKUP" /\ reply'.err = "none" =>
              \A p : Bound(m.fh, p) => Bound(reply.fh, Append(p, m.path[1]))'
         /\ m.op = "MOUNT" /\ reply'.err = "none"
              => Bound(reply.fh, Root)' /\ db'.path[reply'.fh] = Root
         /\ m.op = "CREATE" /\ reply'.err = "none" => Bound(reply.fh, m.path)'
         /\ m.op \in {"REMOVE", "RENAME", "MKDIR"} /\ reply'.err = "none" => tree' # tree
         /\ m.op \in {"REMOVE", "RENAME"} /\ tree' # tree =>
              db.path[m.fh] # NoPath /\ db'.path[m.fh] = NoPath
<1>1. /\ m.is_dir \in BOOLEAN /\ IInv /\ IsDir(tree, Root)
      /\ m.op \in ByHandle => m.fh \in Handle
      /\ m.op = "LOOKUP" => m.path[1] \in Name
      /\ m.op \in ByPath \cup {"RENAME"} => m.path \in Path \ {Root}
  BY MessageFacts DEF ServerInv, GInv
<1>2. ASSUME m.op = "LOOKUP", reply'.err = "none", NEW p, Bound(m.fh, p)
      PROVE  Bound(reply.fh, Append(p, m.path[1]))'
  <2>1. handle_lookup(m.fh, m.path[1])
    BY <1>2 DEF Handler
  <2>2. /\ db.path[m.fh] = p /\ Append(p, m.path[1]) \in Path
        /\ Grants(Append(p, m.path[1]))
    BY <1>2, <2>1, LookupGrants DEF Bound
  <2> DEFINE q == Append(p, m.path[1])
  <2>3. q \in Path /\ Grants(q)
    BY <2>2
  <2> HIDE DEF q
  <2>4. Bound(reply.fh, q)'
    BY <2>3, KnownGrants
  <2> QED BY <2>4 DEF q
<1>3. ASSUME m.op = "MOUNT" PROVE Bound(reply.fh, Root)' /\ db'.path[reply'.fh] = Root
  BY <1>1, <1>3, MountGrants, KnownGrants, RootIsPath DEF Handler
<1>4. ASSUME m.op = "CREATE", reply'.err = "none" PROVE Bound(reply.fh, m.path)'
  <2>1. m.path \in Path \ {Root} /\ handle_create(m.path)
    BY <1>1, <1>4 DEF Handler, ByPath
  <2> QED BY <1>4, <2>1, CreateGrants, KnownGrants
<1>5. ASSUME m.op = "MKDIR", reply'.err = "none" PROVE tree' # tree
  <2>1. m.path \in Path /\ handle_mkdir(m.path)
    BY <1>1, <1>5 DEF Handler, ByPath
  <2> QED BY <1>1, <1>5, <2>1, MkdirChanges
<1>6. ASSUME m.op = "REMOVE"
      PROVE  /\ reply'.err = "none" => tree' # tree
             /\ tree' # tree => db.path[m.fh] # NoPath /\ db'.path[m.fh] = NoPath
  <2>1. m.fh \in Handle /\ handle_remove(m.fh, m.is_dir)
    BY <1>1, <1>6 DEF Handler, ByHandle
  <2> QED BY <1>1, <2>1, RemoveChanges
<1>7. ASSUME m.op = "RENAME"
      PROVE  /\ reply'.err = "none" => tree' # tree
             /\ tree' # tree => db.path[m.fh] # NoPath /\ db'.path[m.fh] = NoPath
  <2>1. m.fh \in Handle /\ m.path \in Path \ {Root} /\ handle_rename(m.fh, m.path)
    BY <1>1, <1>7 DEF Handler, ByHandle
  <2> QED BY <1>1, <2>1, RenameChanges
<1> QED BY <1>2, <1>3, <1>4, <1>5, <1>6, <1>7

(* A socket whose request e has been run, and is e2 from now on.            *)
LEMMA AnsweredSocket ==
  ASSUME NEW s \in SockSet, NEW e \in Runnable(s), NEW e2 \in EntrySet,
         NEW a \in Answers, NEW t \in Answered(s, e, e2, a)
  PROVE  /\ t \in SockSet /\ t.waiting = s.waiting
         /\ e \in Holds(s) /\ Holds(t) \subseteq Holds(s) \cup {e2}
         /\ \/ t.held = s.held /\ t.answer = s.answer
            \/ e = s.held /\ t.held = e2 /\ t.answer = s.answer
            \/ e = s.held /\ t.held = e2 /\ t.answer = a /\ s.waiting
<1>1. e \in Holds(s)
  BY DEF Runnable, Holds
<1>2. CASE e = s.held
  <2>1. CASE t = [s EXCEPT !.held = e2]
    BY <1>1, <1>2, <2>1 DEF SockSet, Holds
  <2>2. CASE t = [s EXCEPT !.held = e2, !.answer = a] /\ s.waiting
    <3>1. t \in SockSet
      BY <2>2 DEF SockSet
    <3>2. /\ t.held = e2 /\ t.answer = a /\ t.waiting = s.waiting /\ t.late = s.late
      BY <2>2 DEF SockSet
    <3> QED BY <1>1, <1>2, <2>2, <3>1, <3>2 DEF Holds
  <2> QED BY <1>2, <2>1, <2>2 DEF Answered
<1>3. CASE e # s.held
  <2>1. PICK copies \in SUBSET {e2} : t = [s EXCEPT !.late = (@ \ {e}) \cup copies]
    BY <1>3 DEF Answered
  <2>2. t.late = (s.late \ {e}) \cup copies /\ s.late \in SUBSET EntrySet
    BY <2>1 DEF SockSet
  <2> QED BY <1>1, <2>1, <2>2 DEF SockSet, Holds
<1> QED BY <1>2, <1>3

(* The server runs entry e of client c, whose socket becomes t.             *)
ServeEntry(c, e, t) ==
  /\ e \in Runnable(sock[c]) /\ Handler(e.msg)
  /\ t \in Answered(sock[c], e,
             [e EXCEPT !.acts = IF tree' = tree THEN @ ELSE @ + 1],
             [err |-> reply'.err, fh |-> reply'.fh])
  /\ sock' = [sock EXCEPT ![c] = t]
  /\ UNCHANGED <<call, root, fi, result, count>>

LEMMA ServeIsEntry ==
  ASSUME NEW c, Serve(c)
  PROVE  \E e, t : ServeEntry(c, e, t)
BY DEF Serve, ServeEntry

(* What is known of the entry, the entry it becomes and the answer.         *)
LEMMA ServedEntry ==
  ASSUME CInv, NEW c \in Client, NEW e, NEW t, ServeEntry(c, e, t)
  PROVE  LET e2 == [e EXCEPT !.acts = IF tree' = tree THEN @ ELSE @ + 1]
             a  == [err |-> reply'.err, fh |-> reply'.fh] IN
         /\ e \in EntrySet /\ e \in Holds(sock[c]) /\ Served(e.msg)
         /\ e2 \in EntrySet /\ e2.msg = e.msg
         /\ e2.acts = IF tree' = tree THEN e.acts ELSE e.acts + 1
         /\ a \in Answers /\ Next /\ ServerInv' /\ HandleStep
<1>1. sock[c] \in SockSet /\ SockFits(c, call[c], sock[c])
  BY ClientFacts DEF CallerFits
<1>2. e \in Holds(sock[c]) /\ e \in EntrySet
  BY <1>1 DEF ServeEntry, Runnable, Holds, SockSet
<1>3. e.msg \in Messages /\ Served(e.msg) /\ e.acts \in Nat
  BY <1>1, <1>2 DEF SockFits, EntrySet
<1>4. Next /\ ServerInv' /\ HandleStep
  BY <1>3, HandlerIsStep, ServerSteps DEF ServeEntry, CInv
<1>5. reply' \in Reply
  BY <1>4 DEF ServerInv, GInv, IInv, TypeOK
<1>6. [err |-> reply'.err, fh |-> reply'.fh] \in Answers
  BY <1>5 DEF Reply, Answers
<1> DEFINE n  == IF tree' = tree THEN e.acts ELSE e.acts + 1
           e2 == [e EXCEPT !.acts = n]
<1>7. n \in Nat
  BY <1>3
<1> HIDE DEF n
<1>8. e2 \in EntrySet /\ e2.msg = e.msg /\ e2.acts = n
  BY <1>2, <1>7 DEF EntrySet
<1> QED BY <1>2, <1>3, <1>4, <1>6, <1>8 DEF n

(* The client whose request is run still fits, also with its answer.        *)
LEMMA EntryFits ==
  ASSUME CInv, NEW c \in Client, NEW e, NEW t, ServeEntry(c, e, t),
         NEW k, k = call[c], NEW s, s = sock[c], NEW r, r = root[c], NEW f, f = fi[c],
         NEW e2, e2 = [e EXCEPT !.acts = IF tree' = tree THEN @ ELSE @ + 1],
         NEW a, a = [err |-> reply'.err, fh |-> reply'.fh]
  PROVE  t \in SockSet /\ CallerFits(c, k, t, r, f)'
<1>1. /\ e \in EntrySet /\ e \in Holds(s) /\ Served(e.msg)
      /\ e2 \in EntrySet /\ e2.msg = e.msg
      /\ e2.acts = IF tree' = tree THEN e.acts ELSE e.acts + 1
      /\ a \in Answers /\ HandleStep
  BY ServedEntry
<1>2. e.msg \in Messages /\ e.acts \in Nat
  BY <1>1 DEF EntrySet
<1>3. k \in CallSet /\ s \in SockSet /\ CallerFits(c, k, s, r, f)
  BY ClientFacts
<1>4. Handler(e.msg) /\ t \in Answered(s, e, e2, a) /\ e \in Runnable(s)
  BY DEF ServeEntry
<1>5. CallerFits(c, k, s, r, f)'
  BY <1>1, <1>3, FitsStays
<1>6. e = s.held /\ s.waiting /\ a.err = "none" => AnswerFits(k, e2, a)'
  <2> SUFFICES ASSUME e = s.held, s.waiting, a.err = "none" PROVE AnswerFits(k, e2, a)'
    OBVIOUS
  <2>1. /\ e.msg.op = "LOOKUP" /\ reply'.err = "none" =>
             \A p : Bound(e.msg.fh, p) => Bound(reply.fh, Append(p, e.msg.path[1]))'
        /\ e.msg.op = "MOUNT" /\ reply'.err = "none" => Bound(reply.fh, Root)'
        /\ e.msg.op = "CREATE" /\ reply'.err = "none" => Bound(reply.fh, e.msg.path)'
        /\ e.msg.op \in {"REMOVE", "RENAME", "MKDIR"} /\ reply'.err = "none"
             => tree' # tree
    BY <1>1, <1>2, <1>4, HandlerDoes DEF CInv
  <2>2. /\ HasRequest(k) /\ e.msg = Request(c, k) /\ CallFits(k)
        /\ k.kind \in Kind \cup {"mount"}
    BY <1>3 DEF CallerFits, SockFits, CallSet
  <2>3. e.msg.op = "LOOKUP" => LooksUp(k) /\ Bound(e.msg.fh, Names(k))
    <3>1. CASE LooksUp(k)
      BY <2>2, <3>1 DEF LooksUp, CallFits, Request
    <3>2. CASE ~LooksUp(k)
      <4>1. k.kind # "mount" => k.kind \in Kind \ Opens /\ e.msg.op = OpOf(k.kind)
        BY <2>2, <3>2 DEF HasRequest, Request
      <4>2. k.kind = "mount" => e.msg.op \in {"NOOP", "MOUNT"}
        BY <2>2, <3>2 DEF Request
      <4> QED BY <4>1, <4>2, OwnRequest
    <3> QED BY <3>1, <3>2
  <2>4. reply'.err = "none" /\ reply'.fh = a.fh
    OBVIOUS
  <2>5. e.msg.op \in {"REMOVE", "RENAME", "MKDIR"} => e2.acts >= 1
    BY <1>1, <1>2, <2>1, <2>4
  <2>6. e.msg.op = "LOOKUP" => Bound(reply.fh, Append(Names(k), e.msg.path[1]))'
    BY <2>1, <2>3, <2>4
  <2> QED BY <1>1, <2>1, <2>4, <2>5, <2>6 DEF AnswerFits, Bound
<1>7. \A x : AnswerFits(k, e, x)' => AnswerFits(k, e2, x)'
  BY <1>1, <1>2 DEF AnswerFits
<1>8. Served(e2.msg)'
  BY <1>1 DEF Served, HandleStep
<1>9. /\ t \in SockSet /\ t.waiting = s.waiting
      /\ Holds(t) \subseteq Holds(s) \cup {e2}
      /\ \/ t.held = s.held /\ t.answer = s.answer
         \/ e = s.held /\ t.held = e2 /\ t.answer = s.answer
         \/ e = s.held /\ t.held = e2 /\ t.answer = a /\ s.waiting
  BY <1>1, <1>3, <1>4, AnsweredSocket
<1>10. SockFits(c, k, t)'
  <2>1. SockFits(c, k, s)'
    BY <1>5 DEF CallerFits
  <2>2. \A x \in Holds(t) : Served(x.msg)'
    BY <1>8, <1>9, <2>1 DEF SockFits
  <2>3. t.waiting => t.held \in EntrySet /\ t.held.msg = Request(c, k)
    BY <1>1, <1>9, <2>1 DEF SockFits
  <2>4. t.answer # NoAnswer =>
          t.waiting /\ (t.answer.err = "none" => AnswerFits(k, t.held, t.answer)')
    BY <1>6, <1>7, <1>9, <2>1 DEF SockFits
  <2> QED BY <1>9, <2>1, <2>2, <2>3, <2>4 DEF SockFits
<1> QED BY <1>5, <1>9, <1>10 DEF CallerFits

LEMMA ServeKeeps ==
  ASSUME CInv, NEW c \in Client, Serve(c)
  PROVE  CInv' /\ Next
<1>1. PICK e, t : ServeEntry(c, e, t)
  BY ServeIsEntry
<1>2. Next /\ ServerInv' /\ HandleStep
  BY <1>1, ServedEntry
<1>3. /\ t \in SockSet
      /\ \A k, s, r, f : k = call[c] /\ s = sock[c] /\ r = root[c] /\ f = fi[c]
                        => CallerFits(c, k, t, r, f)'
  <2>1. \E e2, a : /\ e2 = [e EXCEPT !.acts = IF tree' = tree THEN @ ELSE @ + 1]
                   /\ a = [err |-> reply'.err, fh |-> reply'.fh]
    OBVIOUS
  <2> QED BY <1>1, <2>1, EntryFits
<1>4. sock' = [sock EXCEPT ![c] = t] /\ UNCHANGED <<call, root, fi, result, count>>
  BY <1>1 DEF ServeEntry
<1>5. ClientTypes'
  BY <1>3, <1>4 DEF CInv, ClientTypes
<1>6. ASSUME NEW d \in Client PROVE ClientFits(d)'
  <2>1. CASE d = c
    BY <1>3, <1>4, <2>1 DEF ClientFits, CInv, ClientTypes
  <2>2. CASE d # c
    <3>1. CallerFits(d, call[d], sock[d], root[d], fi[d])
      BY DEF CInv, ClientFits
    <3>2. \A k, s, r, f : CallerFits(d, k, s, r, f) => CallerFits(d, k, s, r, f)'
      BY <1>2, FitsStays
    <3>3. sock'[d] = sock[d]
      BY <1>4, <2>2 DEF CInv, ClientTypes
    <3> QED BY <1>4, <3>1, <3>2, <3>3 DEF ClientFits
  <2> QED BY <2>1, <2>2
<1> QED BY <1>2, <1>5, <1>6 DEF CInv

LEMMA LostFits ==
  ASSUME NEW c, NEW k, NEW s \in SockSet, NEW r, NEW f, CallerFits(c, k, s, r, f)
  PROVE  PeerLost(s) \in SockSet /\ CallerFits(c, k, PeerLost(s), r, f)
<1> DEFINE t == PeerLost(s)
<1>1. /\ t \in SockSet /\ t.held = s.held /\ t.waiting = s.waiting
      /\ t.answer = s.answer /\ t.late = {}
  BY DEF PeerLost, SockSet
<1> HIDE DEF t
<1>2. Holds(t) \subseteq Holds(s)
  BY <1>1 DEF Holds
<1>3. SockFits(c, k, t)
  BY <1>1, <1>2 DEF CallerFits, SockFits
<1> QED BY <1>1, <1>3 DEF CallerFits, t

LEMMA ServerProcessKeeps ==
  ASSUME CInv, ServerProcess
  PROVE  CInv' /\ Next
<1>1. Next /\ ServerInv' /\ HandleStep
  <2>1. Next
    BY DEF ServerProcess, Next
  <2> QED BY <2>1, ServerSteps DEF CInv
<1>2. \/ sock' = [c \in Client |-> PeerLost(sock[c])]
      \/ sock' = sock
  BY DEF ServerProcess
<1>3. UNCHANGED <<call, root, fi, result, count>>
  BY DEF ServerProcess
<1>4. ASSUME NEW c \in Client
      PROVE  /\ sock'[c] \in SockSet
             /\ CallerFits(c, call[c], sock'[c], root[c], fi[c])
  BY <1>2, ClientFacts, LostFits
<1>5. ASSUME NEW c \in Client PROVE ClientFits(c)'
  <2>1. \A k, s, r, f : CallerFits(c, k, s, r, f) => CallerFits(c, k, s, r, f)'
    BY <1>1, FitsStays
  <2>2. CallerFits(c, call'[c], sock'[c], root'[c], fi'[c])
    BY <1>3, <1>4
  <2> QED BY <2>1, <2>2 DEF ClientFits
<1>6. sock' \in [Client -> SockSet]
  <2>1. CASE sock' = [c \in Client |-> PeerLost(sock[c])]
    BY <1>4, <2>1
  <2>2. CASE sock' = sock
    BY <2>2 DEF CInv, ClientTypes
  <2> QED BY <1>2, <2>1, <2>2
<1>7. ClientTypes'
  BY <1>3, <1>6 DEF CInv, ClientTypes
<1> QED BY <1>1, <1>5, <1>7 DEF CInv

-----------------------------------------------------------------------------
(* The invariant of the whole system                                        *)

LEMMA ClientStarts == ClientInit => CInv
<1> SUFFICES ASSUME ClientInit PROVE CInv
  OBVIOUS
<1>1. ServerInv
  BY ServerStarts DEF ClientInit
<1> DEFINE k == MountCall
<1>2. k = [kind |-> "mount", path |-> Root, to |-> Root, done |-> 0, cur |-> NoHandle]
  BY DEF MountCall, NoCall
<1>3. "mount" \notin Kind \cup Lookups
  BY DEF Kind, Lookups, Opens, Data
<1>4. k \in CallSet /\ CallFits(k) /\ HasRequest(k)
  BY <1>2, <1>3, RootIsPath DEF CallSet, CallFits, HasRequest, Opens
<1> HIDE DEF k
<1>5. ASSUME NEW c \in Client
      PROVE  /\ Submitted(NewSocket, Entry(c, k, 0)) \in SockSet
             /\ SockFits(c, k, Submitted(NewSocket, Entry(c, k, 0)))
  <2> DEFINE e == Entry(c, k, 0)
             s == Submitted(NewSocket, e)
  <2>1. e \in EntrySet /\ Served(e.msg) /\ e.msg = Request(c, k)
    BY <1>2, <1>4, RequestFits DEF Entry, EntrySet
  <2> HIDE DEF e
  <2>2. s = [held |-> e, waiting |-> TRUE, answer |-> NoAnswer, late |-> {}]
    BY DEF Submitted, NewSocket
  <2>3. s \in SockSet
    BY <2>1, <2>2 DEF SockSet
  <2>4. Holds(s) \subseteq {e}
    BY <2>2 DEF Holds
  <2> HIDE DEF s
  <2>5. SockFits(c, k, s)
    BY <1>2, <1>4, <2>1, <2>2, <2>4 DEF SockFits
  <2> QED BY <2>3, <2>5 DEF s, e
<1>6. /\ call = [c \in Client |-> k] /\ root = [c \in Client |-> NoHandle]
      /\ fi = [c \in Client |-> NoFile] /\ result = [c \in Client |-> "ok"]
      /\ count = [c \in Client |-> 0]
      /\ sock = [c \in Client |-> Submitted(NewSocket, Entry(c, k, 0))]
  BY DEF ClientInit, k
<1>7. NoFile \in FileSet
  BY RootIsPath DEF NoFile, FileSet
<1>8. ClientTypes
  BY <1>4, <1>5, <1>6, <1>7, CallBound DEF ClientTypes
<1>9. ASSUME NEW c \in Client PROVE ClientFits(c)
  <2>1. k.kind \notin Kind \cup {"idle"}
    BY <1>2, <1>3
  <2> QED BY <1>4, <1>5, <1>6, <2>1 DEF ClientFits, CallerFits
<1> QED BY <1>1, <1>8, <1>9 DEF CInv

(* A step of the system keeps the invariant, and is one of the server or    *)
(* one that the server does not notice.                                     *)
LEMMA ClientSteps == CInv /\ [ClientNext]_allVars => CInv' /\ [Next]_vars
<1> SUFFICES ASSUME CInv, [ClientNext]_allVars PROVE CInv' /\ [Next]_vars
  OBVIOUS
<1>1. ASSUME NEW c \in Client,
             (\E a \in Callbacks[c] : Call(c, a)) \/ TimeOut(c) \/ Receive(c) \/ Release(c)
      PROVE  CInv' /\ UNCHANGED vars
  <2>1. UNCHANGED vars
    BY <1>1 DEF Call, TimeOut, Receive, Release
  <2> QED BY <1>1, <2>1, CallKeeps, TimeOutKeeps, ReceiveKeeps, ReleaseKeeps
<1>2. ASSUME NEW c \in Client, Serve(c) PROVE CInv' /\ Next
  BY <1>2, ServeKeeps
<1>3. CASE UNCHANGED allVars
  <2>1. UNCHANGED vars /\ UNCHANGED <<sock, call, root, fi, result, count>>
    BY <1>3 DEF allVars, clientVars
  <2>2. ServerInv' /\ HandleStep
    BY <2>1, ServerSteps DEF CInv
  <2>3. ASSUME NEW c \in Client PROVE ClientFits(c)'
    <3>1. \A k, s, r, f : CallerFits(c, k, s, r, f) => CallerFits(c, k, s, r, f)'
      BY <2>2, FitsStays
    <3>2. CallerFits(c, call[c], sock[c], root[c], fi[c])
      BY ClientFacts
    <3>3. CallerFits(c, call'[c], sock'[c], root'[c], fi'[c])
      BY <2>1, <3>2
    <3> QED BY <3>1, <3>3 DEF ClientFits
  <2>4. ClientTypes'
    BY <2>1 DEF CInv, ClientTypes
  <2> QED BY <2>1, <2>2, <2>3, <2>4 DEF CInv
<1> QED BY <1>1, <1>2, <1>3, ServerProcessKeeps DEF ClientNext

LEMMA ClientInvariance == ClientSpec => []CInv
<1>1. CInv /\ [ClientNext]_allVars => CInv'
  BY ClientSteps
<1> QED BY ClientStarts, <1>1, PTL DEF ClientSpec

(* ServerIsServer: the server of the composed system is SnfsServer, started *)
(* with the directory it is given: what the clients send, also late or      *)
(* twice, is among the requests SnfsServer is asked (a handle it has        *)
(* issued, a name, a path), so what is proved of it holds here.             *)
THEOREM ServerIsServer == ClientSpec => InitWith(InitialTree) /\ [][Next]_vars
<1>1. ClientInit => InitWith(InitialTree)
  BY DEF ClientInit
<1>2. CInv /\ [ClientNext]_allVars => [Next]_vars
  BY ClientSteps
<1> QED BY <1>1, <1>2, ClientInvariance, PTL DEF ClientSpec

(* ServerKeepsWorking: under the clients of fuseops.c, too, the two records *)
(* of a handle agree, name_remove never ends the server, and every handle   *)
(* in a reply leads to something.                                           *)
THEOREM ServerKeepsWorking ==
  ClientSpec => [](TypeOK /\ Paired /\ NoErrExit /\ GrantedHandleWorks)
<1>1. CInv => TypeOK /\ Paired /\ NoErrExit /\ GrantedHandleWorks
  BY DEF CInv, ServerInv, GInv, IInv, PairedDb, Paired, Valid
<1> QED BY <1>1, ClientInvariance, PTL

(* ClientTypes hold: a client's variables keep their types, it looks up no  *)
(* more names than its path has, waits exactly when it is in a callback,    *)
(* and holds only handles that the server has issued.                       *)
THEOREM ClientsTyped == ClientSpec => []ClientTypeOK
<1>1. CInv => ClientTypeOK
  <2> SUFFICES ASSUME CInv PROVE ClientTypeOK
    OBVIOUS
  <2>1. TypeOK
    BY DEF CInv, ServerInv, GInv, IInv
  <2>2. ASSUME NEW c \in Client
        PROVE  /\ call[c].kind \in Kind \cup {"mount", "idle", "dead"}
               /\ call[c].path \in Path /\ call[c].to \in Path
               /\ call[c].done \in 0 .. Len(call[c].path) + 2
               /\ {call[c].cur, root[c], fi[c].fh} \subseteq Issued \cup {NoHandle}
               /\ fi[c].path \in Path
               /\ result[c] \in {"ok", "ENOENT", "EIO"}
               /\ count[c] \in 0 .. MaxCalls[c]
               /\ sock[c].waiting <=> call[c].kind \notin {"idle", "dead"}
    <3> DEFINE k == call[c]
    <3>1. /\ k \in CallSet /\ sock[c] \in SockSet /\ fi[c] \in FileSet
          /\ root[c] \in Handle \cup {NoHandle} /\ result[c] \in {"ok", "ENOENT", "EIO"}
          /\ count[c] \in Nat /\ MaxCalls[c] \in Nat /\ count[c] <= MaxCalls[c]
          /\ CallFits(k) /\ SockFits(c, k, sock[c])
          /\ root[c] # NoHandle => Bound(root[c], Root)
          /\ fi[c] # NoFile => Bound(fi[c].fh, fi[c].path)
      BY ClientFacts DEF CallerFits
    <3>2. k.done \in 0 .. Len(k.path) + 2
      <4>1. k.done \in Nat /\ Len(k.path) \in Nat /\ k.kind \in Kind \cup {"mount", "idle", "dead"}
        BY <3>1, PathSeq, DepthBound DEF CallSet
      <4>2. k.done <= Len(k.path) \/ k.done <= 2 \/ k.done = 0
        BY <3>1 DEF CallFits
      <4> QED BY <4>1, <4>2
    <3>3. {k.cur, root[c], fi[c].fh} \subseteq Issued \cup {NoHandle}
      <4>1. k.cur \in Issued \cup {NoHandle}
        BY <3>1 DEF CallFits, CallSet
      <4>2. root[c] \in Issued \cup {NoHandle}
        BY <3>1 DEF Bound
      <4>3. fi[c].fh \in Issued \cup {NoHandle}
        BY <3>1 DEF Bound, NoFile
      <4> QED BY <4>1, <4>2, <4>3
    <3> QED BY <3>1, <3>2, <3>3 DEF CallSet, FileSet, SockFits
  <2> QED BY <2>1, <2>2 DEF ClientTypeOK
<1> QED BY <1>1, ClientInvariance, PTL

(* HandlesFitPaths: whatever the other clients rename, remove and create    *)
(* between its requests, and whatever crashes and restarts the server, a    *)
(* handle that a client holds leads to the path it was asked for, or to     *)
(* nothing.                                                                 *)
THEOREM HandlesFitPaths == ClientSpec => []HandlesFit
<1>1. CInv => HandlesFit
  <2> SUFFICES ASSUME CInv, NEW c \in Client
               PROVE  /\ call[c].kind \in Lookups
                           => LeadsTo(call[c].cur, SubSeq(call[c].path, 1, call[c].done))
                      /\ root[c] # NoHandle => LeadsTo(root[c], Root)
                      /\ fi[c].fh # NoHandle => LeadsTo(fi[c].fh, fi[c].path)
    BY DEF HandlesFit
  <2>1. CallerFits(c, call[c], sock[c], root[c], fi[c])
    BY ClientFacts
  <2>2. \A h, p : Bound(h, p) => LeadsTo(h, p)
    BY DEF Bound, LeadsTo
  <2> QED BY <2>1, <2>2 DEF CallerFits, CallFits, Names, NoFile
<1> QED BY <1>1, ClientInvariance, PTL

(* The part of a step that SuccessMeansDone speaks of.                      *)
DoneStep(c) ==
  call[c].kind \in {"unlink", "rmdir", "rename", "mkdir"}
    /\ call'[c].kind = "idle" /\ result'[c] = "ok"
  => sock[c].held.acts >= 1

LEMMA FailIsNoSuccess ==
  ASSUME CInv, NEW c \in Client, NEW s, Fail(c, s)
  PROVE  result'[c] # "ok"
BY DEF Fail, Failure, CInv, ClientTypes

(* Receive ends such a callback with success only when its own request has  *)
(* been answered.                                                           *)
LEMMA ReceiveIsDone ==
  ASSUME CInv, NEW c \in Client, Receive(c)
  PROVE  DoneStep(c)
<1> DEFINE k == call[c]
<1> SUFFICES ASSUME k.kind \in {"unlink", "rmdir", "rename", "mkdir"},
                    call'[c].kind = "idle", result'[c] = "ok"
             PROVE  sock[c].held.acts >= 1
  BY DEF DoneStep
<1>1. Ready(sock[c])
  BY DEF Receive
<1>2. sock[c].answer.err = "none"
  BY FailIsNoSuccess DEF Receive
<1>3. ASSUME LooksUp(k), GoOn(c, [k EXCEPT !.done = @ + 1, !.cur = sock[c].answer.fh],
                              Taken(sock[c]))
      PROVE  FALSE
  <2> DEFINE k2 == [k EXCEPT !.done = @ + 1, !.cur = sock[c].answer.fh]
  <2>1. k2.kind = k.kind
    BY ClientFacts DEF CallSet
  <2> HIDE DEF k2
  <2>2. HasRequest(k2)
    BY <2>1 DEF HasRequest, Opens
  <2>3. call'[c] = k2
    BY <1>3, <2>2 DEF GoOn, CInv, ClientTypes, k2
  <2> QED BY <2>1, <2>3
<1>4. ~LooksUp(k)
  BY <1>2, <1>3 DEF Receive
<1> QED BY <1>1, <1>2, <1>4, AnswerTaken, AnswerSays

(* SuccessIsReal: a callback that deletes, renames or makes something       *)
(* returns 0 only if its own request has done so, for all the late and      *)
(* repeated requests of earlier callbacks.                                  *)
THEOREM SuccessIsReal == ClientSpec => SuccessMeansDone
<1>1. CInv /\ [ClientNext]_allVars => [\A c \in Client : DoneStep(c)]_allVars
  <2> SUFFICES ASSUME CInv, ClientNext, NEW c \in Client PROVE DoneStep(c)
    OBVIOUS
  <2>1. ASSUME call'[c] = call[c] PROVE DoneStep(c)
    BY <2>1 DEF DoneStep
  <2>2. ASSUME NEW d \in Client, TimeOut(d) \/ Receive(d) PROVE DoneStep(c)
    <3>1. CASE d = c
      BY <2>2, <3>1, ReceiveIsDone, FailIsNoSuccess DEF TimeOut, DoneStep
    <3>2. CASE d # c
      <4>1. call'[c] = call[c]
        BY <2>2, <3>2 DEF TimeOut, Receive, Fail, GoOn, Finish, CInv, ClientTypes
      <4> QED BY <2>1, <4>1
    <3> QED BY <3>1, <3>2
  <2>3. ASSUME NEW d \in Client, NEW a \in Callbacks[d], Call(d, a) PROVE DoneStep(c)
    <3>1. CASE d = c
      BY <2>3, <3>1 DEF Call, DoneStep
    <3>2. CASE d # c
      <4>1. call'[c] = call[c]
        BY <2>3, <3>2 DEF Call, GoOn, CInv, ClientTypes
      <4> QED BY <2>1, <4>1
    <3> QED BY <3>1, <3>2
  <2>4. ASSUME NEW d \in Client, Release(d) \/ Serve(d) PROVE call' = call
    BY <2>4 DEF Release, Serve
  <2>5. ASSUME ServerProcess PROVE call' = call
    BY <2>5 DEF ServerProcess
  <2> QED BY <2>1, <2>2, <2>3, <2>4, <2>5 DEF ClientNext
<1> QED BY <1>1, ClientInvariance, PTL DEF ClientSpec, SuccessMeansDone, DoneStep

-----------------------------------------------------------------------------
(* Where the server does not crash                                          *)

LEMMA LastsStays ==
  ASSUME "crash" \notin Ends, HandleStep,
         NEW c, NEW k, NEW s, NEW r, NEW f, CallerFits(c, k, s, r, f), Lasts(s, r)
  PROVE  Lasts(s, r)'
<1>1. \A h \in Issued : db.path[h] \in {Root, NoPath} => db'.path[h] = db.path[h]
  BY DEF HandleStep
<1>2. ASSUME NEW e \in Holds(s) PROVE ActedOnce(e)'
  <2>1. e.msg.op \in {"REMOVE", "RENAME"} => e.msg.fh \in Issued
    BY DEF CallerFits, SockFits, Served, ByHandle
  <2> QED BY <1>1, <2>1 DEF Lasts, ActedOnce
<1>3. r # NoHandle => r \in Issued
  BY DEF CallerFits, Bound
<1>4. s.answer # NoAnswer /\ s.answer.err = "none" /\ s.held.msg.op = "MOUNT"
        => s.answer.fh \in Issued
  BY DEF CallerFits, SockFits, AnswerFits, Bound
<1>5. RootKept(s, r)'
  BY <1>1, <1>3, <1>4 DEF Lasts, RootKept
<1> QED BY <1>2, <1>5 DEF Lasts

(* A client's own step: a new request has not acted, and a new root handle  *)
(* is the answer to MOUNT.                                                  *)
LEMMA SubmittedLasts ==
  ASSUME NEW s, NEW r, Lasts(s, r), NEW e, e.acts = 0
  PROVE  Lasts(Submitted(s, e), r)
<1>1. Holds(Submitted(s, e)) \subseteq Holds(s) \cup {e} /\ Submitted(s, e).answer = NoAnswer
  BY DEF Submitted, Holds
<1> QED BY <1>1 DEF Lasts, RootKept, ActedOnce

LEMMA RestLasts ==
  ASSUME NEW s \in SockSet, NEW r, Lasts(s, r)
  PROVE  Lasts(Taken(s), r) /\ Lasts(GivenUp(s), r) /\ Lasts(PeerLost(s), r)
<1>1. /\ Holds(Taken(s)) \subseteq Holds(s) /\ Taken(s).answer = NoAnswer
      /\ Holds(GivenUp(s)) = Holds(s) /\ GivenUp(s).answer = s.answer
      /\ GivenUp(s).held = s.held
      /\ Holds(PeerLost(s)) \subseteq Holds(s) /\ PeerLost(s).answer = s.answer
      /\ PeerLost(s).held = s.held
  BY DEF Taken, GivenUp, PeerLost, Holds, SockSet
<1> QED BY <1>1 DEF Lasts, RootKept

LEMMA GoOnLasts ==
  ASSUME CInv, NEW c \in Client, NEW k, NEW s, Lasts(s, root[c]), GoOn(c, k, s)
  PROVE  Lasts(sock'[c], root'[c])
<1>1. CASE HasRequest(k)
  <2>1. sock'[c] = Submitted(s, Entry(c, k, count'[c])) /\ root' = root
    BY <1>1 DEF GoOn, CInv, ClientTypes
  <2>2. Entry(c, k, count'[c]).acts = 0
    BY DEF Entry
  <2> QED BY <2>1, <2>2, SubmittedLasts
<1>2. CASE ~HasRequest(k)
  BY <1>2 DEF GoOn, CInv, ClientTypes
<1> QED BY <1>1, <1>2

LEMMA ClientLasts ==
  ASSUME AInv, NEW c \in Client,
         (\E a \in Callbacks[c] : Call(c, a)) \/ TimeOut(c) \/ Receive(c) \/ Release(c)
  PROVE  Lasts(sock'[c], root'[c])
<1>1. /\ CInv /\ sock[c] \in SockSet /\ Lasts(sock[c], root[c])
      /\ Lasts(Taken(sock[c]), root[c]) /\ Lasts(GivenUp(sock[c]), root[c])
  BY ClientFacts, RestLasts DEF AInv
<1>2. \A s : Fail(c, s) => sock'[c] = s /\ root' = root
  BY <1>1 DEF Fail, CInv, ClientTypes
<1>3. CASE \E a \in Callbacks[c] : Call(c, a)
  BY <1>1, <1>3, GoOnLasts DEF Call
<1>4. CASE TimeOut(c)
  BY <1>1, <1>2, <1>4 DEF TimeOut
<1>5. CASE Release(c)
  BY <1>1, <1>5 DEF Release
<1>6. CASE Receive(c)
  <2>1. CASE Fail(c, Taken(sock[c])) \/ \E k : GoOn(c, k, Taken(sock[c]))
    BY <1>1, <1>2, <2>1, GoOnLasts
  <2>2. CASE /\ sock[c].answer.err = "none" /\ ~LooksUp(call[c])
             /\ call[c].kind = "mount" => call[c].done = 2
             /\ Finish(c, sock[c].answer)
    <3>1. sock'[c] = Taken(sock[c])
      BY <1>1, <2>2 DEF Finish, CInv, ClientTypes
    <3>2. Ready(sock[c])
      BY <1>6 DEF Receive
    <3>3. root'[c] = IF call[c].kind = "mount" THEN sock[c].answer.fh ELSE root[c]
      BY <1>1, <2>2 DEF Finish, CInv, ClientTypes
    <3>4. call[c].kind = "mount" => sock[c].held.msg.op = "MOUNT"
      <4>1. sock[c].held.msg = Request(c, call[c])
        BY <1>1, <3>2, AnswerTaken
      <4>2. call[c].kind = "mount" => Request(c, call[c]).op = "MOUNT"
        BY <2>2 DEF Request
      <4> QED BY <4>1, <4>2
    <3>5. sock[c].answer # NoAnswer /\ Taken(sock[c]).answer = NoAnswer
      BY <1>1, <3>2 DEF Ready, Taken, SockSet
    <3> QED BY <1>1, <2>2, <3>1, <3>3, <3>4, <3>5 DEF Lasts, RootKept
  <2> QED BY <1>6, <2>1, <2>2 DEF Receive
<1> QED BY <1>3, <1>4, <1>5, <1>6

(* The server runs a request of c.                                          *)
LEMMA ServeLasts ==
  ASSUME "crash" \notin Ends, AInv, NEW c \in Client, Serve(c)
  PROVE  Lasts(sock[c], root[c])'
<1>1. PICK e, t : ServeEntry(c, e, t)
  BY ServeIsEntry
<1>2. PICK e2, a : /\ e2 = [e EXCEPT !.acts = IF tree' = tree THEN @ ELSE @ + 1]
                   /\ a = [err |-> reply'.err, fh |-> reply'.fh]
  OBVIOUS
<1>3. /\ e \in EntrySet /\ e \in Holds(sock[c]) /\ Served(e.msg) /\ CInv
      /\ e2 \in EntrySet /\ e2.msg = e.msg /\ a \in Answers /\ HandleStep
      /\ e2.acts = IF tree' = tree THEN e.acts ELSE e.acts + 1
  BY <1>1, <1>2, ServedEntry DEF AInv
<1>4. /\ sock[c] \in SockSet /\ CallerFits(c, call[c], sock[c], root[c], fi[c])
      /\ Lasts(sock[c], root[c])
  BY <1>3, ClientFacts DEF AInv
<1>5. /\ e.msg \in Messages /\ Handler(e.msg) /\ sock'[c] = t /\ root' = root
      /\ t \in Answered(sock[c], e, e2, a) /\ e \in Runnable(sock[c])
  BY <1>1, <1>2, <1>3 DEF ServeEntry, EntrySet, CInv, ClientTypes
<1>6. ASSUME NEW s, s = sock[c], NEW r, r = root[c] PROVE Lasts(s, r)'
  BY <1>3, <1>4, <1>6, LastsStays
<1>7. /\ e.msg.op = "MOUNT" /\ a.err = "none" => db'.path[a.fh] = Root
      /\ e.msg.op \in {"REMOVE", "RENAME"} /\ tree' # tree =>
           db.path[e.msg.fh] # NoPath /\ db'.path[e.msg.fh] = NoPath
  BY <1>2, <1>3, <1>5, HandlerDoes DEF CInv
<1>8. ActedOnce(e2)'
  <2>1. ActedOnce(e) /\ e.acts \in Nat
    BY <1>3, <1>4 DEF Lasts, EntrySet
  <2>2. ActedOnce(e)'
    BY <1>3, <1>6 DEF Lasts
  <2> QED BY <1>3, <1>7, <2>1, <2>2 DEF ActedOnce
<1>9. /\ Holds(t) \subseteq Holds(sock[c]) \cup {e2}
      /\ \/ t.held = sock[c].held /\ t.answer = sock[c].answer
         \/ e = sock[c].held /\ t.held = e2 /\ t.answer = sock[c].answer
         \/ e = sock[c].held /\ t.held = e2 /\ t.answer = a /\ sock[c].waiting
  BY <1>3, <1>4, <1>5, AnsweredSocket
<1>10. \A x \in Holds(t) : ActedOnce(x)'
  BY <1>6, <1>8, <1>9 DEF Lasts
<1>11. \A r : r = root[c] => RootKept(t, r)'
  BY <1>3, <1>5, <1>6, <1>7, <1>9 DEF Lasts, RootKept
<1> QED BY <1>5, <1>10, <1>11 DEF Lasts

LEMMA LastsSteps ==
  ASSUME "crash" \notin Ends
  PROVE  AInv /\ [ClientNext]_allVars => AInv'
<1> SUFFICES ASSUME AInv, [ClientNext]_allVars PROVE AInv'
  OBVIOUS
<1>1. CInv /\ CInv' /\ HandleStep
  BY ClientSteps, ServerSteps DEF AInv, CInv
<1>2. ASSUME NEW d \in Client, NEW s, NEW r, CallerFits(d, call[d], s, r, fi[d]), Lasts(s, r)
      PROVE  Lasts(s, r)'
  <2>1. \A k, f : CallerFits(d, k, s, r, f) => Lasts(s, r)'
    BY <1>1, <1>2, LastsStays
  <2> QED BY <1>2, <2>1
<1>3. ASSUME NEW d \in Client PROVE CallerFits(d, call[d], sock[d], root[d], fi[d])
                                    /\ Lasts(sock[d], root[d]) /\ sock[d] \in SockSet
  BY <1>1, ClientFacts DEF AInv
<1>4. ASSUME NEW d \in Client, sock'[d] = sock[d], root'[d] = root[d]
      PROVE  Lasts(sock[d], root[d])'
  BY <1>2, <1>3, <1>4
<1>5. ASSUME NEW c \in Client,
             (\E a \in Callbacks[c] : Call(c, a)) \/ TimeOut(c) \/ Receive(c) \/ Release(c)
      PROVE  AInv'
  <2>1. UNCHANGED vars
    BY <1>5 DEF Call, TimeOut, Receive, Release
  <2>2. Lasts(sock'[c], root'[c])
    BY <1>5, ClientLasts
  <2>3. \A s, r : Lasts(s, r) => Lasts(s, r)'
    BY <2>1 DEF vars, Lasts, RootKept, ActedOnce
  <2>4. Lasts(sock[c], root[c])'
    BY <2>2, <2>3
  <2>5. ASSUME NEW d \in Client \ {c} PROVE sock'[d] = sock[d] /\ root'[d] = root[d]
    BY <1>1, <1>5
       DEF Call, TimeOut, Receive, Release, Fail, GoOn, Finish, CInv, ClientTypes
  <2> QED BY <1>1, <1>4, <2>4, <2>5 DEF AInv
<1>6. ASSUME NEW c \in Client, Serve(c) PROVE AInv'
  <2>1. ASSUME NEW d \in Client \ {c} PROVE sock'[d] = sock[d] /\ root'[d] = root[d]
    BY <1>1, <1>6 DEF Serve, CInv, ClientTypes
  <2> QED BY <1>1, <1>4, <1>6, <2>1, ServeLasts DEF AInv
<1>7. CASE ServerProcess
  <2>1. ASSUME NEW d \in Client PROVE Lasts(sock[d], root[d])'
    <3>1. /\ sock'[d] \in {sock[d], PeerLost(sock[d])} /\ root'[d] = root[d]
          /\ Lasts(PeerLost(sock[d]), root[d])
          /\ CallerFits(d, call[d], PeerLost(sock[d]), root[d], fi[d])
      BY <1>3, <1>7, RestLasts, LostFits DEF ServerProcess
    <3>2. CASE sock'[d] = PeerLost(sock[d])
      BY <1>2, <3>1, <3>2
    <3> QED BY <1>4, <3>1, <3>2
  <2> QED BY <1>1, <2>1 DEF AInv
<1>8. CASE UNCHANGED allVars
  BY <1>1, <1>4, <1>8 DEF allVars, clientVars, AInv
<1> QED BY <1>5, <1>6, <1>7, <1>8 DEF ClientNext

LEMMA LastsStarts == ClientInit => AInv
<1> SUFFICES ASSUME ClientInit, NEW c \in Client PROVE Lasts(sock[c], root[c])
  BY ClientStarts DEF AInv
<1>1. root[c] = NoHandle /\ sock[c] = Submitted(NewSocket, Entry(c, MountCall, 0))
  BY DEF ClientInit
<1>2. Lasts(NewSocket, NoHandle) /\ Entry(c, MountCall, 0).acts = 0
  BY DEF Lasts, RootKept, NewSocket, Holds, Entry
<1> QED BY <1>1, <1>2, SubmittedLasts

LEMMA LastsInvariance ==
  ASSUME "crash" \notin Ends
  PROVE  ClientSpec => []AInv
<1>1. AInv /\ [ClientNext]_allVars => AInv'
  BY LastsSteps
<1> QED BY LastsStarts, <1>1, PTL DEF ClientSpec

(* ActsAtMostOnce: where the server does not crash, a REMOVE or RENAME      *)
(* changes the directory at most once, though the socket may have it run    *)
(* again and again: the first run that succeeds deletes the handle it names.*)
THEOREM ActsAtMostOnce ==
  ASSUME "crash" \notin Ends
  PROVE  ClientSpec => []ActsOnce
<1>1. AInv => ActsOnce
  <2> SUFFICES ASSUME AInv, NEW c \in Client, NEW e \in Entries(c),
                      e.msg.op \in {"REMOVE", "RENAME"}
               PROVE  e.acts <= 1
    BY DEF ActsOnce
  <2>1. e \in Holds(sock[c])
    BY DEF Entries, Holds
  <2>2. ActedOnce(e)
    BY <2>1 DEF AInv, Lasts
  <2> QED BY <2>2 DEF ActedOnce
<1> QED BY <1>1, LastsInvariance, PTL

(* RootHandleLasts: where the server does not crash, the handle a client    *)
(* gets when it mounts leads to the root for ever, also when the server is  *)
(* stopped and started.                                                     *)
THEOREM RootHandleLasts ==
  ASSUME "crash" \notin Ends
  PROVE  ClientSpec => []RootHandleWorks
<1>1. AInv => RootHandleWorks
  BY DEF AInv, Lasts, RootKept, RootHandleWorks
<1> QED BY <1>1, LastsInvariance, PTL
=============================================================================
