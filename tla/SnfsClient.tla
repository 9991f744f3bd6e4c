----------------------------- MODULE SnfsClient -----------------------------
(***************************************************************************)
(* SNFS clients (lab2/src/client) and the server they share.  FUSE calls   *)
(* one callback of a client at a time (-s); a callback sends its requests  *)
(* one after the other: a LOOKUP for each name of its path, then the       *)
(* request of its own.  Each waits 1.25 s for its answer and makes the     *)
(* callback fail without one.  Meanwhile the server runs requests of all   *)
(* clients, also those a client no longer waits for.                       *)
(***************************************************************************)
EXTENDS SnfsServer, RequestSocket

CONSTANTS
  Client,       \* the client processes
  Callbacks,    \* the callbacks FUSE may make of each: records [kind, path, to]
  MaxCalls,     \* how many of them each client makes (a bound)
  InitialTree   \* what the server's directory holds when it starts

ASSUME CallBound == MaxCalls \in [Client -> Nat]

VARIABLES
  sock,    \* the client's REQ socket
  call,    \* the callback it is in
  root,    \* STATE->root_fhandle
  fi,      \* the file it has open: fi->fh, and the path it was opened by
  result,  \* what its last callback returned
  count    \* how many callbacks FUSE has made

clientVars == <<sock, call, root, fi, result, count>>
allVars    == <<vars, clientVars>>

-----------------------------------------------------------------------------
(* The callbacks (fuseops.c)                                                *)

Opens   == {"open", "opendir"}
Data    == {"read", "write"}
Lookups == Opens \cup {"getattr", "readdir", "setattr", "unlink", "rmdir", "rename"}
Kind    == Lookups \cup Data \cup {"create", "mkdir"}

(* The request of a callback's own; truncate, chmod, chown and utimens are  *)
(* all snfs_setattr.                                                        *)
OpOf(kind) ==
  CASE kind = "getattr" -> "GETATTR"
    [] kind = "readdir" -> "READDIR"
    [] kind = "setattr" -> "SETATTR"
    [] kind = "read"    -> "READ"
    [] kind = "write"   -> "WRITE"
    [] kind = "create"  -> "CREATE"
    [] kind = "mkdir"   -> "MKDIR"
    [] kind = "rename"  -> "RENAME"
    [] OTHER            -> "REMOVE"

(* A callback: how many names it has looked up and the handle they led to.  *)
(* "mount" is snfs_init, "idle" no callback, "dead" a client that has left. *)
NoCall    == [kind |-> "idle", path |-> Root, to |-> Root, done |-> 0, cur |-> NoHandle]
MountCall == [NoCall EXCEPT !.kind = "mount"]

NewCall(c, a) ==
  [kind |-> a.kind, path |-> a.path, to |-> a.to, done |-> 0,
   cur |-> IF a.kind \in Data THEN fi[c].fh ELSE root[c]]

LooksUp(k) == k.kind \in Lookups /\ k.done < Len(k.path)

(* open and opendir need nothing but the handle of their path.              *)
HasRequest(k) == k.kind \in Opens => LooksUp(k)

(* Mutant: every LOOKUP is sent for the root directory.                     *)
MutantRequest(c, k) ==
  IF LooksUp(k)
  THEN [op |-> "LOOKUP", fh |-> root[c], path |-> <<k.path[k.done + 1]>>, is_dir |-> FALSE]
  ELSE [op |-> IF k.kind = "mount" THEN IF k.done < 2 THEN "NOOP" ELSE "MOUNT"
                                   ELSE OpOf(k.kind),
        fh |-> k.cur, path |-> IF k.kind = "rename" THEN k.to ELSE k.path,
        is_dir |-> k.kind = "rmdir"]

(* The request a callback sends next: test_connection's two NOOPs and the   *)
(* MOUNT, the LOOKUP of the next name, or its own.                          *)
Request(c, k) ==
  IF LooksUp(k)
  THEN [op |-> "LOOKUP", fh |-> k.cur, path |-> <<k.path[k.done + 1]>>, is_dir |-> FALSE]
  ELSE [op |-> IF k.kind = "mount" THEN IF k.done < 2 THEN "NOOP" ELSE "MOUNT"
                                   ELSE OpOf(k.kind),
        fh |-> k.cur, path |-> IF k.kind = "rename" THEN k.to ELSE k.path,
        is_dir |-> k.kind = "rmdir"]

(* What the callback returns when that request brings no answer.            *)
Failure(k) ==
  IF ~LooksUp(k) /\ k.kind \in {"getattr", "readdir", "setattr"} \cup Data
  THEN "EIO" ELSE "ENOENT"

(* Mutant: the flag is left out of send_request.                            *)
MutantDontWait(k) == k.kind = "mount" /\ k.done = 0

(* All requests are sent with NN_DONTWAIT but the second NOOP and MOUNT.    *)
DontWait(k) == k.kind = "mount" => k.done = 0

(* FUSE calls with paths of the file system, and renames nothing to its     *)
(* root, which is always there.  The server starts with a directory.        *)
ASSUME CallbackForms ==
  /\ Callbacks \in [Client -> SUBSET [kind : Kind, path : Path, to : Path]]
  /\ \A c \in Client : \A a \in Callbacks[c] : a.kind = "rename" => a.to # Root
ASSUME ServedDirectory ==
  /\ InitialTree \in Tree /\ IsDir(InitialTree, Root)
  /\ \A p \in Path : Exists(InitialTree, p) => InitialTree[p].id # 0

-----------------------------------------------------------------------------
(* The socket                                                               *)

(* What a socket holds of a request: which callback sent it, and how often  *)
(* it has changed the directory (history).                                  *)
Entry(c, k, n) == [msg |-> Request(c, k), call |-> n, acts |-> 0]

Entries(c) == sock[c].late \cup ({sock[c].held} \ {NoRequest})

NoFile == [fh |-> NoHandle, path |-> Root]

ClientInit ==
  /\ InitWith(InitialTree)
  /\ call = [c \in Client |-> MountCall]
  /\ root = [c \in Client |-> NoHandle]
  /\ fi = [c \in Client |-> NoFile]
  /\ result = [c \in Client |-> "ok"]
  /\ count = [c \in Client |-> 0]
  /\ sock = [c \in Client |-> Submitted(NewSocket, Entry(c, MountCall, 0))]

-----------------------------------------------------------------------------
(* The client's steps                                                       *)

(* Callback k of c goes on, with socket s.                                  *)
GoOn(c, k, s) ==
  /\ UNCHANGED root
  /\ \/ /\ HasRequest(k)
        /\ call' = [call EXCEPT ![c] = k]
        /\ sock' = [sock EXCEPT ![c] = Submitted(s, Entry(c, k, count'[c]))]
        /\ UNCHANGED <<fi, result>>
     \/ /\ ~HasRequest(k)
        /\ call' = [call EXCEPT ![c] = NoCall]
        /\ result' = [result EXCEPT ![c] = "ok"]
        /\ fi' = [fi EXCEPT ![c] = [fh |-> k.cur, path |-> k.path]]
        /\ sock' = [sock EXCEPT ![c] = s]

(* FUSE makes a callback.  It reads and writes only a file that is open, it *)
(* does not rename a path to itself, and (in this model, which keeps one    *)
(* fi) it opens one file at a time.                                         *)
Call(c, a) ==
  /\ call[c].kind = "idle"
  /\ count[c] < MaxCalls[c]
  /\ a.kind \in Data => fi[c] # NoFile /\ a.path = fi[c].path
  /\ a.kind \in Opens \cup {"create"} => fi[c] = NoFile
  /\ a.kind = "rename" => a.path # a.to
  /\ count' = [count EXCEPT ![c] = @ + 1]
  /\ UNCHANGED vars
  /\ \/ /\ a.kind \in {"create", "mkdir"} /\ a.path = Root
        /\ result' = [result EXCEPT ![c] = "ENOENT"]
        /\ UNCHANGED <<sock, call, root, fi>>
     \/ /\ a.kind \in {"create", "mkdir"} => a.path # Root
        /\ GoOn(c, NewCall(c, a), sock[c])

(* No answer, or an error: the callback fails, and snfs_init ends the client. *)
Fail(c, s) ==
  /\ sock' = [sock EXCEPT ![c] = s]
  /\ result' = [result EXCEPT ![c] = Failure(call[c])]
  /\ call' = [call EXCEPT ![c] =
                [NoCall EXCEPT !.kind = IF call[c].kind = "mount" THEN "dead" ELSE @]]
  /\ UNCHANGED <<root, fi>>

(* Mutant: the failed callback goes on waiting for its answer.              *)
MutantTimeOut(c) ==
  /\ sock[c].waiting
  /\ ~Ready(sock[c])
  /\ DontWait(call[c])
  /\ Fail(c, sock[c])
  /\ UNCHANGED <<vars, count>>

(* receive_data has run for 1.25 s. *)
TimeOut(c) ==
  /\ sock[c].waiting
  /\ ~Ready(sock[c])
  /\ DontWait(call[c])
  /\ Fail(c, GivenUp(sock[c]))
  /\ UNCHANGED <<vars, count>>

(* The answer to the callback's own request is there.                       *)
Finish(c, a) ==
  /\ call' = [call EXCEPT ![c] = NoCall]
  /\ result' = [result EXCEPT ![c] = "ok"]
  /\ root' = [root EXCEPT ![c] = IF call[c].kind = "mount" THEN a.fh ELSE @]
  /\ fi' = [fi EXCEPT ![c] = IF call[c].kind = "create"
                             THEN [fh |-> a.fh, path |-> call[c].path] ELSE @]
  /\ sock' = [sock EXCEPT ![c] = Taken(@)]

Receive(c) ==
  /\ Ready(sock[c])
  /\ UNCHANGED <<vars, count>>
  /\ LET k == call[c]
         a == sock[c].answer
         s == Taken(sock[c]) IN
     \/ a.err # "none" /\ Fail(c, s)
     \/ a.err = "none" /\ LooksUp(k)
        /\ GoOn(c, [k EXCEPT !.done = @ + 1, !.cur = a.fh], s)
     \/ a.err = "none" /\ k.kind = "mount" /\ k.done < 2
        /\ GoOn(c, [k EXCEPT !.done = @ + 1], s)
     \/ a.err = "none" /\ ~LooksUp(k) /\ (k.kind = "mount" => k.done = 2)
        /\ Finish(c, a)

(* The last descriptor of the open file is closed: FUSE forgets fi.         *)
Release(c) ==
  /\ call[c].kind = "idle"
  /\ fi[c] # NoFile
  /\ fi' = [fi EXCEPT ![c] = NoFile]
  /\ UNCHANGED <<vars, sock, call, root, result, count>>

-----------------------------------------------------------------------------
(* The server's steps                                                       *)

(* The handler serve_loop calls for message m.                              *)
Handler(m) ==
  \/ m.op = "NOOP"    /\ handle_noop
  \/ m.op = "MOUNT"   /\ handle_mount
  \/ m.op = "GETATTR" /\ handle_getattr(m.fh)
  \/ m.op = "SETATTR" /\ handle_setattr(m.fh)
  \/ m.op = "READ"    /\ handle_read(m.fh)
  \/ m.op = "WRITE"   /\ handle_write(m.fh)
  \/ m.op = "READDIR" /\ handle_readdir(m.fh)
  \/ m.op = "LOOKUP"  /\ handle_lookup(m.fh, m.path[1])
  \/ m.op = "CREATE"  /\ handle_create(m.path)
  \/ m.op = "MKDIR"   /\ handle_mkdir(m.path)
  \/ m.op = "REMOVE"  /\ handle_remove(m.fh, m.is_dir)
  \/ m.op = "RENAME"  /\ handle_rename(m.fh, m.path)

(* Mutant: an answer goes to the newest request of the same type.           *)
MutantServe(c) ==
  \E e \in Runnable(sock[c]) :
    /\ Handler(e.msg)
    /\ sock' = [sock EXCEPT ![c] =
                  IF @.waiting /\ @.held.msg.op = e.msg.op
                  THEN [@ EXCEPT !.answer = [err |-> reply'.err, fh |-> reply'.fh]]
                  ELSE @]
    /\ UNCHANGED <<call, root, fi, result, count>>

(* The server runs a request it has received from c and answers.            *)
Serve(c) ==
  \E e \in Runnable(sock[c]) :
    /\ Handler(e.msg)
    /\ \E s \in Answered(sock[c], e,
                  [e EXCEPT !.acts = IF tree' = tree THEN @ ELSE @ + 1],
                  [err |-> reply'.err, fh |-> reply'.fh]) :
         sock' = [sock EXCEPT ![c] = s]
    /\ UNCHANGED <<call, root, fi, result, count>>

(* The server process ends, or the next one starts.                         *)
ServerProcess ==
  /\ \/ (Terminate \/ Crash) /\ sock' = [c \in Client |-> PeerLost(sock[c])]
     \/ Restart /\ UNCHANGED sock
  /\ UNCHANGED <<call, root, fi, result, count>>

ClientStep(c) == TimeOut(c) \/ Receive(c)

ClientNext ==
  \/ \E c \in Client :
       \/ \E a \in Callbacks[c] : Call(c, a)
       \/ TimeOut(c)
       \/ Receive(c)
       \/ Release(c)
       \/ Serve(c)
  \/ ServerProcess

(* A client process runs, and so does its clock.  Nothing is asked of the   *)
(* server.                                                                  *)
ClientSpec ==
  /\ ClientInit
  /\ [][ClientNext]_allVars
  /\ \A c \in Client : WF_allVars(ClientStep(c))
=============================================================================
