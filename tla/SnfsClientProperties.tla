------------------------ MODULE SnfsClientProperties ------------------------
(***************************************************************************)
(* What SNFS clients and their server achieve together.                    *)
(***************************************************************************)
EXTENDS SnfsClient

(* ClientTypeOK: the types of the clients' variables; a handle a client     *)
(* holds has been issued by the server.                                     *)
ClientTypeOK ==
  /\ TypeOK
  /\ \A c \in Client :
       /\ call[c].kind \in Kind \cup {"mount", "idle", "dead"}
       /\ call[c].path \in Path /\ call[c].to \in Path
       /\ call[c].done \in 0 .. Len(call[c].path) + 2
       /\ {call[c].cur, root[c], fi[c].fh} \subseteq Issued \cup {NoHandle}
       /\ fi[c].path \in Path
       /\ result[c] \in {"ok", "ENOENT", "EIO"}
       /\ count[c] \in 0 .. MaxCalls[c]
       /\ sock[c].waiting <=> call[c].kind \notin {"idle", "dead"}

LeadsTo(h, p) == db.path[h] # NoPath => db.path[h] = p

(* HandlesFit: a handle a client holds is the handle of the path it wanted  *)
(* or of nothing: of the names looked up so far, of the root, of the path a *)
(* file was opened by.  lookup (fuseops.c:144-167) takes one handle after   *)
(* another while the other clients rename and remove what they lead to, and *)
(* open, create and MOUNT keep theirs for later.                            *)
HandlesFit ==
  \A c \in Client :
    /\ call[c].kind \in Lookups => LeadsTo(call[c].cur, SubSeq(call[c].path, 1, call[c].done))
    /\ root[c] # NoHandle => LeadsTo(root[c], Root)
    /\ fi[c].fh # NoHandle => LeadsTo(fi[c].fh, fi[c].path)

(* RootHandleWorks: the root handle that a client asks for once, when it    *)
(* mounts (client/main.c:117-122), stays valid for ever as long as the      *)
(* server does not crash, whatever the clients remove or rename and however *)
(* often the server is stopped and started.                                 *)
RootHandleWorks ==
  \A c \in Client : root[c] # NoHandle => db.path[root[c]] = Root

(* ActsOnce: a REMOVE or RENAME changes the directory at most once, however *)
(* often the socket has it run: the handle it names is gone after the first *)
(* time (request.c:48-51; handlers.c:737, 781).                             *)
ActsOnce ==
  \A c \in Client : \A e \in Entries(c) :
    e.msg.op \in {"REMOVE", "RENAME"} => e.acts <= 1

(* SuccessMeansDone: a callback that changes the directory returns 0 only   *)
(* if its own request has done so, however late the answers to the requests *)
(* of earlier callbacks that timed out (fuseops.c:526-591, 655-698).        *)
SuccessMeansDone ==
  [][\A c \in Client :
       call[c].kind \in {"unlink", "rmdir", "rename", "mkdir"}
         /\ call'[c].kind = "idle" /\ result'[c] = "ok"
       => sock[c].held.acts >= 1]_allVars

(* CallReturns: every callback of a mounted client returns, also when the   *)
(* server never answers: each of its requests is given up after 1.25 s      *)
(* (comm.c:99-121, fuseops.c:69).                                           *)
CallReturns ==
  \A c \in Client : call[c].kind \in Kind ~> call[c].kind = "idle"
=============================================================================
