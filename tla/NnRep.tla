------------------------------- MODULE NnRep --------------------------------
(***************************************************************************)
(* A nanomsg REP socket (protocols/reqrep/rep.c, xrep.c): it takes the     *)
(* requests of its pipes in the order they have arrived, remembers where   *)
(* the one being served came from, and sends the reply there.              *)
(***************************************************************************)
EXTENDS NnPipes, QueueOps

VARIABLES
  fq,       \* the pipes that have a request, in the order of the fair queue
  serving   \* the backtrace: the pipe's key and the request, or None

repVars == <<fq, serving>>

None == <<>>

RepInit ==
  /\ fq = <<>>
  /\ serving = None

(* nn_xrep_in: pipe k has received the request at the head of its stream.   *)
nn_xrep_in(k) ==
  /\ conn[k].atRep
  /\ conn[k].up # <<>>
  /\ k \notin Queued(fq)
  /\ fq' = Append(fq, k)
  /\ UNCHANGED <<conn, faults, serving>>

(* nn_xrep_out: pipe k can send again. *)
nn_xrep_out(k) ==
  /\ conn[k].atRep
  /\ ~conn[k].out
  /\ Len(conn[k].down) < MaxFlight
  /\ conn' = [conn EXCEPT ![k].out = TRUE]
  /\ UNCHANGED <<faults, fq, serving>>

(* nn_rep_recv: a request in progress is cancelled, which a user who        *)
(* answers each request never does: a fault.  Then the next request is      *)
(* taken, unless there is none (-EAGAIN).                                   *)
nn_rep_recv ==
  /\ IF serving = None THEN UNCHANGED faults ELSE Fault
  /\ \/ /\ fq # <<>>
        /\ serving' = <<Head(fq), Head(conn[Head(fq)].up)>>
        /\ conn' = [conn EXCEPT ![Head(fq)].up = Tail(@)]
        /\ fq' = Tail(fq)
     \/ /\ fq = <<>>
        /\ serving' = None
        /\ UNCHANGED <<conn, fq>>

(* Mutant: the key is not looked at, the reply goes to the oldest pipe.     *)
MutantReplyPipe ==
  IF \E k \in Conn : conn[k].atRep
  THEN CHOOSE k \in Conn : conn[k].atRep /\ \A j \in Conn : conn[j].atRep => k <= j
  ELSE serving[1]

(* The pipe the backtrace names. *)
ReplyPipe == serving[1]

(* nn_rep_send: the reply goes to the pipe the request came from; it is     *)
(* dropped if that is gone or busy.  Without a request the call fails.      *)
nn_rep_send ==
  /\ serving # None
  /\ serving' = None
  /\ LET k == ReplyPipe IN
     conn' = IF conn[k].atRep /\ conn[k].out
             THEN SentDown(k, serving[2]) ELSE conn
  /\ UNCHANGED <<faults, fq>>

(* nn_xrep_rm: pipe k is gone. *)
RemoveRepPipe(k) == fq' = Without(fq, k)
=============================================================================
