------------------------------ MODULE NnReqRep ------------------------------
(***************************************************************************)
(* REQ sockets connected to one REP socket over TCP.  Connections break    *)
(* and are made again, messages are lost with them, timers fire late or    *)
(* early; the REQ sockets make up for it by sending requests again.        *)
(***************************************************************************)
EXTENDS NnReq, NnRep, FiniteSets

VARIABLE ran   \* the requests the REP socket's user has taken (history)

nnVars == <<conn, faults, req, lb, fq, serving, ran>>

Init ==
  /\ PipesInit
  /\ ReqInit
  /\ RepInit
  /\ ran = {}

-----------------------------------------------------------------------------
(* Connections                                                              *)

(* An endpoint of c connects: both ends add a pipe (nn_xreq_add and         *)
(* nn_xrep_add, whose key is never used again).                             *)
Connect(c) ==
  /\ ~Is(c, {"STOPPING", "IDLE"})
  /\ Cardinality(Conns(c)) < MaxEndpoints
  /\ \E k \in Conn :
       /\ conn[k] = Unused
       /\ \A j \in Conn : j < k => conn[j] # Unused
       /\ conn' = [conn EXCEPT ![k] = [@ EXCEPT !.client = c, !.atReq = TRUE,
                                                !.atRep = TRUE]]
  /\ UNCHANGED <<faults, req, lb, fq, serving, ran>>

(* An end's pipe stops: because the connection breaks (a fault), or since   *)
(* the other end has gone.  What was under way to it is lost.               *)
ReqEnd(c, k) ==
  /\ k \in Conns(c)
  /\ IF conn[k].atRep THEN Fault ELSE UNCHANGED faults
  /\ conn' = [conn EXCEPT ![k].atReq = FALSE, ![k].down = <<>>]
  /\ RemovePipe(c, k)
  /\ UNCHANGED <<fq, serving, ran>>

RepEnd(k) ==
  /\ conn[k].atRep
  /\ IF conn[k].atReq THEN Fault ELSE UNCHANGED faults
  /\ conn' = [conn EXCEPT ![k].atRep = FALSE, ![k].out = FALSE, ![k].up = <<>>]
  /\ RemoveRepPipe(k)
  /\ UNCHANGED <<req, lb, serving, ran>>

-----------------------------------------------------------------------------
(* The threads of the REQ sockets' and the REP socket's processes           *)

(* Nothing of c's request is under way: no copy of it, and no reply.        *)
Quiet(c) ==
  LET m == <<c, req[c].id>> IN
  /\ serving # None => serving[2] # m
  /\ \A k \in Conn : \A i \in 1 .. MaxFlight :
       /\ i <= Len(conn[k].up)   => conn[k].up[i] # m
       /\ i <= Len(conn[k].down) => conn[k].down[i] # m

ReqUser(c) ==
  /\ nn_req_csend(c) \/ nn_req_crecv(c) \/ nn_req_stop(c)
  /\ UNCHANGED <<fq, serving, ran>>

ReqWorker(c) ==
  /\ \/ Timeout(c, Quiet(c))
     \/ TimerStopped(c)
     \/ \E k \in Conn : nn_req_out(c, k) \/ nn_req_in(c, k)
  /\ UNCHANGED <<fq, serving, ran>>

(* What the REP socket's user has just been given. *)
Taken == IF serving' = None THEN {} ELSE {serving'[2]}

RepUser ==
  /\ \/ nn_rep_recv /\ ran' = ran \cup Taken
     \/ nn_rep_send /\ UNCHANGED ran
  /\ UNCHANGED <<req, lb>>

RepWorker(k) ==
  /\ nn_xrep_in(k) \/ nn_xrep_out(k)
  /\ UNCHANGED <<req, lb, ran>>

Next ==
  \/ \E c \in Client :
       \/ ReqUser(c)
       \/ ReqWorker(c)
       \/ Connect(c)
       \/ \E k \in Conn : ReqEnd(c, k)
  \/ RepUser
  \/ \E k \in Conn : RepWorker(k) \/ RepEnd(k)

Spec == Init /\ [][Next]_nnVars

(* Worker threads handle the events of their pipes in order (so a pipe's    *)
(* "out" is not put off for ever), the user of REP takes requests and       *)
(* answers them, and an endpoint keeps trying to connect (the backoff of    *)
(* ctcp ends).  Nothing is asked of the REQ socket's user, and no fault has *)
(* to happen.                                                               *)
FairSpec ==
  /\ Spec
  /\ \A c \in Client :
       /\ WF_nnVars(ReqWorker(c) /\ faults' = faults)
       /\ WF_nnVars(Connect(c))
       /\ \A k \in Conn :
            /\ WF_nnVars(nn_req_in(c, k) /\ UNCHANGED <<fq, serving, ran>>)
            /\ WF_nnVars(ReqEnd(c, k) /\ faults' = faults)
  /\ WF_nnVars(RepUser /\ faults' = faults)
  /\ \A k \in Conn :
       /\ WF_nnVars(nn_xrep_in(k) /\ UNCHANGED <<req, lb, ran>>)
       /\ WF_nnVars(nn_xrep_out(k) /\ UNCHANGED <<req, lb, ran>>)
=============================================================================
