------------------------------- MODULE NnReq --------------------------------
(***************************************************************************)
(* nanomsg REQ sockets (protocols/reqrep/req.c, xreq.c): the state machine *)
(* that sends a request again until its reply has come.                    *)
(***************************************************************************)
EXTENDS NnPipes, QueueOps

VARIABLES
  req,   \* struct nn_req: state, task.id, task.reply, task.sent_to, task.timer
  lb     \* the pipes that can send, in the order the load balancer takes them

reqVars == <<req, lb>>

NoReply == 0   \* task.reply holds nothing, or a message that was terminated
NoPipe  == 0

ReqStates == {"PASSIVE", "DELAYED", "ACTIVE", "TIMED_OUT", "CANCELLING",
              "STOPPING_TIMER", "DONE", "STOPPING", "IDLE", "bad"}

ReqInit ==
  /\ req = [c \in Client |-> [state |-> "PASSIVE", id |-> 0, reply |-> NoReply,
                              sent_to |-> NoPipe, timer |-> "idle"]]
  /\ lb = [c \in Client |-> <<>>]

nn_req_inprogress(r) == r.state \notin {"IDLE", "PASSIVE", "STOPPING"}

Is(c, states) == req[c].state \in states

-----------------------------------------------------------------------------
(* The state machine                                                        *)

(* Its next record in a transition that only changes state and timer; "bad" *)
(* is nn_fsm_bad_action, a failed assertion.                                *)
Become(r, state) == [r EXCEPT !.state = state]

(* Mutant: the timer is left running.                                       *)
MutantStopTimer(r) == [r EXCEPT !.sent_to = NoPipe]

(* nn_timer_stop does nothing to a timer that is idle or being stopped.     *)
nn_timer_stop(r) == [r EXCEPT !.timer = IF @ = "active" THEN "stopping" ELSE @]

(* Mutant: the pipe is not forgotten.                                       *)
MutantForget(r) == nn_timer_stop(r)

(* The request is no longer on its way to a pipe.                           *)
StopTimer(r) == [nn_timer_stop(r) EXCEPT !.sent_to = NoPipe]

(* Mutant: the timer is not started.                                        *)
MutantSent(r, to) == [r EXCEPT !.sent_to = to, !.state = "ACTIVE"]

(* The request was sent to a pipe.                                          *)
Sent(r, to) ==
  IF r.timer # "idle" THEN Become(r, "bad")
  ELSE [r EXCEPT !.timer = "active", !.sent_to = to, !.state = "ACTIVE"]

(* nn_req_action_send: the request goes to the first pipe that can send,    *)
(* which is then busy; without one it is delayed, if that is allowed.       *)
ActionSend(c, r, allow_delay) ==
  \/ /\ lb[c] = <<>>
     /\ req' = [req EXCEPT ![c] = Become(r, IF allow_delay THEN "DELAYED" ELSE "bad")]
     /\ UNCHANGED <<conn, lb>>
  \/ /\ lb[c] # <<>>
     /\ LET to == Head(lb[c]) IN
        /\ conn' = SentUp(to, <<c, r.id>>)
        /\ req' = [req EXCEPT ![c] = Sent(r, to)]
     /\ lb' = [lb EXCEPT ![c] = Tail(@)]

(* NN_REQ_ACTION_SENT, with the new request already stored in r.            *)
ActionSent(c, r) ==
  \/ r.state \in {"PASSIVE", "DONE"} /\ ActionSend(c, r, TRUE)
  \/ /\ r.state \in {"DELAYED", "CANCELLING"}
     /\ req' = [req EXCEPT ![c] = r]
     /\ UNCHANGED <<conn, lb>>
  \/ /\ r.state = "ACTIVE"
     /\ req' = [req EXCEPT ![c] = Become(StopTimer(r), "CANCELLING")]
     /\ UNCHANGED <<conn, lb>>
  \/ /\ r.state \in {"TIMED_OUT", "STOPPING_TIMER"}
     /\ req' = [req EXCEPT ![c] = Become(r, "CANCELLING")]
     /\ UNCHANGED <<conn, lb>>

-----------------------------------------------------------------------------
(* The user                                                                 *)

nn_req_csend(c) ==
  /\ ~Is(c, {"STOPPING", "IDLE"})
  /\ req[c].id < MaxRequests[c]
  /\ ActionSent(c, [req[c] EXCEPT !.id = @ + 1])
  /\ UNCHANGED faults

(* With no reply yet the call fails (EFSM, EAGAIN) and changes nothing.     *)
nn_req_crecv(c) ==
  /\ Is(c, {"DONE"})
  /\ req' = [req EXCEPT ![c].reply = NoReply, ![c].state = "PASSIVE"]
  /\ UNCHANGED <<conn, lb, faults>>

(* nn_close: the endpoints are gone before the socket type is stopped.      *)
nn_req_stop(c) ==
  /\ ~Is(c, {"STOPPING", "IDLE"})
  /\ Conns(c) = {}
  /\ req' = [req EXCEPT ![c] =
               Become(nn_timer_stop(@), IF @.timer = "idle" THEN "IDLE" ELSE "STOPPING")]
  /\ UNCHANGED <<conn, lb, faults>>

-----------------------------------------------------------------------------
(* The timer                                                                *)

(* NN_TIMER_TIMEOUT.  The interval (60 s) is longer than a round trip,      *)
(* except when a fault delays one: unless nothing of the request is under   *)
(* way any more (quiet), the timeout is a fault.                            *)
Timeout(c, quiet) ==
  /\ Is(c, {"ACTIVE"}) /\ req[c].timer = "active"
  /\ IF quiet THEN UNCHANGED faults ELSE Fault
  /\ req' = [req EXCEPT ![c] = Become(StopTimer(@), "TIMED_OUT")]
  /\ UNCHANGED <<conn, lb>>

(* NN_TIMER_STOPPED *)
TimerStopped(c) ==
  /\ req[c].timer = "stopping"
  /\ LET r == [req[c] EXCEPT !.timer = "idle"] IN
     \/ r.state \in {"TIMED_OUT", "CANCELLING"} /\ ActionSend(c, r, TRUE)
     \/ /\ r.state \notin {"TIMED_OUT", "CANCELLING"}
        /\ req' = [req EXCEPT ![c] =
             Become(r, CASE r.state = "STOPPING_TIMER" -> "DONE"
                         [] r.state = "STOPPING"       -> "IDLE"
                         [] OTHER                      -> "bad")]
        /\ UNCHANGED <<conn, lb>>
  /\ UNCHANGED faults

-----------------------------------------------------------------------------
(* The pipes                                                                *)

(* nn_req_out: pipe k can send (again); a delayed request takes it.         *)
nn_req_out(c, k) ==
  /\ k \in Conns(c)
  /\ k \notin Queued(lb[c])
  /\ Len(conn[k].up) < MaxFlight
  /\ UNCHANGED faults
  /\ \/ /\ ~Is(c, {"DELAYED"})
        /\ lb' = [lb EXCEPT ![c] = Append(@, k)]
        /\ UNCHANGED <<conn, req>>
     \/ /\ Is(c, {"DELAYED"})
        /\ lb[c] = <<>>
        /\ conn' = SentUp(k, <<c, req[c].id>>)
        /\ req' = [req EXCEPT ![c] = Sent(@, k)]
        /\ UNCHANGED lb

(* Mutant: the reply's id is not compared with the request's.               *)
MutantAccepts(r, id) == nn_req_inprogress(r)

(* The reply is one to the stored request.                                  *)
Accepts(r, id) == nn_req_inprogress(r) /\ id = r.id

(* nn_req_in: the reply at the head of k is received into task.reply, and   *)
(* destroyed there unless it is accepted.                                   *)
nn_req_in(c, k) ==
  /\ k \in Conns(c)
  /\ conn[k].down # <<>>
  /\ conn' = [conn EXCEPT ![k].down = Tail(@)]
  /\ LET id == Head(conn[k].down)[2]
         r  == [req[c] EXCEPT !.reply = IF Accepts(req[c], id) THEN id ELSE NoReply] IN
     req' = [req EXCEPT ![c] =
               IF r.reply # NoReply /\ r.state = "ACTIVE"
               THEN Become(StopTimer(r), "STOPPING_TIMER") ELSE r]
  /\ UNCHANGED <<lb, faults>>

(* nn_req_rm: pipe k is gone; the request that was sent to it is sent again *)
(* as if it had timed out.                                                  *)
RemovePipe(c, k) ==
  /\ lb' = [lb EXCEPT ![c] = Without(@, k)]
  /\ req' = [req EXCEPT ![c] =
       IF @.sent_to # k THEN @
       ELSE IF @.state = "ACTIVE" THEN Become(StopTimer(@), "TIMED_OUT")
       ELSE IF @.state = "STOPPING" THEN @
       ELSE Become(@, "bad")]
=============================================================================
