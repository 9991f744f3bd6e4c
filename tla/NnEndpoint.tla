----------------------------- MODULE NnEndpoint -----------------------------
(***************************************************************************)
(* A nanomsg socket with one TCP or IPC endpoint, from nn_connect or        *)
(* nn_bind to nn_shutdown or nn_close: the endpoint object (core/ep.c), the *)
(* socket's own machine (core/sock.c), and the threads that feed them all.  *)
(***************************************************************************)
EXTENDS NnIpc

VARIABLE s

(* The transport the endpoint's address names                               *)
Ipc(t) == t.transport = "ipc"

-----------------------------------------------------------------------------
(* The endpoint and the socket                                              *)

(* nn_ep_stop *)
nn_ep_stop(t) ==
  IF t.ep # "ACTIVE" THEN {t}
  ELSE {[u EXCEPT !.ep = "STOPPING"] :
          u \in CASE t.kind = "bind"    -> {IF Ipc(t) THEN nn_bipc_stop(t) ELSE nn_btcp_stop(t)}
                 [] t.kind = "connect" -> IF Ipc(t) THEN {nn_cipc_stop(t)} ELSE nn_ctcp_stop(t)}

(* nn_ep_shutdown, on NN_EP_ACTION_STOPPED                                  *)
EpHandler(t) == Raise([t EXCEPT !.ep = "IDLE"], <<"ep", 0>>, <<"sock", 0>>, "STOPPED")

(* nn_ep_term: nn_ctcp_destroy, nn_btcp_destroy                             *)
Destroyed(t) ==
  LET u == nn_usock_term(t, IF t.kind = "connect" THEN 1 ELSE 0)
      parts == IF t.kind = "connect"
               THEN {<<"dns", 0>>} \cup ({"stcp", "hdr", "timer", "usock", "pipe"} \X {1})
               ELSE {<<"usock", 0>>} IN
  IF t.kind = "bind" /\ ~Unused(u, {<<"timer", 0>>}) THEN Abort(t, "retry_timer_freed")
  ELSE IF Unused(u, parts \cup {<<"timer", 0>>}) /\ u.atcps = {} /\ u.accepting = 0
       THEN [u EXCEPT !.ep = "FREED", !.sock = IF @ = "STOPPING_EPS" THEN "CLOSED" ELSE @]
       ELSE Bad(u)

(* Sending to and receiving from a pipe                                     *)
nn_pipe_send(t, c) == IF Ipc(t) THEN nn_sipc_send(t, c) ELSE nn_stcp_send(t, c)

nn_pipe_recv(t, c) == IF Ipc(t) THEN nn_sipc_recv(t, c) ELSE nn_stcp_recv(t, c)

(* nn_sock_handler, nn_sock_shutdown.  The protocol may use a pipe at once  *)
(* when it hears of it.                                                     *)
SockHandler(t, e) ==
  LET c == e.from[2] IN
  CASE e.from[1] = "ep"          -> {Destroyed(t)}
    [] t.sock = "STOPPING_EPS"   -> {Abort(t, "pipe_event_at_close")}
    [] t.pipe[c] # "ACTIVE"      -> {Abort(t, "event_of_removed_pipe")}
    [] e.type = "OUT"            -> {t} \cup (IF t.out[c] = "IDLE" THEN nn_pipe_send(t, c) ELSE {})
    [] e.type = "IN"             -> {t} \cup (IF t.in[c] = "HASMSG" THEN nn_pipe_recv(t, c) ELSE {})

(* The machine of the transport an event is for                             *)
BaseHandler(t, e) ==
  IF t.kind = "connect" THEN IF Ipc(t) THEN CipcHandler(t, e) ELSE CtcpHandler(t, e)
  ELSE IF Ipc(t) THEN BipcHandler(t, e) ELSE BtcpHandler(t, e)

Handle(t, e) ==
  LET c == e.to[2] IN
  CASE e.to[1] = "base" -> BaseHandler(t, e)
    [] e.to[1] = "conn" -> IF Ipc(t) THEN AipcHandler(t, c, e) ELSE AtcpHandler(t, c, e)
    [] e.to[1] = "stcp" -> IF Ipc(t) THEN SipcHandler(t, c, e) ELSE StcpHandler(t, c, e)
    [] e.to[1] = "hdr"  -> HdrHandler(t, c, e)
    [] e.to[1] = "ep"   -> {EpHandler(t)}
    [] e.to[1] = "sock" -> SockHandler(t, e)

-----------------------------------------------------------------------------
(* What happens to a socket, one thread at a time in its context            *)

TimerOwner(c) == IF c = 0 THEN Base ELSE <<"hdr", c>>

(* nn_connect, nn_bind *)
Init ==
  \/ s \in nn_ctcp_start_resolving(Created("tcp", "connect"))
  \/ s \in nn_btcp_start_listening(Created("tcp", "bind"))
  \/ s \in nn_cipc_create \cup nn_bipc_create

(* The context is not left before the events are handled.                   *)
Event ==
  /\ s.abort = "no" /\ s.events # <<>>
  /\ s' \in Handle([s EXCEPT !.events = Tail(@)], Head(s.events))

AtRest == s.abort = "no" /\ s.events = <<>>

(* The worker executes the next task.                                       *)
WorkerTask ==
  /\ AtRest /\ s.tasks # <<>>
  /\ LET o == Head(s.tasks)[1]
         what == Head(s.tasks)[2]
         t == [s EXCEPT !.tasks = Tail(@)] IN
     s' = IF o[1] = "timer" THEN TimerTask(t, o[2], what, TimerOwner(o[2]))
          ELSE UsockTask(t, o[2], what)

(* A timer expires.                                                         *)
Expire(c) == AtRest /\ <<"timer", c>> \in s.armed /\ s' = TimerExpires(s, c, TimerOwner(c))

(* A file descriptor is ready, or reports an error.                         *)
FdReady(c, way) ==
  /\ AtRest /\ way \in s.fd[c]
  /\ s' \in IF c = 0 THEN ListenerReady(s, Free(s) # {}) ELSE Ready(s, c, way)

FdError(c) == AtRest /\ c # 0 /\ s.fd[c] # {} /\ s' = Failed(s, c)

(* The lookup of the name ends, in a thread of its own.                     *)
Resolved == AtRest /\ s.dns[0] \in {"RESOLVING", "STOPPING"} /\ s' = nn_dns_notify(s)

(* A user's call sends to, or receives from, a pipe of the socket.          *)
Use(c) ==
  /\ AtRest /\ s.sock = "ACTIVE" /\ s.pipe[c] = "ACTIVE"
  /\ \/ s.out[c] = "IDLE" /\ s' \in nn_pipe_send(s, c)
     \/ s.in[c] = "HASMSG" /\ s' \in nn_pipe_recv(s, c)

(* nn_shutdown of the endpoint, nn_close of the socket                      *)
Shutdown == AtRest /\ s.ep = "ACTIVE" /\ s' \in nn_ep_stop(s)
Close ==
  /\ AtRest /\ s.sock = "ACTIVE"
  /\ s' \in IF s.ep = "FREED" THEN {[s EXCEPT !.sock = "CLOSED"]}
            ELSE nn_ep_stop([s EXCEPT !.sock = "STOPPING_EPS"])

(* The process has aborted, or the socket is closed.                        *)
Ended == (s.abort # "no" \/ s.sock = "CLOSED") /\ UNCHANGED s

Next ==
  \/ Event \/ WorkerTask \/ Resolved \/ Shutdown \/ Close \/ Ended
  \/ \E c \in {0} \cup Conns :
       Expire(c) \/ FdError(c) \/ \E way \in {"IN", "OUT"} : FdReady(c, way)
  \/ \E c \in Conns : Use(c)

Spec == Init /\ [][Next]_s

(* Events are handled, and the context is left again and again: what a peer *)
(* has sent so far comes to an end.  Each round of the worker executes its  *)
(* tasks and the timers that expired, also when descriptors are ready all   *)
(* the time.  The lookup of a name ends.  Otherwise nothing is assumed of   *)
(* the peers and the users.                                                 *)
FairSpec ==
  /\ Spec /\ WF_s(Event) /\ []<>(s.events = <<>>) /\ SF_s(WorkerTask) /\ SF_s(Resolved)
  /\ \A c \in {0} \cup Conns : SF_s(Expire(c))
=============================================================================
