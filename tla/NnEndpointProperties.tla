------------------------ MODULE NnEndpointProperties ------------------------
(***************************************************************************)
(* What a TCP or IPC endpoint of a nanomsg socket keeps.                   *)
(***************************************************************************)
EXTENDS NnEndpoint

AnyConn == {0} \cup Conns

(* Type invariant of the endpoint's record: the states each machine has, and *)
(* what may be queued for the worker.                                       *)
EndpointTypeOK ==
  /\ s.transport \in {"tcp", "ipc"} /\ s.kind \in {"connect", "bind"}
  /\ s.sock \in {"ACTIVE", "STOPPING_EPS", "CLOSED"}
  /\ s.ep \in {"ACTIVE", "STOPPING", "IDLE", "FREED"}
  /\ \A c \in AnyConn :
       /\ s.timer[c] \in {"IDLE", "ACTIVE", "STOPPING"} /\ s.pipe[c] \in {"IDLE", "ACTIVE", "FAILED"}
       /\ s.in[c] \in {"none", "HDR", "BODY", "HASMSG"} /\ s.out[c] \in {"none", "IDLE", "SENDING"}
       /\ s.fd[c] \subseteq {"added", "IN", "OUT"} /\ (s.fd[c] # {} => "added" \in s.fd[c])
  /\ \A i \in DOMAIN s.tasks : s.tasks[i][1] \in {"timer", "usock"} \X AnyConn
  /\ s.armed \subseteq {"timer"} \X AnyConn
  /\ s.accepting \in AnyConn /\ s.atcps \subseteq Conns

(* The state machines expect every event they get, in every order of the    *)
(* threads, the peers' bytes and the user's calls: none of their assertions *)
(* fails, no event or task is queued twice, and what is freed is not in use. *)
(* The nine ways named here are those in which the code does abort.        *)
NoUnexpectedEvent ==
  s.abort \in {"no", "polls_closed_fd", "uses_failed_socket", "event_of_removed_pipe",
               "late_header_error", "pipe_event_at_close", "retry_timer_freed",
               "frees_queued_task", "unknown_message_type", "file_not_removed"}

(* When the context is left, the nanomsg socket has a connection's pipe     *)
(* exactly while its stream is active (nn_pipebase_start, nn_pipebase_stop), *)
(* and then the stream owns a socket that is connected: a pipe never leads  *)
(* to a connection that is lost.                                            *)
PipeMeansConnected ==
  AtRest => \A c \in Conns :
    /\ (s.pipe[c] = "ACTIVE") = (s.stcp[c] = "ACTIVE")
    /\ s.pipe[c] = "ACTIVE" => s.usock[c] = "ACTIVE" /\ s.owner[c] = <<"stcp", c>>

(* A listening endpoint that is up always has one connection object waiting *)
(* for the listener, and it is the one the listener's events go to          *)
(* (nn_btcp_start_accepting, nn_atcp_handler).                              *)
KeepsListening ==
  AtRest /\ s.kind = "bind" /\ s.base = "ACTIVE" =>
    LET c == s.accepting IN
    /\ c # 0 /\ c \notin s.atcps
    /\ s.conn[c] = "ACCEPTING" /\ s.usock[c] = "BEING_ACCEPTED"
    /\ s.usock[0] = "ACCEPTING" /\ s.asock = c /\ s.owner[0] = <<"conn", c>>

(* The endpoint's parts agree: they have their types, and what the nanomsg  *)
(* socket and the listening endpoint rely on is so.                         *)
EndpointConsistent == EndpointTypeOK /\ PipeMeansConnected /\ KeepsListening

Aborted == s.abort # "no"

(* nn_shutdown and nn_close finish: an endpoint that is asked to stop is    *)
(* freed, whatever its timers, connections and worker tasks are doing.      *)
StopCompletes == s.ep = "STOPPING" ~> s.ep = "FREED" \/ Aborted

(* The exchange of protocol headers ends, even if the peer sends nothing:   *)
(* its one-second timer (streamhdr.c) ends it.                              *)
HandshakeEnds ==
  \A c \in Conns : s.stcp[c] = "PROTOHDR" ~> s.stcp[c] # "PROTOHDR" \/ Aborted

(* A connecting endpoint never settles without a connection: when one is    *)
(* lost or could not be made, the retry interval is started and ends, and   *)
(* the attempt starts anew (for TCP, the name is resolved again), unless    *)
(* the endpoint is asked to stop.                                           *)
Reconnects ==
  s.kind = "connect" /\ s.usock[1] = "DONE" ~>
    \/ s.base = IF s.transport = "tcp" THEN "RESOLVING" ELSE "STOPPING_BACKOFF"
    \/ s.ep # "ACTIVE" \/ Aborted
=============================================================================
