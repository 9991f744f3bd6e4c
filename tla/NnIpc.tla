------------------------------- MODULE NnIpc --------------------------------
(***************************************************************************)
(* The IPC endpoints of a nanomsg socket (transports/ipc), over Unix       *)
(* domain sockets: cipc, bipc, aipc and sipc are the machines of ctcp,     *)
(* btcp, atcp and stcp without a name to look up, with a file to remove    *)
(* before listening and with the type of a message in its header.  The     *)
(* definitions are those of TCP but for that: s.base is the state of cipc  *)
(* or bipc, s.conn[c] that of aipc c, s.stcp[c] that of sipc c.            *)
(***************************************************************************)
EXTENDS NnTcp

-----------------------------------------------------------------------------
(* sipc                                                                     *)

nn_sipc_start(s, c) == nn_stcp_start(s, c)

nn_sipc_stop(s, c) == nn_stcp_stop(s, c)

(* nn_pipe_send, nn_pipe_recv *)
nn_sipc_send(s, c) == nn_stcp_send(s, c)

nn_sipc_recv(s, c) == nn_stcp_recv(s, c)

(* The header of a message that is received starts with the only type there *)
(* is, NN_SIPC_MSG_NORMAL.                                                  *)
SipcReceived(s, c) ==
  Received(s, c) \cup (IF s.in[c] = "HDR" THEN {Abort(s, "unknown_message_type")} ELSE {})

(* nn_sipc_handler of a session that has its pipe, or has lost it           *)
SipcActive(s, c, e) ==
  IF s.stcp[c] = "ACTIVE" /\ e.type = "RECEIVED" THEN SipcReceived(s, c) ELSE StcpActive(s, c, e)

(* nn_sipc_handler, nn_sipc_shutdown                                        *)
SipcHandler(s, c, e) ==
  IF s.stcp[c] \in {"STOPPING", "PROTOHDR", "STOPPING_STREAMHDR"}
  THEN StcpHandler(s, c, e) ELSE SipcActive(s, c, e)

-----------------------------------------------------------------------------
(* cipc                                                                     *)

(* nn_cipc_start_connecting: there is no socket, or it tries to connect.    *)
nn_cipc_start_connecting(s) ==
  {Backoff(s)} \cup {[t EXCEPT !.base = "CONNECTING"] : t \in nn_usock_connect(s, 1)}

nn_cipc_create == nn_cipc_start_connecting(Created("ipc", "connect"))

CipcStopping(s) ==
  IF IsIdle(s, <<"timer", 0>>) /\ IsIdle(s, <<"usock", 1>>) THEN EpStopped(s) ELSE s

CipcStoppingSipc(s) ==
  IF IsIdle(s, <<"stcp", 1>>)
  THEN CipcStopping([nn_usock_stop(nn_timer_stop(s, 0), 1) EXCEPT !.base = "STOPPING"])
  ELSE s

nn_cipc_stop(s) == CipcStoppingSipc([nn_sipc_stop(s, 1) EXCEPT !.base = "STOPPING_STCP_FINAL"])

(* nn_cipc_handler: a connection is tried.                                  *)
CipcConnecting(s, e) ==
  CASE e.from = <<"usock", 1>> /\ e.type = "CONNECTED"
         -> {[t EXCEPT !.base = "ACTIVE"] : t \in nn_sipc_start(s, 1)}
    [] e.from = <<"usock", 1>> /\ e.type = "ERROR" -> {CloseConnection(s)}
    [] OTHER -> {Bad(s)}

(* It is there, or is given up and tried again when the interval has passed. *)
CipcConnected(s, e) ==
  IF s.base = "STOPPING_BACKOFF" /\ e.from = <<"timer", 0>> /\ e.type = "STOPPED"
  THEN nn_cipc_start_connecting(s) ELSE CtcpConnected(s, e)

(* nn_cipc_handler, nn_cipc_shutdown *)
CipcHandler(s, e) ==
  CASE s.base = "STOPPING_STCP_FINAL" -> {CipcStoppingSipc(s)}
    [] s.base = "STOPPING"   -> {CipcStopping(s)}
    [] s.base = "CONNECTING" -> CipcConnecting(s, e)
    [] OTHER                 -> CipcConnected(s, e)

-----------------------------------------------------------------------------
(* aipc                                                                     *)

nn_aipc_start(s, c) == nn_atcp_start(s, c)

nn_aipc_stop(s, c) == nn_atcp_stop(s, c)

(* nn_aipc_handler, nn_aipc_shutdown *)
AipcHandler(s, c, e) == AtcpHandler(s, c, e)

-----------------------------------------------------------------------------
(* bipc                                                                     *)

(* nn_bipc_start_accepting *)
nn_bipc_start_accepting(s) ==
  IF s.accepting # 0 THEN {Bad(s)}
  ELSE LET c == Min(Free(s)) IN nn_aipc_start([s EXCEPT !.accepting = c], c)

(* The file a process that has ended left behind is removed.                *)
RemoveFile(s) == {s, Abort(s, "file_not_removed")}

(* nn_bipc_start_listening: as for TCP once the file is out of the way; a   *)
(* file that another process listens on makes nn_usock_bind fail.           *)
nn_bipc_start_listening(s) ==
  UNION {IF u.abort # "no" THEN {u} ELSE nn_btcp_start_listening(u) : u \in RemoveFile(s)}

nn_bipc_create == nn_bipc_start_listening(Created("ipc", "bind"))

nn_bipc_stop(s) == nn_btcp_stop(s)

(* nn_bipc_handler, nn_bipc_shutdown *)
BipcHandler(s, e) ==
  CASE s.base = "STOPPING_BACKOFF" /\ e.from[1] = "timer" /\ e.type = "STOPPED"
         -> nn_bipc_start_listening(s)
    [] s.base = "ACTIVE" /\ e.from[1] = "conn" /\ e.from[2] # s.accepting /\ e.type = "FAILED"
         -> {nn_aipc_stop(s, e.from[2])}
    [] OTHER -> BtcpHandler(s, e)
=============================================================================
