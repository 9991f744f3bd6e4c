------------------------------- MODULE NnStcp -------------------------------
(***************************************************************************)
(* A connection that has been made: the exchange of the protocol headers   *)
(* (transports/utils/streamhdr.c, object <<"hdr", c>>), the stream of      *)
(* messages (tcp/stcp.c) and the pipe it gives the nanomsg socket          *)
(* (core/pipe.c).  s.parent[c] is the machine that owns stream c.          *)
(***************************************************************************)
EXTENDS NnUsock

-----------------------------------------------------------------------------
(* streamhdr                                                                *)

(* It takes the socket; its fields must have been reset.                    *)
nn_streamhdr_start(s, c) ==
  IF s.hdrUsock[c] \/ ~IsIdle(s, <<"hdr", c>>) THEN {Bad(s)}
  ELSE {[t EXCEPT !.hdr[c] = "SENDING"] :
          t \in nn_usock_send(nn_timer_start([s EXCEPT !.owner[c] = <<"hdr", c>>,
                                                       !.hdrUsock[c] = TRUE], c), c)}

HdrStopped(s, c) ==
  IF IsIdle(s, <<"timer", c>>)
  THEN Raise([s EXCEPT !.hdr[c] = "IDLE"], <<"hdr", c>>, <<"stcp", c>>, "STOPPED") ELSE s

(* The socket is not given back: stcp does that for both.                   *)
nn_streamhdr_stop(s, c) ==
  IF Stops(s, <<"hdr", c>>)
  THEN HdrStopped([nn_timer_stop(s, c) EXCEPT !.hdr[c] = "STOPPING"], c) ELSE s

HdrStopTimer(s, c, next) == [nn_timer_stop(s, c) EXCEPT !.hdr[c] = next]

HdrFinish(s, c, type) ==
  Raise([s EXCEPT !.owner[c] = <<"stcp", c>>, !.hdrUsock[c] = FALSE, !.hdr[c] = "DONE"],
        <<"hdr", c>>, <<"stcp", c>>, type)

(* Mutant: the time limit of the exchange is ignored while receiving.       *)
MutantHdrTimeout(s, c) == IF s.hdr[c] = "RECEIVING" THEN s ELSE HdrStopTimer(s, c, "STOPPING_TIMER_ERROR")

HdrTimeout(s, c) == HdrStopTimer(s, c, "STOPPING_TIMER_ERROR")

(* nn_streamhdr_handler: the exchange is over, and the timer is stopped.     *)
HdrStopping(s, c, e) ==
  CASE s.hdr[c] = "STOPPING_TIMER_ERROR" /\ e.from[1] = "usock" -> {s}
    [] s.hdr[c] = "STOPPING_TIMER_ERROR" /\ e.type = "STOPPED" -> {HdrFinish(s, c, "FAILED")}
    [] s.hdr[c] = "STOPPING_TIMER_DONE" /\ e.from[1] = "usock"
         -> {Abort(s, "late_header_error")}
    [] s.hdr[c] = "STOPPING_TIMER_DONE" /\ e.type = "STOPPED" -> {HdrFinish(s, c, "OK")}
    [] OTHER -> {Bad(s)}

(* nn_streamhdr_handler, nn_streamhdr_shutdown.  The peer's header may be   *)
(* one of another protocol.                                                 *)
HdrHandler(s, c, e) ==
  CASE s.hdr[c] = "STOPPING" -> {HdrStopped(s, c)}
    [] s.hdr[c] \in {"SENDING", "RECEIVING"} /\ e.type = "SHUTDOWN" -> {s}
    [] s.hdr[c] \in {"SENDING", "RECEIVING"} /\ e.type = "ERROR"
         -> {HdrStopTimer(s, c, "STOPPING_TIMER_ERROR")}
    [] s.hdr[c] \in {"SENDING", "RECEIVING"} /\ e.type = "TIMEOUT" -> {HdrTimeout(s, c)}
    [] s.hdr[c] = "SENDING" /\ e.type = "SENT"
         -> {[t EXCEPT !.hdr[c] = "RECEIVING"] : t \in nn_usock_recv(s, c)}
    [] s.hdr[c] = "RECEIVING" /\ e.type = "RECEIVED"
         -> {HdrStopTimer(s, c, next) : next \in {"STOPPING_TIMER_DONE", "STOPPING_TIMER_ERROR"}}
    [] OTHER -> HdrStopping(s, c, e)

-----------------------------------------------------------------------------
(* The pipe: IDLE, ACTIVE while the nanomsg socket has it, or FAILED        *)

(* Mutant: the nanomsg socket keeps the pipe.                               *)
MutantPipeStop(s, c) == s

nn_pipebase_stop(s, c) == [s EXCEPT !.pipe[c] = "IDLE"]

(* nn_pipe_send, nn_stcp_send *)
nn_stcp_send(s, c) ==
  IF s.pipe[c] # "ACTIVE" \/ s.stcp[c] # "ACTIVE" \/ s.out[c] # "IDLE" THEN {Bad(s)}
  ELSE nn_usock_send([s EXCEPT !.out[c] = "SENDING"], c)

(* nn_pipe_recv, nn_stcp_recv *)
nn_stcp_recv(s, c) ==
  IF s.pipe[c] # "ACTIVE" \/ s.stcp[c] # "ACTIVE" \/ s.in[c] # "HASMSG" THEN {Bad(s)}
  ELSE nn_usock_recv([s EXCEPT !.in[c] = "HDR"], c)

-----------------------------------------------------------------------------
(* stcp                                                                     *)

(* It takes the socket.                                                     *)
nn_stcp_start(s, c) ==
  IF ~IsIdle(s, <<"stcp", c>>) THEN {Bad(s)}
  ELSE {[t EXCEPT !.stcp[c] = "PROTOHDR"] : t \in nn_streamhdr_start(s, c)}

(* It gives it back.                                                        *)
StcpStopped(s, c) ==
  IF IsIdle(s, <<"hdr", c>>)
  THEN Raise([s EXCEPT !.owner[c] = s.parent[c], !.stcp[c] = "IDLE"],
             <<"stcp", c>>, s.parent[c], "STOPPED")
  ELSE s

nn_stcp_stop(s, c) ==
  IF Stops(s, <<"stcp", c>>)
  THEN StcpStopped([nn_streamhdr_stop(nn_pipebase_stop(s, c), c) EXCEPT !.stcp[c] = "STOPPING"], c)
  ELSE s

StcpFails(s, c) ==
  Raise([s EXCEPT !.stcp[c] = "DONE"], <<"stcp", c>>, s.parent[c], "FAILED")

(* nn_pipebase_start; the nanomsg socket may refuse the pipe.               *)
StartPipe(s, c) ==
  LET active == Raise([s EXCEPT !.pipe[c] = "ACTIVE", !.in[c] = "HDR"],
                      <<"pipe", c>>, <<"sock", 0>>, "OUT") IN
  IF s.pipe[c] # "IDLE" THEN {Bad(s)}
  ELSE {StcpFails([s EXCEPT !.pipe[c] = "FAILED"], c)} \cup
       {[t EXCEPT !.stcp[c] = "ACTIVE", !.out[c] = "IDLE"] : t \in nn_usock_recv(active, c)}

(* A header, or a body, has been received; a message may have no body.      *)
Received(s, c) ==
  LET hasMsg == Raise([s EXCEPT !.in[c] = "HASMSG"], <<"pipe", c>>, <<"sock", 0>>, "IN") IN
  CASE s.in[c] = "HDR"  -> {hasMsg} \cup nn_usock_recv([s EXCEPT !.in[c] = "BODY"], c)
    [] s.in[c] = "BODY" -> {hasMsg}
    [] OTHER            -> {Bad(s)}

Sent(s, c) ==
  IF s.out[c] = "SENDING"
  THEN Raise([s EXCEPT !.out[c] = "IDLE"], <<"pipe", c>>, <<"sock", 0>>, "OUT") ELSE Bad(s)

(* nn_stcp_handler of a session that has its pipe, or has lost it           *)
StcpActive(s, c, e) ==
  CASE s.stcp[c] = "ACTIVE" /\ e.type = "SENT" -> {Sent(s, c)}
    [] s.stcp[c] = "ACTIVE" /\ e.type = "RECEIVED" -> Received(s, c)
    [] s.stcp[c] = "ACTIVE" /\ e.type = "SHUTDOWN"
         -> {[nn_pipebase_stop(s, c) EXCEPT !.stcp[c] = "SHUTTING_DOWN"]}
    [] s.stcp[c] = "ACTIVE" /\ e.type = "ERROR" -> {StcpFails(nn_pipebase_stop(s, c), c)}
    [] s.stcp[c] = "SHUTTING_DOWN" /\ e.type = "ERROR" -> {StcpFails(s, c)}
    [] OTHER -> {Bad(s)}

(* nn_stcp_handler, nn_stcp_shutdown                                        *)
StcpHandler(s, c, e) ==
  CASE s.stcp[c] = "STOPPING" -> {StcpStopped(s, c)}
    [] s.stcp[c] = "PROTOHDR" /\ e.type = "OK"
         -> {[nn_streamhdr_stop(s, c) EXCEPT !.stcp[c] = "STOPPING_STREAMHDR"]}
    [] s.stcp[c] = "PROTOHDR" /\ e.type = "FAILED" -> {StcpFails(s, c)}
    [] s.stcp[c] = "STOPPING_STREAMHDR" /\ e.from[1] = "hdr" /\ e.type = "STOPPED"
         -> StartPipe(s, c)
    [] OTHER -> StcpActive(s, c, e)
=============================================================================
