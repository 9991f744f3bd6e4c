------------------------------- MODULE NnTcp --------------------------------
(***************************************************************************)
(* The TCP endpoints of a nanomsg socket: one that connects (tcp/ctcp.c),  *)
(* with the one connection 1, and one that is bound (tcp/btcp.c), with a   *)
(* connection in tcp/atcp.c for each socket it accepts and one more that   *)
(* waits.  s.base is the state of ctcp or btcp; its timer is number 0, and *)
(* s.conn[c] is the state of atcp c.                                       *)
(***************************************************************************)
EXTENDS NnStcp, FiniteSetsExt

CONSTANT MaxConns       \* bound: connections of the endpoint

Conns == 1 .. MaxConns
Base == <<"base", 0>>

(* nn_epbase_stopped, nn_ep_stopped                                         *)
EpStopped(s) == Raise([s EXCEPT !.base = "IDLE"], <<"ep", 0>>, <<"ep", 0>>, "STOPPED")

(* Mutant: the interval is not started.                                     *)
MutantBackoff(s) == [s EXCEPT !.base = "WAITING"]

(* nn_backoff_start                                                         *)
Backoff(s) == [nn_timer_start(s, 0) EXCEPT !.base = "WAITING"]

-----------------------------------------------------------------------------
(* ctcp                                                                     *)

DnsDone(s) == Raise([s EXCEPT !.dns[0] = "DONE"], <<"dns", 0>>, Base, "DONE")

DnsStopped(s) == Raise([s EXCEPT !.dns[0] = "IDLE"], <<"dns", 0>>, Base, "STOPPED")

(* nn_ctcp_start_resolving, nn_dns_start: a literal address is there at     *)
(* once, a name is looked up by another thread.                             *)
nn_ctcp_start_resolving(s) ==
  LET t == [s EXCEPT !.base = "RESOLVING"] IN
  IF ~IsIdle(s, <<"dns", 0>>) THEN {Bad(s)}
  ELSE {DnsDone(t), [t EXCEPT !.dns[0] = "RESOLVING"]}

(* A lookup may be cancelled, or be too far for that: its thread still      *)
(* calls nn_dns_notify.                                                     *)
nn_dns_stop(s) ==
  CASE s.dns[0] = "DONE"      -> {DnsStopped(s)}
    [] s.dns[0] = "RESOLVING" -> {DnsStopped(s), [s EXCEPT !.dns[0] = "STOPPING"]}
    [] OTHER                  -> {s}

nn_dns_notify(s) == IF s.dns[0] = "STOPPING" THEN DnsStopped(s) ELSE DnsDone(s)

(* nn_ctcp_start_connecting, unless there is no local address or no socket. *)
nn_ctcp_start_connecting(s) ==
  {Backoff(s)} \cup {[t EXCEPT !.base = "CONNECTING"] : t \in nn_usock_connect(s, 1)}

CtcpStopping(s) ==
  IF IsIdle(s, <<"timer", 0>>) /\ IsIdle(s, <<"usock", 1>>) /\ IsIdle(s, <<"dns", 0>>)
  THEN EpStopped(s) ELSE s

CtcpStoppingStcp(s) ==
  IF IsIdle(s, <<"stcp", 1>>)
  THEN {CtcpStopping([t EXCEPT !.base = "STOPPING"]) :
          t \in nn_dns_stop(nn_usock_stop(nn_timer_stop(s, 0), 1))}
  ELSE {s}

(* nn_ctcp_stop *)
nn_ctcp_stop(s) ==
  CtcpStoppingStcp([nn_stcp_stop(s, 1) EXCEPT !.base = "STOPPING_STCP_FINAL"])

StcpLost(s) == [nn_stcp_stop(s, 1) EXCEPT !.base = "STOPPING_STCP"]

CloseConnection(s) == [nn_usock_stop(s, 1) EXCEPT !.base = "STOPPING_USOCK"]

(* nn_ctcp_handler, nn_ctcp_shutdown *)
CtcpConnecting(s, e) ==
  CASE s.base = "RESOLVING" /\ e.type = "DONE"
         -> {[t EXCEPT !.base = "STOPPING_DNS"] : t \in nn_dns_stop(s)}
    [] s.base = "STOPPING_DNS" /\ e.type = "STOPPED"
         -> {Backoff(s)} \cup nn_ctcp_start_connecting(s)
    [] s.base = "CONNECTING" /\ e.type = "CONNECTED"
         -> {[t EXCEPT !.base = "ACTIVE"] : t \in nn_stcp_start(s, 1)}
    [] s.base = "CONNECTING" /\ e.type = "ERROR" -> {CloseConnection(s)}
    [] OTHER -> {Bad(s)}

(* The connection is there, or is given up and made again later.            *)
CtcpConnected(s, e) ==
  CASE s.base = "ACTIVE" /\ e.type = "FAILED" -> {StcpLost(s)}
    [] s.base = "STOPPING_STCP" /\ e.from[1] = "stcp" /\ e.type = "STOPPED" -> {CloseConnection(s)}
    [] s.base = "STOPPING_USOCK" /\ e.from[1] = "usock" /\ e.type = "SHUTDOWN" -> {s}
    [] s.base = "STOPPING_USOCK" /\ e.from[1] = "usock" /\ e.type = "STOPPED" -> {Backoff(s)}
    [] s.base = "WAITING" /\ e.type = "TIMEOUT"
         -> {[nn_timer_stop(s, 0) EXCEPT !.base = "STOPPING_BACKOFF"]}
    [] s.base = "STOPPING_BACKOFF" /\ e.from[1] = "timer" /\ e.type = "STOPPED"
         -> nn_ctcp_start_resolving(s)
    [] OTHER -> {Bad(s)}

CtcpHandler(s, e) ==
  CASE s.base = "STOPPING_STCP_FINAL" -> CtcpStoppingStcp(s)
    [] s.base = "STOPPING" -> {CtcpStopping(s)}
    [] s.base \in {"RESOLVING", "STOPPING_DNS", "CONNECTING"} -> CtcpConnecting(s, e)
    [] OTHER -> CtcpConnected(s, e)

-----------------------------------------------------------------------------
(* atcp                                                                     *)

Free(s) == Conns \ (s.atcps \cup {s.accepting})

(* A connection is accepted only while there is a number left for the next. *)
Accept(s, c) == nn_usock_accept(s, c, Free(s) # {})

nn_atcp_start(s, c) ==
  {[t EXCEPT !.conn[c] = "ACCEPTING"] : t \in Accept([s EXCEPT !.owner[0] = <<"conn", c>>], c)}

AtcpStopped(s, c) ==
  IF IsIdle(s, <<"usock", c>>)
  THEN Raise([s EXCEPT !.conn[c] = "IDLE", !.owner[0] = IF @ = <<"conn", c>> THEN Base ELSE @],
             <<"conn", c>>, Base, "STOPPED")
  ELSE s

AtcpStoppingStcp(s, c) ==
  IF IsIdle(s, <<"stcp", c>>)
  THEN AtcpStopped([nn_usock_stop(s, c) EXCEPT !.conn[c] = "STOPPING"], c) ELSE s

nn_atcp_stop(s, c) ==
  IF s.conn[c] \in {"IDLE", "STOPPING_STCP_FINAL", "STOPPING"} THEN s
  ELSE AtcpStoppingStcp([nn_stcp_stop(s, c) EXCEPT !.conn[c] = "STOPPING_STCP_FINAL"], c)

(* The listener is given back, the socket that was accepted put to use.     *)
AtcpAccepted(s, c) ==
  LET s2 == Raise([s EXCEPT !.owner[0] = Base], <<"conn", c>>, Base, "ACCEPTED") IN
  {[t EXCEPT !.conn[c] = "ACTIVE"] : t \in nn_stcp_start(nn_usock_activate(s2, c), c)}

(* nn_atcp_handler, nn_atcp_shutdown *)
AtcpHandler(s, c, e) ==
  CASE s.conn[c] = "STOPPING_STCP_FINAL" -> {AtcpStoppingStcp(s, c)}
    [] s.conn[c] = "STOPPING" -> {AtcpStopped(s, c)}
    [] s.conn[c] = "ACCEPTING" /\ e.type = "ACCEPTED" -> AtcpAccepted(s, c)
    [] s.conn[c] = "ACCEPTING" /\ e.type = "ACCEPT_ERROR" -> Accept(s, c)
    [] s.conn[c] = "ACTIVE" /\ e.type = "FAILED"
         -> {[nn_stcp_stop(s, c) EXCEPT !.conn[c] = "STOPPING_STCP"]}
    [] s.conn[c] = "STOPPING_STCP" /\ e.from[1] = "stcp" /\ e.type = "STOPPED"
         -> {[nn_usock_stop(s, c) EXCEPT !.conn[c] = "STOPPING_USOCK"]}
    [] s.conn[c] = "STOPPING_USOCK" /\ e.type = "SHUTDOWN" -> {s}
    [] s.conn[c] = "STOPPING_USOCK" /\ e.from[1] = "usock" /\ e.type = "STOPPED"
         -> {Raise([s EXCEPT !.conn[c] = "DONE"], <<"conn", c>>, Base, "FAILED")}
    [] OTHER -> {Bad(s)}

-----------------------------------------------------------------------------
(* btcp                                                                     *)

(* nn_btcp_start_accepting *)
nn_btcp_start_accepting(t) ==
  IF t.accepting # 0 THEN {Bad(t)}
  ELSE LET c == Min(Free(t)) IN nn_atcp_start([t EXCEPT !.accepting = c], c)

(* nn_btcp_start_listening: there is no socket, it cannot be bound or       *)
(* listen, or it accepts connections.                                       *)
nn_btcp_start_listening(t) ==
  IF ~IsIdle(t, <<"usock", 0>>) THEN {Bad(t)}
  ELSE {Backoff(t), [Tell(t, 0, "STOPPED") EXCEPT !.base = "CLOSING"]}
       \cup {[u EXCEPT !.base = "ACTIVE"] :
               u \in nn_btcp_start_accepting([t EXCEPT !.usock[0] = "LISTENING"])}

(* nn_atcp_term, and a number that can be used again.                       *)
nn_atcp_term(t, c) ==
  LET u == nn_usock_term(t, c) IN
  IF Unused(u, {o \in {"conn", "stcp", "hdr", "timer", "usock", "pipe"} \X {c} : TRUE})
  THEN [u EXCEPT !.atcps = @ \ {c}, !.accepting = IF @ = c THEN 0 ELSE @,
                 !.owner[c] = <<"conn", c>>, !.hdrUsock[c] = FALSE,
                 !.in[c] = "none", !.out[c] = "none"]
  ELSE Bad(u)

StoppingAtcps(t) == IF t.atcps = {} THEN EpStopped(t) ELSE t

StoppingUsock(t) ==
  IF IsIdle(t, <<"usock", 0>>)
  THEN StoppingAtcps([FoldSet(LAMBDA c, u : nn_atcp_stop(u, c), t, t.atcps)
                        EXCEPT !.base = "STOPPING_ATCPS"])
  ELSE t

StoppingAtcp(t) ==
  IF IsIdle(t, <<"conn", t.accepting>>)
  THEN StoppingUsock([nn_usock_stop(nn_atcp_term(t, t.accepting), 0) EXCEPT !.base = "STOPPING_USOCK"])
  ELSE t

(* nn_btcp_stop *)
nn_btcp_stop(t) ==
  LET u == nn_timer_stop(t, 0) IN
  IF t.accepting # 0
  THEN StoppingAtcp([nn_atcp_stop(u, t.accepting) EXCEPT !.base = "STOPPING_ATCP"])
  ELSE StoppingUsock([u EXCEPT !.base = "STOPPING_USOCK"])

(* The connection goes to the others, a new one waits.                      *)
BtcpAccepted(t) ==
  nn_btcp_start_accepting([t EXCEPT !.atcps = @ \cup {t.accepting}, !.accepting = 0])

(* nn_btcp_handler, nn_btcp_shutdown *)
BtcpHandler(t, e) ==
  LET c == e.from[2]
      conn == e.from[1] = "conn" IN
  CASE t.base = "STOPPING_ATCP"  -> {StoppingAtcp(t)}
    [] t.base = "STOPPING_USOCK" -> {StoppingUsock(t)}
    [] t.base = "STOPPING_ATCPS" /\ conn /\ e.type = "STOPPED" -> {StoppingAtcps(nn_atcp_term(t, c))}
    [] t.base = "ACTIVE" /\ conn /\ c = t.accepting /\ e.type = "ACCEPTED" -> BtcpAccepted(t)
    [] t.base = "ACTIVE" /\ conn /\ c # t.accepting /\ e.type = "FAILED" -> {nn_atcp_stop(t, c)}
    [] t.base = "ACTIVE" /\ conn /\ c # t.accepting /\ e.type = "STOPPED" -> {nn_atcp_term(t, c)}
    [] t.base = "CLOSING" /\ e.from[1] = "usock" /\ e.type = "STOPPED" -> {Backoff(t)}
    [] t.base = "WAITING" /\ e.type = "TIMEOUT"
         -> {[nn_timer_stop(t, 0) EXCEPT !.base = "STOPPING_BACKOFF"]}
    [] t.base = "STOPPING_BACKOFF" /\ e.from[1] = "timer" /\ e.type = "STOPPED"
         -> nn_btcp_start_listening(t)
    [] OTHER -> {Bad(t)}

-----------------------------------------------------------------------------
(* An endpoint of a transport and a kind before it is started               *)
Created(transport, kind) ==
  LET each(v) == 0 :> v @@ [c \in Conns |-> v] IN
  [transport |-> transport, kind |-> kind,
   sock |-> "ACTIVE", ep |-> "ACTIVE", base |-> "IDLE", dns |-> [c \in {0} |-> "IDLE"],
   conn |-> each("IDLE"), stcp |-> each("IDLE"),
   hdr |-> each("IDLE"), timer |-> each("IDLE"), usock |-> each("IDLE"), pipe |-> each("IDLE"),
   owner |-> 0 :> Base @@ [c \in Conns |-> IF kind = "connect" THEN Base ELSE <<"conn", c>>],
   parent |-> [c \in Conns |-> IF kind = "connect" THEN Base ELSE <<"conn", c>>],
   hdrUsock |-> each(FALSE), in |-> each("none"), out |-> each("none"), fd |-> each({}),
   asock |-> 0, lerr |-> FALSE, accepting |-> 0, atcps |-> {},
   events |-> <<>>, tasks |-> <<>>, armed |-> {}, abort |-> "no"]
=============================================================================
