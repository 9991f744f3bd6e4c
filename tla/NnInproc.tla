------------------------------ MODULE NnInproc ------------------------------
(***************************************************************************)
(* Nanomsg's transport between sockets of one process: the repository of   *)
(* endpoints (inproc/ins.c), bound and connected endpoints (binproc.c,     *)
(* cinproc.c), the two sessions of a connection with their message queues  *)
(* (sinproc.c, msgqueue.c), and the PAIR protocol that uses their pipes    *)
(* (core/pipe.c, utils/excl.c).                                            *)
(*                                                                         *)
(* A record s holds the process.  An object is a pair <<class, number>>: a *)
(* socket <<"sock", o>>, an endpoint <<"ep", e>> and what its transport    *)
(* made of it <<"base", e>>, and the sessions <<"c", e>> and <<"b", e>> of *)
(* the connection that the connected endpoint e has with a bound one.  A C *)
(* function is an operator from a record to the next one.                  *)
(***************************************************************************)
EXTENDS Integers, Sequences, FiniteSets

CONSTANTS MaxSockets,    \* sockets that can be opened, one after another
          MaxEndpoints,  \* endpoints that can be made
          RcvBuf         \* NN_RCVBUF, in messages

ASSUME InprocBounds ==
  MaxSockets \in Nat \ {0} /\ MaxEndpoints \in Nat \ {0} /\ RcvBuf \in Nat \ {0}

Socket == 1 .. MaxSockets
Endpoint == 1 .. MaxEndpoints
Session == {"c", "b"} \X Endpoint
None == <<"none", 0>>

(* A loop over a list of endpoints, in the order they were made.            *)
ForEach(E, Body(_, _), s) ==
  LET run[n \in 0 .. MaxEndpoints] ==
        IF n = 0 THEN s ELSE IF n \in E THEN Body(run[n - 1], n) ELSE run[n - 1]
  IN run[MaxEndpoints]

(* s.abort says why the process has aborted, "no" if it has not.            *)
Abort(s, why) == [s EXCEPT !.abort = IF @ = "no" THEN why ELSE @]
Bad(s) == Abort(s, "unexpected")

(* The socket whose context an object belongs to.                           *)
SocketOf(s, obj) ==
  CASE obj[1] = "sock"           -> obj[2]
    [] obj[1] \in {"ep", "base"} -> s.ep[obj[2]].sock
    [] OTHER                     -> s.ep[s.sess[obj].ep].sock

IsFreed(s, obj) ==
  CASE obj[1] = "sock"           -> s.sock[obj[2]].st = "FREED"
    [] obj[1] \in {"ep", "base"} -> s.ep[obj[2]].st = "FREED"
    [] OTHER                     -> s.sess[obj].st = "FREED"

-----------------------------------------------------------------------------
(* Events (aio/fsm.c, aio/ctx.c).  s.events: those of the context that is   *)
(* held.  s.eventsto: those it has raised for other contexts, s.pend[t]:    *)
(* what thread t has to deliver to them, s.hand[t]: the one it has taken    *)
(* from that queue.                                                         *)

InQueue(s, slot) ==
  \E q \in {s.events, s.eventsto} \cup {s.pend[t] : t \in DOMAIN s.pend} :
    \E i \in DOMAIN q : q[i].slot = slot

InHand(s, slot) ==
  \E t \in DOMAIN s.hand : s.hand[t] # <<>> /\ s.hand[t][1].slot = slot

(* nn_fsm_raise, nn_fsm_raiseto: slot is the nn_fsm_event that is used, which *)
(* must not be in a queue.  Nothing keeps the program from one that another *)
(* thread has taken and is about to read: the event that comes of that is   *)
(* torn, so the model ends there, for a reason of its own.                  *)
RaiseIn(s, queue, slot, to, type, from) ==
  LET e == [slot |-> slot, to |-> to, type |-> type, from |-> from] IN
  IF InQueue(s, slot) THEN Abort(s, "event_raised_twice")
  ELSE IF InHand(s, slot) THEN Abort(s, "event_overwritten")
  ELSE IF queue = "events" THEN [s EXCEPT !.events = Append(@, e)]
  ELSE [s EXCEPT !.eventsto = Append(@, e)]

Raise(s, slot, to, type, from) == RaiseIn(s, "events", slot, to, type, from)
RaiseTo(s, slot, to, type, from) ==
  IF IsFreed(s, to) THEN Abort(s, "uses_freed_object")
  ELSE RaiseIn(s, "eventsto", slot, to, type, from)

-----------------------------------------------------------------------------
(* Pipes (core/pipe.c) of a PAIR socket (protocols/pair/xpair.c), which has  *)
(* one at a time (utils/excl.c)                                             *)

nn_excl_init == [pipe |-> None, inpipe |-> None, outpipe |-> None]

(* Of two connections the second is refused (EISCONN), which the session    *)
(* that calls takes for a fault of the program.                             *)
nn_excl_add(s, o, q) ==
  IF s.sock[o].excl.pipe # None THEN Abort(s, "second_pair_connection")
  ELSE [s EXCEPT !.sock[o].excl.pipe = q]

(* Mutant: the pipe that can be sent to stays.                              *)
Mutant_excl_rm(s, o) ==
  [s EXCEPT !.sock[o].excl = [nn_excl_init EXCEPT !.outpipe = s.sock[o].excl.outpipe]]

nn_excl_rm(s, o) == [s EXCEPT !.sock[o].excl = nn_excl_init]

(* The pipe can be received from, or sent to.                               *)
nn_excl_in(s, o, q) ==
  IF s.sock[o].excl.pipe # q THEN Abort(s, "event_of_removed_pipe")
  ELSE IF s.sock[o].excl.inpipe # None THEN Bad(s)
  ELSE [s EXCEPT !.sock[o].excl.inpipe = q]

nn_excl_out(s, o, q) ==
  IF s.sock[o].excl.pipe # q THEN Abort(s, "event_of_removed_pipe")
  ELSE IF s.sock[o].excl.outpipe # None THEN Bad(s)
  ELSE [s EXCEPT !.sock[o].excl.outpipe = q]

nn_xpair_events(s, o) ==
  (IF s.sock[o].excl.inpipe # None THEN {"IN"} ELSE {})
  \cup (IF s.sock[o].excl.outpipe # None THEN {"OUT"} ELSE {})

nn_pipebase_start(s, q) ==
  LET o == SocketOf(s, q) IN
  Raise(nn_excl_add([s EXCEPT !.sess[q] = [@ EXCEPT !.pipe = "ACTIVE", !.in = "ASYNC",
                                                    !.out = "IDLE"]], o, q),
        <<q, "out">>, <<"sock", o>>, "OUT", q)

nn_pipebase_stop(s, q) ==
  IF s.sess[q].pipe # "ACTIVE" THEN s
  ELSE nn_excl_rm([s EXCEPT !.sess[q].pipe = "IDLE"], SocketOf(s, q))

(* nn_pipebase_received and nn_pipebase_sent, outside nn_pipe_recv and      *)
(* nn_pipe_send                                                             *)
nn_pipebase_received(s, q) ==
  IF s.sess[q].in # "ASYNC" THEN Bad(s)
  ELSE Raise([s EXCEPT !.sess[q].in = "IDLE"],
             <<q, "in">>, <<"sock", SocketOf(s, q)>>, "IN", q)

nn_pipebase_sent(s, q) ==
  IF s.sess[q].out # "ASYNC" THEN Bad(s)
  ELSE Raise([s EXCEPT !.sess[q].out = "IDLE"],
             <<q, "out">>, <<"sock", SocketOf(s, q)>>, "OUT", q)

-----------------------------------------------------------------------------
(* Sessions                                                                 *)

(* The queue of received messages (msgqueue.c): a message of any size fits  *)
(* into an empty one.                                                       *)
nn_msgqueue_init == <<>>
Full(queue) == queue # nn_msgqueue_init /\ Len(queue) + 1 >= RcvBuf
nn_msgqueue_send(s, q, msg) == [s EXCEPT !.sess[q].queue = @ \o msg]
nn_msgqueue_recv(s, q) ==
  [s EXCEPT !.sess[q].queue = Tail(@), !.sess[q].got = Head(s.sess[q].queue)]

(* Mutant: the message is copied.                                           *)
MutantFetch(s, q) ==
  LET p == s.sess[q].peer IN
  RaiseTo(nn_msgqueue_send(s, q, s.sess[p].msg), <<p, "received">>, p, "RECEIVED", q)

(* The message exposed by the peer moves into the queue, and the peer is    *)
(* told.                                                                    *)
Fetch(s, q) ==
  LET p == s.sess[q].peer IN
  RaiseTo([nn_msgqueue_send(s, q, s.sess[p].msg) EXCEPT !.sess[p].msg = <<>>],
          <<p, "received">>, p, "RECEIVED", q)

(* The message is exposed to the peer.                                      *)
nn_sinproc_send(s, q) ==
  LET p == s.sess[q].peer
      n == s.sess[q].sent + 1 IN
  IF s.sess[q].st # "ACTIVE" \/ s.sess[q].sending THEN Bad(s)
  ELSE RaiseTo([s EXCEPT !.sess[q] = [@ EXCEPT !.msg = <<n>>, !.sent = n, !.sending = TRUE]],
               <<p, "sent">>, p, "SENT", q)

(* Room is made for a message that lingers at the peer.                     *)
nn_sinproc_recv(s, q) ==
  LET taken == nn_msgqueue_recv(s, q) IN
  IF s.sess[q].st \notin {"ACTIVE", "DISCONNECTED"} \/ s.sess[q].queue = <<>> THEN Bad(s)
  ELSE IF s.sess[q].st = "ACTIVE" /\ s.sess[q].receiving /\ ~Full(taken.sess[q].queue)
  THEN Fetch([taken EXCEPT !.sess[q].receiving = FALSE], q)
  ELSE taken

(* The session cannot send again before RECEIVED comes, so the pipe is      *)
(* released; receiving, it is when the queue is empty.                      *)
nn_pipe_send(s, q) ==
  IF s.sess[q].out # "IDLE" THEN Bad(s)
  ELSE [nn_sinproc_send(s, q) EXCEPT !.sess[q].out = "ASYNC"]

nn_pipe_recv(s, q) ==
  LET u == nn_sinproc_recv(s, q) IN
  IF s.sess[q].in # "IDLE" THEN Bad(s)
  ELSE [u EXCEPT !.sess[q].in = IF u.sess[q].queue # <<>> THEN "IDLE" ELSE "ASYNC"]

nn_excl_send(s, o) ==
  nn_pipe_send([s EXCEPT !.sock[o].excl.outpipe = None], s.sock[o].excl.outpipe)

nn_excl_recv(s, o) ==
  LET q == s.sock[o].excl.inpipe
      u == nn_pipe_recv(s, q) IN
  IF u.sess[q].in = "IDLE" THEN u ELSE [u EXCEPT !.sock[o].excl.inpipe = None]

nn_pipebase_init(r) == [r EXCEPT !.pipe = "IDLE", !.in = "none", !.out = "none"]

(* A session of endpoint e before it is started (nn_sinproc_init).  sent and *)
(* got number the messages of a connection.                                 *)
NewSession(e) ==
  nn_pipebase_init([st |-> "IDLE", ep |-> e, peer |-> None, sending |-> FALSE,
                    receiving |-> FALSE, queue |-> nn_msgqueue_init, msg |-> <<>>,
                    sent |-> 0, got |-> 0, pipe |-> "", in |-> "", out |-> ""])

(* nn_sinproc_connect *)
nn_sinproc_connect(s, q, to) ==
  RaiseTo([s EXCEPT !.sess[q].st = "CONNECTING"], <<q, "connect">>, to, "CONNECT", q)

(* nn_sinproc_accept *)
nn_sinproc_accept(s, q, p) ==
  IF s.sess[q].peer # None \/ s.sess[q].st # "IDLE" THEN Bad(s)
  ELSE RaiseTo([s EXCEPT !.sess[q] = [@ EXCEPT !.peer = p, !.st = "READY"]],
               <<q, "connect">>, p, "READY", q)

(* The end of nn_sinproc_shutdown: a session that the peer will not use any *)
(* more waits for its own events.                                           *)
StoppedIfDone(s, q) ==
  IF \/ s.sess[q].st # "STOPPING"
     \/ InQueue(s, <<q, "received">>) \/ InQueue(s, <<q, "disconnect">>) THEN s
  ELSE IF InQueue(s, <<q, "connect">>) \/ InQueue(s, <<q, "sent">>)
  THEN Abort(s, "stops_before_its_events")
  ELSE Raise([s EXCEPT !.sess[q].st = "STOPPED"],
             <<q, "stopped">>, <<"base", s.sess[q].ep>>, "STOPPED", q)

(* nn_sinproc_stop: the STOP branch of nn_sinproc_shutdown_events           *)
nn_sinproc_stop(s, q) ==
  LET p == s.sess[q].peer
      silent == nn_pipebase_stop(s, q) IN
  CASE s.sess[q].st \in {"IDLE", "STOPPING_PEER", "STOPPING", "STOPPED"} -> s
    [] s.sess[q].st = "DISCONNECTED" -> StoppedIfDone([s EXCEPT !.sess[q].st = "STOPPING"], q)
    [] OTHER -> IF p = None THEN Abort(s, "stops_without_peer")
                ELSE RaiseTo([silent EXCEPT !.sess[q].st = "STOPPING_PEER"],
                             <<p, "disconnect">>, p, "DISCONNECT", q)

(* nn_sinproc_shutdown, and nn_sinproc_handler of a session that is active   *)
(* and of one that is not                                                   *)
nn_sinproc_shutdown(s, q, told) ==
  CASE told = "RECEIVED" -> StoppedIfDone(s, q)
    [] s.sess[q].st = "STOPPING_PEER" /\ told = "DISCONNECT" ->
         StoppedIfDone([s EXCEPT !.sess[q].st = "STOPPING"], q)
    [] s.sess[q].st = "STOPPING_PEER" /\ told = "SENT" -> Abort(s, "sent_to_stopping")
    [] OTHER -> Bad(s)

ActiveSession(s, q, told) ==
  CASE told = "SENT" /\ Full(s.sess[q].queue) -> [s EXCEPT !.sess[q].receiving = TRUE]
    [] told = "SENT" /\ ~Full(s.sess[q].queue) ->
         Fetch(IF s.sess[q].queue = <<>> THEN nn_pipebase_received(s, q) ELSE s, q)
    [] told = "RECEIVED" /\ s.sess[q].sending ->
         [nn_pipebase_sent(s, q) EXCEPT !.sess[q].sending = FALSE]
    [] told = "DISCONNECT" ->
         LET p == s.sess[q].peer IN
         RaiseTo([nn_pipebase_stop(s, q) EXCEPT !.sess[q].st = "DISCONNECTED"],
                 <<p, "disconnect">>, p, "DISCONNECT", q)
    [] OTHER -> Bad(s)

nn_sinproc_handler(s, q, e) ==
  LET at == s.sess[q].st
      told == e.type IN
  CASE at \in {"STOPPING_PEER", "STOPPING"} -> nn_sinproc_shutdown(s, q, told)
    [] at = "ACTIVE" -> ActiveSession(s, q, told)
    [] at = "CONNECTING" /\ told = "READY" ->
         LET started == nn_pipebase_start([s EXCEPT !.sess[q].peer = e.from], q) IN
         RaiseTo([started EXCEPT !.sess[q].st = "ACTIVE"],
                 <<q, "connect">>, e.from, "ACCEPTED", q)
    [] at = "READY" /\ told \in {"READY", "ACCEPTED"} ->
         [nn_pipebase_start(s, q) EXCEPT !.sess[q].st = "ACTIVE"]
    [] at = "READY" /\ told = "SENT" -> Abort(s, "sent_before_accepted")
    [] at = "DISCONNECTED" /\ told = "RECEIVED" -> s
    [] OTHER -> Bad(s)

(* nn_sinproc_term: its events are not in a queue, its pipe is stopped.     *)
nn_sinproc_term(s, q) ==
  IF s.sess[q].pipe # "IDLE" \/ s.sess[q].st \notin {"IDLE", "STOPPED"} THEN Bad(s)
  ELSE IF \E name \in {"connect", "sent", "received", "disconnect", "stopped", "in", "out"} :
            InQueue(s, <<q, name>>)
  THEN Abort(s, "frees_queued_event")
  ELSE [s EXCEPT !.sess[q] = [NewSession(@.ep) EXCEPT !.st = "FREED"]]

-----------------------------------------------------------------------------
(* Endpoints.  s.bound: the one bound to the address, 0 if there is none,   *)
(* s.connected: those connected to it.                                      *)

(* nn_epbase_stopped, nn_ep_stopped                                         *)
EpStopped(s, e) ==
  Raise([s EXCEPT !.ep[e].base = "IDLE"], <<<<"ep", e>>, "stopped">>, <<"ep", e>>, "STOPPED", None)

(* A bound endpoint gets a session of its own for the connected endpoint c  *)
(* (a bound of the model: one for each c; a second is AnotherSession).      *)
WithSession(s, e, c) ==
  IF s.sess[<<"b", c>>].st # "NONE" THEN Abort(s, "no_session_left")
  ELSE [s EXCEPT !.sess[<<"b", c>>] = NewSession(e), !.ep[e].sessions = @ \cup {<<"b", c>>}]

(* If c has connected itself to an endpoint bound before, what it gets is a *)
(* session that never has a peer: c does not accept a second connection.    *)
AnotherSession(s, e, c) ==
  RaiseTo([s EXCEPT !.ep[e].lonely = TRUE],
          <<<<"base", c>>, "connect">>, <<"base", c>>, "CONNECT", <<"b", c>>)

nn_binproc_connect(s, e, c) ==
  LET u == WithSession(s, e, c) IN
  IF s.ep[c].base # "DISCONNECTED" THEN AnotherSession(s, e, c)
  ELSE IF u.abort # "no" THEN u ELSE nn_sinproc_connect(u, <<"b", c>>, <<"base", c>>)

(* nn_cinproc_connect: the session connects to the bound endpoint b.        *)
nn_cinproc_connect(s, e, b) ==
  nn_sinproc_connect([s EXCEPT !.ep[e].base = "ACTIVE"], <<"c", e>>, <<"base", b>>)

(* The repository.  The address is not in use when an endpoint is bound; of *)
(* those connected to it none may have been found by a bind before.         *)
Found(s, e, c) ==
  IF s.ep[c].connects THEN Abort(s, "address_bound_again")
  ELSE nn_binproc_connect([s EXCEPT !.ep[c].connects = TRUE], e, c)

nn_ins_bind(s, e) ==
  ForEach(s.connected, LAMBDA u, c : Found(u, e, c), [s EXCEPT !.bound = e])

nn_ins_connect(s, e) ==
  LET u == [s EXCEPT !.connected = @ \cup {e}] IN
  IF s.bound = 0 THEN u ELSE nn_cinproc_connect(u, e, s.bound)

(* Mutant: the endpoint stays in the list.                                  *)
Mutant_ins_disconnect(s, e) == s

nn_ins_unbind(s) == [s EXCEPT !.bound = 0]
nn_ins_disconnect(s, e) == [s EXCEPT !.connected = @ \ {e}]

nn_binproc_create(s, e) == nn_ins_bind([s EXCEPT !.ep[e].base = "ACTIVE"], e)

nn_cinproc_create(s, e) ==
  nn_ins_connect([s EXCEPT !.ep[e].base = "DISCONNECTED", !.sess[<<"c", e>>] = NewSession(e)], e)

(* The ends of nn_binproc_shutdown and of nn_cinproc_shutdown               *)
BinprocStopped(s, e) == IF s.ep[e].sessions = {} THEN EpStopped(s, e) ELSE s
CinprocStopped(s, e) ==
  IF s.sess[<<"c", e>>].st \in {"IDLE", "STOPPED"} /\ ~InQueue(s, <<<<"c", e>>, "stopped">>)
  THEN EpStopped(s, e) ELSE s

(* A session without a peer cannot be stopped.                              *)
nn_binproc_stop(s, e) ==
  LET u == ForEach({q[2] : q \in s.ep[e].sessions},
                   LAMBDA v, c : nn_sinproc_stop(v, <<"b", c>>),
                   [nn_ins_unbind(s) EXCEPT !.ep[e].base = "STOPPING"]) IN
  IF s.ep[e].lonely THEN Abort(u, "stops_without_peer") ELSE BinprocStopped(u, e)

nn_cinproc_stop(s, e) ==
  CinprocStopped(nn_sinproc_stop([nn_ins_disconnect(s, e) EXCEPT !.ep[e].base = "STOPPING"],
                                 <<"c", e>>), e)

(* nn_binproc_handler, nn_binproc_shutdown                                  *)
nn_binproc_handler(s, e, v) ==
  CASE s.ep[e].base = "ACTIVE" /\ v.type = "CONNECT" ->
         LET u == WithSession(s, e, v.from[2]) IN
         IF u.abort # "no" THEN u ELSE nn_sinproc_accept(u, <<"b", v.from[2]>>, v.from)
    [] s.ep[e].base = "STOPPING" /\ v.type = "STOPPED" ->
         BinprocStopped([nn_sinproc_term(s, v.from) EXCEPT !.ep[e].sessions = @ \ {v.from}], e)
    [] s.ep[e].base = "STOPPING" /\ v.type = "CONNECT" -> Abort(s, "connects_to_stopping")
    [] OTHER -> Bad(s)

(* nn_cinproc_handler, nn_cinproc_shutdown                                  *)
nn_cinproc_handler(s, e, v) ==
  CASE s.ep[e].base = "DISCONNECTED" /\ v.type = "CONNECT" ->
         nn_sinproc_accept([s EXCEPT !.ep[e].base = "ACTIVE"], <<"c", e>>, v.from)
    [] s.ep[e].base = "ACTIVE" /\ v.type = "CONNECT" -> Abort(s, "address_bound_again")
    [] s.ep[e].base = "STOPPING" -> CinprocStopped(s, e)
    [] OTHER -> Bad(s)

nn_ep_stop(s, e) ==
  IF s.ep[e].st # "ACTIVE" THEN s
  ELSE [IF s.ep[e].kind = "bind" THEN nn_binproc_stop(s, e) ELSE nn_cinproc_stop(s, e)
          EXCEPT !.ep[e].st = "STOPPING"]

(* nn_ep_shutdown: the transport has stopped, the socket is told.           *)
nn_ep_handler(s, e) ==
  IF s.ep[e].st # "STOPPING" THEN Bad(s)
  ELSE Raise([s EXCEPT !.ep[e].st = "IDLE"],
             <<<<"ep", e>>, "stopped">>, <<"sock", s.ep[e].sock>>, "EP_STOPPED", <<"ep", e>>)

(* nn_ep_term, with nn_binproc_destroy or nn_cinproc_destroy                *)
nn_ep_term(s, e) ==
  LET u == IF s.ep[e].kind = "bind" THEN s ELSE nn_sinproc_term(s, <<"c", e>>) IN
  IF s.ep[e].st # "IDLE" \/ s.ep[e].sessions # {} THEN Bad(s)
  ELSE [u EXCEPT !.ep[e] = [@ EXCEPT !.st = "FREED", !.kind = "none"]]
=============================================================================
