------------------------------ MODULE NnGlobal ------------------------------
(***************************************************************************)
(* The sockets of a process and the threads that use them: the library's   *)
(* table of sockets under its global lock (core/global.c), and the calls   *)
(* on a socket, each in the socket's context (core/sock.c).  The sockets   *)
(* are PAIR sockets connected within the process (NnInproc).               *)
(***************************************************************************)
EXTENDS NnInproc, FiniteSetsExt

CONSTANTS Thread,
          NoThread,
          May,          \* the calls each thread makes
          OptionSlots,  \* the sockets it sets options of
          MaxSlots,     \* NN_MAX_SOCKETS
          MaxMessages,  \* messages of the connections that there are
          MaxRounds     \* events a context handles before it is left

Calls == {"socket", "bind", "connect", "close", "shutdown", "setsockopt", "send", "recv",
          "try_send", "try_recv", "term"}

ASSUME GlobalBounds ==
  /\ NoThread \notin Thread /\ May \in [Thread -> SUBSET Calls]
  /\ MaxSlots \in Nat \ {0} /\ MaxMessages \in Nat /\ MaxRounds \in Nat
  /\ OptionSlots \subseteq 1 .. MaxSlots

(***************************************************************************)
(* p is the process.  Of a socket: its state st, its efds that are         *)
(* signalled (efd) and those it thinks are (flags), the pipe it has and    *)
(* what it can do with it now (excl), its endpoints in use and             *)
(* stopping (eps, sdeps), the semaphore nn_close waits on (sem), and the   *)
(* thread that keeps its context while it waits for the global lock        *)
(* (lock).  All else a thread does in a context is one step.  th[t] is the *)
(* call of thread t and the place it has reached.  overlap tells whether a *)
(* call that makes or ends connections has overlapped another call.        *)
(***************************************************************************)
VARIABLE p

SlotNumber == 1 .. MaxSlots
Way == {"IN", "OUT"}
FirstIn(S) == CHOOSE x \in S : \A y \in S : x <= y

-----------------------------------------------------------------------------
(* A socket's machine                                                       *)

(* NN_EP_STOPPED *)
EpTerm(s, o, v) ==
  nn_ep_term([s EXCEPT !.sock[o].sdeps = @ \ {v.from[2]}], v.from[2])

(* Mutant: nobody is woken.                                                 *)
MutantSilent(s, o) ==
  LET k == s.sock[o] IN
  IF k.sdeps # {} THEN s
  ELSE IF k.eps # {} \/ k.excl # nn_excl_init THEN Bad(s)
  ELSE [s EXCEPT !.sock[o].st = "CLOSED"]

(* The end of nn_sock_shutdown: the thread in nn_close is woken.            *)
SockStopped(s, o) ==
  LET k == s.sock[o] IN
  IF k.sdeps # {} THEN s
  ELSE IF k.eps # {} \/ k.excl # nn_excl_init THEN Bad(s)
  ELSE [s EXCEPT !.sock[o].st = "CLOSED", !.sock[o].sem = TRUE]

(* nn_sock_shutdown, when the socket is asked to stop: the efds are closed, *)
(* the endpoints stop.                                                      *)
nn_sock_stop(s, o) ==
  LET k == s.sock[o] IN
  IF k.st \notin {"ACTIVE", "ZOMBIE"} THEN s
  ELSE SockStopped(ForEach(k.eps, nn_ep_stop,
                           [s EXCEPT !.sock[o] = [@ EXCEPT !.st = "STOPPING_EPS", !.efd = {},
                                                           !.eps = {}, !.sdeps = k.sdeps \cup k.eps]]),
                   o)

(* nn_sock_handler, nn_sock_shutdown                                        *)
SockHandler(s, o, v) ==
  LET k == s.sock[o] IN
  CASE k.st = "ACTIVE" /\ v.type = "EP_STOPPED" -> EpTerm(s, o, v)
    [] k.st = "ACTIVE" /\ v.type = "IN"  -> nn_excl_in(s, o, v.from)
    [] k.st = "ACTIVE" /\ v.type = "OUT" -> nn_excl_out(s, o, v.from)
    [] k.st = "ZOMBIE" -> Abort(s, "event_of_zombie")
    [] k.st = "STOPPING_EPS" /\ v.type = "EP_STOPPED" -> SockStopped(EpTerm(s, o, v), o)
    [] k.st = "STOPPING_EPS" /\ v.type \in Way -> Abort(s, "pipe_event_at_close")
    [] OTHER -> Bad(s)

(* Mutant: those who poll the socket are not told.                          *)
Mutant_sock_zombify(s, o) ==
  CASE s.sock[o].st = "ACTIVE" -> [s EXCEPT !.sock[o] = [@ EXCEPT !.st = "ZOMBIE", !.flags = Way]]
    [] s.sock[o].st = "ZOMBIE" -> Abort(s, "terminated_twice")
    [] OTHER                   -> Abort(s, "terminated_at_close")

(* nn_sock_action_zombify *)
nn_sock_zombify(s, o) ==
  LET k == s.sock[o] IN
  CASE k.st = "ACTIVE" -> [s EXCEPT !.sock[o] = [@ EXCEPT !.st = "ZOMBIE", !.flags = Way,
                                                          !.efd = k.efd \cup (Way \ k.flags)]]
    [] k.st = "ZOMBIE" -> Abort(s, "terminated_twice")
    [] OTHER           -> Abort(s, "terminated_at_close")

-----------------------------------------------------------------------------
(* Contexts (aio/ctx.c)                                                     *)

Handle(s, v) ==
  LET n == v.to[2] IN
  CASE v.to[1] = "sock" -> SockHandler(s, n, v)
    [] v.to[1] = "ep"   -> nn_ep_handler(s, n)
    [] v.to[1] = "base" -> IF s.ep[n].kind = "bind" THEN nn_binproc_handler(s, n, v)
                           ELSE nn_cinproc_handler(s, n, v)
    [] OTHER            -> nn_sinproc_handler(s, v.to, v)

(* The first event of the context's queue is handled.                       *)
NextEvent(s) ==
  IF s.events = <<>> \/ s.abort # "no" THEN s
  ELSE Handle([s EXCEPT !.events = Tail(@)], Head(s.events))

(* The events of a context are handled until there is none (MaxRounds bounds *)
(* them: no context that the runs reach has as many).                       *)
Drained(s) ==
  LET run[n \in 0 .. MaxRounds] == IF n = 0 THEN s ELSE NextEvent(run[n - 1])
      u == run[MaxRounds] IN
  IF u.events = <<>> THEN u ELSE Abort(u, "out_of_rounds")

(* Mutant: an efd stays signalled.                                          *)
Mutant_sock_onleave(s, o) ==
  LET k == s.sock[o]
      events == nn_xpair_events(s, o) IN
  IF k.st # "ACTIVE" THEN s
  ELSE [s EXCEPT !.sock[o].flags = @ \cup events, !.sock[o].efd = @ \cup events]

(* The efds show what the pipe can do.                                      *)
nn_sock_onleave(s, o) ==
  LET k == s.sock[o]
      events == nn_xpair_events(s, o) IN
  IF k.st # "ACTIVE" THEN s
  ELSE IF ~ (k.flags \ events) \subseteq k.efd THEN Abort(s, "unsignalled_efd")
  ELSE [s EXCEPT !.sock[o].flags = events,
                 !.sock[o].efd = (@ \cup (events \ k.flags)) \ (k.flags \ events)]

(* A call that has nothing more to do returns, and leaves the global lock.  *)
(* nn_sendmsg counts the message on the socket that then is in its slot.    *)
NoCall == [call |-> "none", at |-> "none", slot |-> 0, o |-> 0, wait |-> FALSE]

Settled(s, t) ==
  IF s.th[t].at \notin {"return", "sent"} \/ s.pend[t] # <<>> \/ s.hand[t] # <<>> THEN s
  ELSE IF s.th[t].at = "sent" /\ s.table[s.th[t].slot] = 0
  THEN Abort(s, "counts_on_closed_socket")
  ELSE [s EXCEPT !.th[t] = NoCall, !.glock = IF @ = t THEN NoThread ELSE @]

(* nn_ctx_leave: what was raised for other contexts is delivered, before    *)
(* what the thread still has to deliver.                                    *)
nn_ctx_leave(s, t, o) ==
  LET u == nn_sock_onleave(Drained(s), o) IN
  Settled([u EXCEPT !.pend[t] = u.eventsto \o @, !.eventsto = <<>>], t)

Running(t, at) == p.abort = "no" /\ p.th[t].at = at
Delivered(t) == p.pend[t] = <<>> /\ p.hand[t] = <<>>

-----------------------------------------------------------------------------
(* What a thread does next                                                  *)

WithThread(s, t, at) == [s EXCEPT !.th[t].at = at]
Returned(s, t, o) == nn_ctx_leave(WithThread(s, t, "return"), t, o)

(* nn_ctx_leave takes the next event from its queue, and handles it in its   *)
(* context.                                                                 *)
CanTake(t) == p.abort = "no" /\ p.hand[t] = <<>> /\ p.pend[t] # <<>>
Take(t) ==
  /\ CanTake(t)
  /\ p' = [p EXCEPT !.hand[t] = <<Head(p.pend[t])>>, !.pend[t] = Tail(@)]

Lost(v) == IsFreed(p, v.to) \/ IsFreed(p, v.slot[1])
CanDeliver(t) ==
  /\ p.abort = "no" /\ p.hand[t] # <<>>
  /\ \A v \in {p.hand[t][1]} : Lost(v) \/ p.sock[SocketOf(p, v.to)].lock = NoThread
Deliver(t) ==
  LET v == p.hand[t][1] IN
  /\ CanDeliver(t)
  /\ p' = IF Lost(v) THEN Abort(p, "event_to_freed")
          ELSE nn_ctx_leave(Handle([p EXCEPT !.hand[t] = <<>>], v), t, SocketOf(p, v.to))

-----------------------------------------------------------------------------
(* Sockets are made and calls begin                                         *)

NewSocket ==
  [st |-> "ACTIVE", flags |-> {}, efd |-> {}, sem |-> FALSE, eps |-> {}, sdeps |-> {},
   excl |-> nn_excl_init, optset |-> FALSE, lock |-> NoThread]

(* The table when the library is initialised (nn_global_init).              *)
Fresh == [n \in SlotNumber |-> MaxSlots - n + 1]

(* Mutant: the socket is not counted.                                       *)
Mutant_global_create_socket(o) ==
  [p EXCEPT !.sock[o] = NewSocket, !.table[p.unused[MaxSlots - p.nsocks]] = o]

(* The new socket gets the descriptor on top of the stack.                  *)
nn_global_create_socket(o) ==
  [p EXCEPT !.sock[o] = NewSocket, !.nsocks = @ + 1, !.table[p.unused[MaxSlots - p.nsocks]] = o]

nn_socket(t) ==
  LET new == {o \in Socket : p.sock[o].st = "NONE"} IN
  /\ p.abort = "no" /\ p.th[t] = NoCall /\ "socket" \in May[t] /\ new # {}
  /\ p.glock = NoThread /\ ~p.term /\ p.nsocks < MaxSlots
  /\ p' = nn_global_create_socket(FirstIn(new))

Disruptive == {"bind", "connect", "close", "shutdown", "term"}
Overlaps(t, call) ==
  \E u \in Thread \ {t} :
    p.th[u] # NoCall /\ {call, p.th[u].call} \cap Disruptive # {}

(* NN_BASIC_CHECKS.  Calls that need no global lock read the table once     *)
(* more, now or when they enter the context.                                *)
Begin(t, i, call, at, wait) ==
  /\ p.abort = "no" /\ p.th[t] = NoCall /\ p.table[i] # 0
  /\ (IF ~wait /\ call \in {"send", "recv"} THEN "try_" \o call ELSE call) \in May[t]
  /\ \E o \in IF at = "glock" THEN {0} ELSE {0, p.table[i]} :
       p' = [p EXCEPT !.th[t] = [call |-> call, at |-> at, slot |-> i, o |-> o, wait |-> wait],
                      !.overlap = @ \/ Overlaps(t, call)]

NewEndpoints == {e \in Endpoint : p.ep[e].st = "NONE"}
Begins(calls) == Cardinality({t \in Thread : p.th[t].call \in calls})

nn_bind(t, i) == Cardinality(NewEndpoints) > Begins({"bind", "connect"})
                 /\ Begin(t, i, "bind", "glock", FALSE)
nn_connect(t, i) == Cardinality(NewEndpoints) > Begins({"bind", "connect"})
                    /\ Begin(t, i, "connect", "glock", FALSE)
nn_close(t, i) == Begin(t, i, "close", "glock", FALSE)
nn_shutdown(t, i) == Begin(t, i, "shutdown", "enter", FALSE)
(* Options are set until one has been (a bound).                            *)
nn_setsockopt(t, i) ==
  /\ i \in OptionSlots /\ p.table[i] # 0 /\ ~p.sock[p.table[i]].optset
  /\ Begin(t, i, "setsockopt", "enter", FALSE)
nn_send(t, i, wait) == MapThenSumSet(LAMBDA q : p.sess[q].sent, Session) < MaxMessages
                       /\ Begin(t, i, "send", "enter", wait)
nn_recv(t, i, wait) == Begin(t, i, "recv", "enter", wait)

(* nn_term.  Nothing takes its flag back.                                   *)
nn_term(t) ==
  /\ p.abort = "no" /\ p.th[t] = NoCall /\ "term" \in May[t]
  /\ p' = [p EXCEPT !.th[t] = [NoCall EXCEPT !.call = "term", !.at = "glock"],
                    !.overlap = @ \/ Overlaps(t, "term")]

(* nn_glock_lock *)
CanLockGlobal(t, at) == Running(t, at) /\ p.glock = NoThread
LockGlobal(t) ==
  /\ CanLockGlobal(t, "glock")
  /\ p' = IF p.th[t].call # "term" THEN [WithThread(p, t, "enter") EXCEPT !.glock = t]
          ELSE [p EXCEPT !.glock = t, !.term = TRUE,
                         !.th[t] = [@ EXCEPT !.at = "zombify", !.slot = 1]]

(* The rest of nn_term: the sockets in the order of the table.              *)
Left(t) == {i \in SlotNumber : i >= p.th[t].slot /\ p.table[i] # 0}
CanZombify(t) ==
  /\ Running(t, "zombify") /\ Delivered(t)
  /\ Left(t) # {} => p.sock[p.table[FirstIn(Left(t))]].lock = NoThread
Zombify(t) ==
  LET i == FirstIn(Left(t))
      o == p.table[i] IN
  /\ CanZombify(t)
  /\ p' = IF Left(t) = {} THEN Settled(WithThread(p, t, "return"), t)
          ELSE nn_ctx_leave(nn_sock_zombify([p EXCEPT !.th[t].slot = i + 1], o), t, o)

-----------------------------------------------------------------------------
(* A call in the context of its socket                                      *)

Target(t) == IF p.th[t].o # 0 THEN p.th[t].o ELSE p.table[p.th[t].slot]

CanEnter(t) ==
  /\ p.abort = "no" /\ p.th[t].at \in {"enter", "again"} /\ Delivered(t)
  /\ Target(t) # 0 => p.sock[Target(t)].lock = NoThread
Enters(t, calls) == CanEnter(t) /\ p.th[t].call \in calls

(* A socket that is closed is not in the table, or it is freed.             *)
Closed(t) == Target(t) \notin {o \in Socket : p.sock[o].st # "FREED"}
EnterClosed(t) ==
  /\ CanEnter(t) /\ Closed(t)
  /\ p' = Abort(p, IF Target(t) = 0 THEN "closed_under_call" ELSE "uses_freed_socket")

nn_ep_init(o, kind) ==
  [sock |-> o, kind |-> kind, st |-> "ACTIVE", base |-> "IDLE", sessions |-> {},
   connects |-> FALSE, lonely |-> FALSE]

(* A new endpoint is started; an address that is in use is refused.         *)
nn_sock_add_ep(s, o, e, kind) ==
  LET made == [s EXCEPT !.ep[e] = nn_ep_init(o, kind), !.sock[o].eps = @ \cup {e}] IN
  CASE kind = "bind" /\ s.bound # 0 -> s
    [] kind = "bind" /\ s.bound = 0 -> nn_binproc_create(made, e)
    [] kind = "connect"             -> nn_cinproc_create(made, e)

nn_global_create_ep(t) ==
  /\ Enters(t, {"bind", "connect"}) /\ ~Closed(t) /\ NewEndpoints # {}
  /\ p' = Returned(nn_sock_add_ep(p, Target(t), FirstIn(NewEndpoints), p.th[t].call),
                   t, Target(t))

(* nn_sock_rm_ep of an endpoint of the socket, or of none                   *)
nn_sock_rm_ep(t) ==
  LET o == Target(t) IN
  /\ Enters(t, {"shutdown"}) /\ ~Closed(t)
  /\ \/ p' = Returned(p, t, o)
     \/ \E e \in p.sock[o].eps :
          p' = Returned(nn_ep_stop([p EXCEPT !.sock[o].eps = @ \ {e},
                                             !.sock[o].sdeps = @ \cup {e}], e), t, o)

(* nn_sock_setopt of an option of the socket, or of a transport             *)
(* (nn_sock_optset)                                                         *)
nn_sock_setopt(t) ==
  LET o == Target(t)
      k == p.sock[o] IN
  /\ Enters(t, {"setsockopt"}) /\ ~Closed(t)
  /\ \/ p' = Returned(p, t, o)
     \/ /\ k.st # "ZOMBIE" /\ ~k.optset
        /\ p' = [p EXCEPT !.sock[o].lock = t, !.th[t] = [@ EXCEPT !.at = "transport", !.o = o]]

(* nn_global_transport *)
nn_sock_optset(t) ==
  LET o == p.th[t].o IN
  /\ CanLockGlobal(t, "transport")
  /\ p' = Returned([p EXCEPT !.sock[o].optset = TRUE, !.sock[o].lock = NoThread], t, o)

(* nn_sock_send and nn_sock_recv.  Again after a poll, what the efd shows   *)
(* is noted.                                                                *)
WayOf(t) == IF p.th[t].call = "send" THEN "OUT" ELSE "IN"

Checked(t) ==
  LET o == Target(t) IN
  IF p.th[t].at = "again" /\ WayOf(t) \in p.sock[o].efd
  THEN [p EXCEPT !.sock[o].flags = @ \cup {WayOf(t)}] ELSE p

(* NN_DONTWAIT, or the poll that follows                                    *)
TryAgain(s, t, o) ==
  IF p.th[t].wait THEN nn_ctx_leave([s EXCEPT !.th[t] = [@ EXCEPT !.at = "poll", !.o = o]], t, o)
  ELSE Returned(s, t, o)

(* nn_sendmsg is counted in a context entered once more.                    *)
nn_sock_send(t) ==
  LET s == Checked(t)
      o == Target(t) IN
  /\ Enters(t, {"send"}) /\ ~Closed(t)
  /\ p' = CASE s.sock[o].st = "ZOMBIE" -> Returned(s, t, o)
            [] s.sock[o].st = "CLOSED" -> Abort(s, "uses_closed_protocol")
            [] OTHER ->
                 IF s.sock[o].excl.outpipe = None THEN TryAgain(s, t, o)
                 ELSE nn_ctx_leave(nn_excl_send(WithThread(s, t, "sent"), o), t, o)

nn_sock_recv(t) ==
  LET s == Checked(t)
      o == Target(t) IN
  /\ Enters(t, {"recv"}) /\ ~Closed(t)
  /\ p' = CASE s.sock[o].st = "ZOMBIE" -> Returned(s, t, o)
            [] s.sock[o].st = "CLOSED" -> Abort(s, "uses_closed_protocol")
            [] OTHER ->
                 IF s.sock[o].excl.inpipe = None THEN TryAgain(s, t, o)
                 ELSE Returned(nn_excl_recv(s, o), t, o)

(* nn_efd_wait: the efd is signalled, or there is a signal or a timeout.    *)
CanPoll(t) ==
  Running(t, "poll") /\ Delivered(t) /\ WayOf(t) \in p.sock[p.th[t].o].efd
PollReady(t) ==
  /\ CanPoll(t)
  /\ p' = WithThread(p, t, "again")

PollInterrupted(t) ==
  /\ Running(t, "poll") /\ Delivered(t)
  /\ p' = Settled(WithThread(p, t, "return"), t)

-----------------------------------------------------------------------------
(* nn_sock_term, in nn_close                                                *)

nn_sock_term(t) ==
  LET o == Target(t) IN
  /\ Enters(t, {"close"}) /\ ~Closed(t)
  /\ p' = nn_ctx_leave(nn_sock_stop([p EXCEPT !.th[t] = [@ EXCEPT !.at = "sem", !.o = o]], o), t, o)

(* The library is reset after its last socket (nn_ins_term).                *)
nn_global_term(s) ==
  IF s.nsocks # 0 THEN s
  ELSE IF s.bound # 0 \/ s.connected # {} THEN Bad(s) ELSE [s EXCEPT !.unused = Fresh]

(* The descriptor i is free again.                                          *)
MutantPushed(i) == [p.unused EXCEPT ![MaxSlots - p.nsocks] = i]
Pushed(i) == [p.unused EXCEPT ![MaxSlots - p.nsocks + 1] = i]

(* The socket is freed, and its descriptor.                                 *)
CanFree(t) ==
  /\ Running(t, "sem") /\ Delivered(t)
  /\ p.sock[p.th[t].o].sem /\ p.sock[p.th[t].o].lock = NoThread
SemPosted(t) ==
  LET o == p.th[t].o
      i == p.th[t].slot
      u == [p EXCEPT !.sock[o] = [NewSocket EXCEPT !.st = "FREED"],
                     !.table[i] = 0, !.nsocks = @ - 1,
                     !.unused = Pushed(i)] IN
  /\ CanFree(t)
  /\ p' = IF p.sock[o].eps # {} \/ p.sock[o].sdeps # {} THEN Bad(p)
          ELSE Settled(WithThread(nn_global_term(u), t, "return"), t)

(* EINTR: nn_close has to be called again.                                  *)
SemInterrupted(t) ==
  /\ Running(t, "sem") /\ Delivered(t) /\ ~p.sock[p.th[t].o].sem
  /\ p' = Settled(WithThread(p, t, "return"), t)

-----------------------------------------------------------------------------
Init ==
  p = [abort |-> "no", overlap |-> FALSE, glock |-> NoThread, term |-> FALSE,
       table |-> [i \in SlotNumber |-> 0], unused |-> Fresh, nsocks |-> 0,
       th |-> [t \in Thread |-> NoCall],
       pend |-> [t \in Thread |-> <<>>], hand |-> [t \in Thread |-> <<>>],
       events |-> <<>>, eventsto |-> <<>>, bound |-> 0, connected |-> {},
       ep |-> [e \in Endpoint |-> [sock |-> 0, kind |-> "none", st |-> "NONE", base |-> "IDLE",
                                   sessions |-> {}, connects |-> FALSE, lonely |-> FALSE]],
       sess |-> [q \in Session |-> [NewSession(q[2]) EXCEPT !.st = "NONE"]],
       sock |-> [o \in Socket |-> [NewSocket EXCEPT !.st = "NONE"]]]

(* What a thread does in a call, with a mutex or on its own                 *)
Locks(t) ==
  \/ Deliver(t) \/ LockGlobal(t) \/ Zombify(t) \/ EnterClosed(t) \/ nn_global_create_ep(t)
  \/ nn_sock_rm_ep(t) \/ nn_sock_setopt(t) \/ nn_sock_optset(t) \/ nn_sock_send(t)
  \/ nn_sock_recv(t) \/ nn_sock_term(t) \/ SemPosted(t)
CanLock(t) ==
  \/ CanDeliver(t) \/ CanLockGlobal(t, "glock") \/ CanLockGlobal(t, "transport")
  \/ CanZombify(t) \/ CanEnter(t) \/ CanFree(t)

RunsOn(t) == Take(t) \/ PollReady(t)

(* What the program and the system may do                                   *)
Starts(t) ==
  \/ nn_socket(t) \/ nn_term(t)
  \/ \E i \in SlotNumber :
       \/ nn_bind(t, i) \/ nn_connect(t, i) \/ nn_close(t, i) \/ nn_shutdown(t, i)
       \/ nn_setsockopt(t, i)
       \/ \E wait \in BOOLEAN : nn_send(t, i, wait) \/ nn_recv(t, i, wait)
Interrupted(t) == PollInterrupted(t) \/ SemInterrupted(t)

Next == \E t \in Thread : Locks(t) \/ RunsOn(t) \/ Starts(t) \/ Interrupted(t)

Spec == Init /\ [][Next]_p

(* A thread runs on, gets a mutex that is free again and again, and sees    *)
(* the efd of a socket whose end is near, which stays signalled: these do   *)
(* not go away while a thread waits, or need strong fairness, and whatever  *)
(* a thread can do then is the one thing that moves it.                     *)
MustRun(t) ==
  \/ CanTake(t) \/ CanLock(t)
  \/ CanPoll(t) /\ p.sock[p.th[t].o].st = "ZOMBIE"
Moves(t) ==
  \/ p'.th[t] # p.th[t] \/ p'.pend[t] # p.pend[t] \/ p'.hand[t] # p.hand[t]

FairSpec ==
  /\ Spec
  /\ \A t \in Thread : []<>MustRun(t) => []<><<Moves(t)>>_p
=============================================================================
