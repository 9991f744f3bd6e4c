------------------------- MODULE NnGlobalProperties -------------------------
(***************************************************************************)
(* What the sockets of a process promise the threads that use them.        *)
(***************************************************************************)
EXTENDS NnGlobal

(* Why the process may have aborted                                         *)
Why == {"no", "unexpected", "event_raised_twice", "uses_freed_object", "second_pair_connection",
        "stops_before_its_events", "stops_without_peer", "sent_before_accepted",
        "sent_to_stopping", "frees_queued_event", "address_bound_again", "connects_to_stopping",
        "event_of_removed_pipe", "event_of_zombie", "pipe_event_at_close", "terminated_twice",
        "terminated_at_close", "unsignalled_efd", "counts_on_closed_socket", "event_to_freed",
        "closed_under_call", "uses_freed_socket", "uses_closed_protocol", "out_of_rounds",
        "event_overwritten", "no_session_left"}

(* Every part of the process is of its type: the table of sockets, the      *)
(* sockets, endpoints and sessions (structs of global.c, sock.c, ep.c,      *)
(* sinproc.c).                                                              *)
NnGlobalTypeOK ==
  /\ p.abort \in Why /\ p.glock \in Thread \cup {NoThread} /\ p.nsocks \in 0 .. MaxSlots
  /\ p.table \in [SlotNumber -> Socket \cup {0}] /\ p.unused \in [SlotNumber -> SlotNumber]
  /\ \A o \in Socket :
       /\ p.sock[o].st \in {"NONE", "ACTIVE", "ZOMBIE", "STOPPING_EPS", "CLOSED", "FREED"}
       /\ p.sock[o].flags \subseteq Way /\ p.sock[o].efd \subseteq Way
       /\ p.sock[o].excl \in [{"pipe", "inpipe", "outpipe"} -> Session \cup {None}]
       /\ p.sock[o].lock \in Thread \cup {NoThread}
  /\ \A e \in Endpoint : p.ep[e].st \in {"NONE", "ACTIVE", "STOPPING", "IDLE", "FREED"}
  /\ \A q \in Session : p.sess[q].peer \in Session \cup {None}

(* The stack of unused descriptors holds each descriptor that is not in use *)
(* once, and each open socket has one descriptor.                           *)
SlotsConsistent ==
  LET free == [n \in 1 .. MaxSlots - p.nsocks |-> p.unused[n]] IN
  /\ {i \in SlotNumber : p.table[i] = 0} = {free[n] : n \in DOMAIN free}
  /\ Cardinality({free[n] : n \in DOMAIN free}) = Len(free)
  /\ \A o \in Socket : p.sock[o].st \notin {"NONE", "FREED"}
                       => Cardinality({i \in SlotNumber : p.table[i] = o}) = 1

(* A thread that polls a socket sees what the socket can do: an efd is      *)
(* signalled when, and only when, a message waits or one can be sent.       *)
ReadyIsSignalled ==
  p.abort = "no" =>
    \A o \in Socket :
      LET q == p.sock[o].excl.pipe IN
      p.sock[o].st = "ACTIVE" =>
        IF q = None THEN p.sock[o].efd = {}
        ELSE /\ "IN" \in p.sock[o].efd <=> p.sess[q].queue # <<>>
             /\ "OUT" \in p.sock[o].efd <=> ~p.sess[q].sending

(* Messages of a connection are received in the order they were sent in,    *)
(* each once, and those not received yet are all under way.                 *)
StreamKept ==
  \A q \in Session :
    LET from == p.sess[q].peer IN
    p.abort = "no" /\ from # None /\ "FREED" \notin {p.sess[q].st, p.sess[from].st}
    => p.sess[q].queue \o p.sess[from].msg
       = [n \in 1 .. p.sess[from].sent - p.sess[q].got |-> p.sess[q].got + n]

(* A socket that is freed leaves nothing: its endpoints and their sessions  *)
(* are freed and nobody finds them by their address.                        *)
FreedLeavesNothing ==
  \A e \in Endpoint :
    p.ep[e].sock # 0 /\ p.sock[p.ep[e].sock].st = "FREED"
    => /\ p.ep[e].st = "FREED" /\ p.bound # e /\ e \notin p.connected
       /\ \A q \in Session : p.sess[q].ep = e => p.sess[q].st \in {"NONE", "FREED"}

(* A program whose calls do not overlap is never aborted by an assertion    *)
(* of the library, except where it connects a PAIR socket twice, binds an   *)
(* address again while an endpoint that was connected to it is there, or    *)
(* goes on after nn_term.  Calls that overlap may be aborted, but not by an *)
(* event that is used twice or freed while it is under way (fsm.c), nor by  *)
(* a pipe that is gone (excl.c) or an efd that should have been signalled   *)
(* (sock.c).  And no call needs more than the model has: sessions, and the  *)
(* rounds it gives nn_ctx_leave.                                            *)
SequentialUseIsSafe ==
  /\ p.abort \notin {"event_raised_twice", "event_overwritten", "uses_freed_object",
                     "frees_queued_event", "event_of_removed_pipe", "unsignalled_efd",
                     "out_of_rounds", "no_session_left"}
  /\ \/ p.abort = "no" \/ p.overlap
     \/ p.abort \in {"second_pair_connection", "address_bound_again"}
     \/ (p.term /\ p.abort \in {"event_of_zombie", "terminated_twice"})

InCall(t) == p.th[t] # NoCall
Polls(t) == p.th[t].at = "poll"

(* Thread u has to get the context of socket o before it can go on.         *)
NeedsContext(u, o) ==
  \/ p.hand[u] # <<>> /\ ~Lost(p.hand[u][1]) /\ SocketOf(p, p.hand[u][1].to) = o
  \/ /\ Delivered(u)
     /\ \/ p.th[u].at \in {"enter", "again"} /\ Target(u) = o
        \/ p.th[u].at = "zombify" /\ Left(u) # {} /\ p.table[FirstIn(Left(u))] = o
        \/ p.th[u].at = "sem" /\ p.th[u].o = o /\ p.sock[o].sem

(* Two threads wait for each other: nn_setsockopt keeps the context of its  *)
(* socket while it waits for the global lock, whose owner waits for that    *)
(* context.                                                                 *)
LockCycle ==
  \E t, u \in Thread, o \in Socket :
    p.sock[o].lock = t /\ p.glock = u /\ u # t /\ NeedsContext(u, o)
Stuck == p.abort # "no" \/ LockCycle

(* A call returns or polls for a message: nn_close is woken when the        *)
(* endpoints of the socket have stopped, and events that are left to a      *)
(* thread do not keep it, unless two threads wait for each other's lock.    *)
CallsReturn ==
  \A t \in Thread : (InCall(t) /\ ~Polls(t)) ~> (Stuck \/ ~InCall(t) \/ Polls(t))

OfOpenSocket(t) == p.sock[p.th[t].o].st \in {"ACTIVE", "ZOMBIE"}

(* After nn_term a thread that polls an open socket gets out of its call    *)
(* (ETERM): both efds are signalled and stay so.  One that polls a socket   *)
(* another thread closes may poll for ever.                                 *)
TermUnblocks ==
  \A t \in Thread :
    (p.term /\ Polls(t)) ~> (Stuck \/ ~InCall(t) \/ (Polls(t) /\ ~OfOpenSocket(t)))
=============================================================================
