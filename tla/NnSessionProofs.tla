--------------------------- MODULE NnSessionProofs --------------------------
(***************************************************************************)
(* The invariant of NnGlobal, for every value of the constants, and that   *)
(* what nanomsg's sessions (sinproc.c), pipes (pipe.c) and the pair        *)
(* protocol (excl.c) do within a context keeps it. A process with the      *)
(* invariant is Good; a change of it that a context may make is a Step,    *)
(* and each function of the model is shown to be one. The second part is   *)
(* about the efds of sockets: each function is also a Turn, which keeps    *)
(* what they owe to the states of the pipes (Led).                         *)
(***************************************************************************)
EXTENDS NnGlobalProperties, WellFoundedInduction, TLAPS

-----------------------------------------------------------------------------
(* Loops of the code as recursive functions                                *)

(* Induction on the natural numbers for a set: one that holds 0 and the    *)
(* successor of each of its members holds them all.                        *)
LEMMA Induction ==
  ASSUME NEW T, 0 \in T, \A n \in Nat : n \in T => n + 1 \in T
  PROVE  Nat \subseteq T
<1> DEFINE Out == Nat \ T
<1> SUFFICES ASSUME Out # {} PROVE FALSE
  OBVIOUS
<1>1. Out \subseteq Nat
  OBVIOUS
<1>2. PICK x \in Out : \A y \in Out : ~ (<<y, x>> \in OpToRel(<, Nat))
  BY <1>1, NatLessThanWellFounded, WFMin
<1>3. x # 0 /\ x \in Nat
  OBVIOUS
<1>4. x - 1 \in Nat /\ x - 1 < x
  BY <1>3
<1>5. <<x - 1, x>> \in OpToRel(<, Nat)
  BY <1>3, <1>4 DEF OpToRel
<1>6. x - 1 \in T
  BY <1>2, <1>4, <1>5
<1>7. (x - 1) + 1 \in T
  BY <1>4, <1>6
<1> QED
  BY <1>3, <1>7

(* F is one round of a loop over numbers on states of S, and f its run of  *)
(* N rounds from b.                                                        *)
LoopBody(F, S) == F \in [S \X Nat -> S]
LoopRun(f, S, b, F, N) ==
  /\ f \in [0 .. N -> S]
  /\ \A n \in 0 .. N : f[n] = IF n = 0 THEN b ELSE F[<<f[n - 1], n>>]

(* A loop whose body stays in S has a run of N rounds in S, so the         *)
(* function that defines it is the one its equation names.                 *)
LEMMA LoopExists ==
  ASSUME NEW S, NEW b \in S, NEW F, NEW N \in Nat, LoopBody(F, S)
  PROVE  \E f : LoopRun(f, S, b, F, N)
<1> USE DEF LoopBody, LoopRun
<1> DEFINE Runs(f, m) ==
             \A n \in 0 .. m : f[n] = IF n = 0 THEN b ELSE F[<<f[n - 1], n>>]
           T == {m \in Nat : \E f \in [0 .. m -> S] : Runs(f, m)}
<1>1. 0 \in T
  <2> DEFINE f == [n \in 0 .. 0 |-> b]
  <2>1. f \in [0 .. 0 -> S] /\ Runs(f, 0)
    OBVIOUS
  <2> QED
    BY <2>1
<1>2. ASSUME NEW m \in Nat, m \in T PROVE m + 1 \in T
  <2>1. PICK f \in [0 .. m -> S] : Runs(f, m)
    BY <1>2
  <2> DEFINE g == [n \in 0 .. m + 1 |-> IF n <= m THEN f[n] ELSE F[<<f[m], m + 1>>]]
  <2>2. \A n \in 0 .. m : f[n] = IF n = 0 THEN b ELSE F[<<f[n - 1], n>>]
    BY <2>1
  <2>3. F[<<f[m], m + 1>>] \in S
    OBVIOUS
  <2>4. g \in [0 .. m + 1 -> S]
    BY <2>3
  <2>5. ASSUME NEW n \in 0 .. m + 1 PROVE g[n] = IF n = 0 THEN b ELSE F[<<g[n - 1], n>>]
    <3>1. CASE n <= m
      <4>1. n \in 0 .. m /\ g[n] = f[n] /\ f[n] = IF n = 0 THEN b ELSE F[<<f[n - 1], n>>]
        BY <3>1, <2>2
      <4>2. n # 0 => g[n - 1] = f[n - 1]
        BY <3>1
      <4> QED
        BY <4>1, <4>2
    <3>2. CASE n = m + 1
      <4>1. g[n] = F[<<f[m], m + 1>>] /\ g[m] = f[m] /\ n # 0 /\ n - 1 = m
        BY <3>2
      <4> QED
        BY <4>1, <3>2
    <3> QED
      BY <3>1, <3>2
  <2>6. Runs(g, m + 1)
    BY <2>5, Zenon
  <2>7. m + 1 \in Nat
    OBVIOUS
  <2> HIDE DEF Runs, g
  <2> QED
    BY <2>4, <2>6, <2>7
<1>3. N \in T
  BY <1>1, <1>2, Induction
<1> QED
  BY <1>3

-----------------------------------------------------------------------------
(* The invariant                                                           *)

(* The other end of the connection of a session.                           *)
Twin(q) == <<IF q[1] = "c" THEN "b" ELSE "c", q[2]>>

(* The types of the parts of a process.                                    *)
SockState == {"NONE", "ACTIVE", "ZOMBIE", "STOPPING_EPS", "CLOSED", "FREED"}
EpState == {"NONE", "ACTIVE", "STOPPING", "IDLE", "FREED"}
BaseState == {"IDLE", "ACTIVE", "DISCONNECTED", "STOPPING"}
SessState == {"NONE", "IDLE", "CONNECTING", "READY", "ACTIVE", "DISCONNECTED", "STOPPING_PEER",
              "STOPPING", "STOPPED", "FREED"}
PipeName == Session \cup {None}

ExclType == [pipe : PipeName, inpipe : PipeName, outpipe : PipeName]
SockType ==
  [st : SockState, flags : SUBSET Way, efd : SUBSET Way, sem : BOOLEAN, eps : SUBSET Endpoint,
   sdeps : SUBSET Endpoint, excl : ExclType, optset : BOOLEAN, lock : Thread \cup {NoThread}]
EpType ==
  [sock : Socket \cup {0}, kind : {"none", "bind", "connect"}, st : EpState, base : BaseState,
   sessions : SUBSET ({"b"} \X Endpoint), connects : BOOLEAN, lonely : BOOLEAN]
SessType ==
  [st : SessState, ep : Endpoint, peer : PipeName, sending : BOOLEAN, receiving : BOOLEAN,
   queue : Seq(Nat), msg : Seq(Nat), sent : Nat, got : Nat, pipe : {"IDLE", "ACTIVE"},
   in : {"none", "ASYNC", "IDLE"}, out : {"none", "ASYNC", "IDLE"}]

(* The receivers of events, and the places of the events in their senders  *)
(* and receivers (struct nn_fsm_event).                                    *)
SocketName == {"sock"} \X (Socket \cup {0})
EndpointName == {"ep"} \X Endpoint
BaseName == {"base"} \X Endpoint

SlotOf(v) ==
  CASE v.type \in {"READY", "ACCEPTED", "CONNECT"} -> <<v.from, "connect">>
    [] v.type = "SENT"       -> <<v.to, "sent">>
    [] v.type = "RECEIVED"   -> <<v.to, "received">>
    [] v.type = "DISCONNECT" -> <<v.to, "disconnect">>
    [] v.type = "IN"         -> <<v.from, "in">>
    [] v.type = "OUT"        -> <<v.from, "out">>
    [] v.type = "STOPPED"    -> <<IF v.to[1] = "ep" THEN v.to ELSE v.from, "stopped">>
    [] v.type = "EP_STOPPED" -> <<v.from, "stopped">>

SlotName == (Session \cup EndpointName)
            \X {"connect", "sent", "received", "disconnect", "in", "out", "stopped"}
EventOf(To, Type, From) ==
  {v \in [slot : SlotName, to : To, type : Type, from : From] : v.slot = SlotOf(v)}

(* The events of a context's own queue (nn_fsm_raise), and those for other *)
(* contexts (nn_fsm_raiseto).                                              *)
OwnEvent ==
  EventOf(SocketName, Way, Session) \cup EventOf(BaseName, {"STOPPED"}, Session)
  \cup EventOf(EndpointName, {"STOPPED"}, {None})
  \cup EventOf(SocketName, {"EP_STOPPED"}, EndpointName)
SessEvent ==
  {v \in EventOf(Session, {"READY", "ACCEPTED", "SENT", "RECEIVED", "DISCONNECT"}, Session) :
     v.from = Twin(v.to)}
(* CONNECT of a bound endpoint's further session, which has the name of    *)
(* the session that has a peer, to an endpoint that has connected itself.  *)
FurtherEvent ==
  {v \in [slot : BaseName \X {"connect"}, to : BaseName, type : {"CONNECT"}, from : Session] :
     v.slot = <<v.to, "connect">>}
ToEvent == SessEvent \cup EventOf(BaseName, {"CONNECT"}, Session) \cup FurtherEvent

(* A thread's call, and the whole process.                                 *)
CallType ==
  [call : Calls \cup {"none"},
   at : {"none", "glock", "enter", "again", "transport", "zombify", "poll", "sem", "sent",
         "return"},
   slot : Nat, o : Socket \cup {0}, wait : BOOLEAN]

ProcType ==
  [abort : Why, overlap : BOOLEAN, glock : Thread \cup {NoThread}, term : BOOLEAN,
   table : [SlotNumber -> Socket \cup {0}], unused : [SlotNumber -> SlotNumber],
   nsocks : 0 .. MaxSlots, th : [Thread -> CallType],
   pend : [Thread -> Seq(ToEvent)], hand : [Thread -> Seq(ToEvent)],
   events : Seq(OwnEvent), eventsto : Seq(ToEvent), bound : Endpoint \cup {0},
   connected : SUBSET Endpoint, ep : [Endpoint -> EpType], sess : [Session -> SessType],
   sock : [Socket -> SockType]]

(* A session or an endpoint that is not made yet or is freed.              *)
Blank(r) == r.st \in {"NONE", "FREED"}

(* A session's peer is the other end of its connection; it has one while   *)
(* it is connected, and none before it is made and after it is freed.      *)
PeerFits(r, q) ==
  /\ r.peer \in {None, Twin(q)}
  /\ r.st \in {"READY", "ACTIVE"} => r.peer = Twin(q)
  /\ Blank(r) => r.peer = None

(* Only an active endpoint has a transport that is active.                 *)
EpFits(r) ==
  /\ r.st = "NONE" => r.kind = "none" /\ r.sock = 0 /\ r.base = "IDLE"
  /\ r.base \in {"ACTIVE", "DISCONNECTED"} => r.st = "ACTIVE"

(* CONNECT goes from a connecting end to a bound endpoint, and from a      *)
(* bound endpoint's new session to its connecting one, unless the receiver *)
(* is freed.                                                               *)
Fits(s, v) ==
  v.type = "CONNECT" =>
    LET r == s.ep[v.to[2]] IN
    IF v.from[1] = "c" THEN r.kind = "bind" \/ r.st = "FREED"
    ELSE v.to[2] = v.from[2] /\ (r.kind = "connect" \/ r.st = "FREED")

(* So in a process: the registry names active endpoints of the right kind, *)
(* events that are under way fit, and a freed socket has left only freed   *)
(* things.                                                                 *)
Peers(s) == \A q \in Session : PeerFits(s.sess[q], q)
Homes(s) == \A e \in Endpoint : s.sess[<<"c", e>>].ep = e
Bases(s) == \A e \in Endpoint : EpFits(s.ep[e])
Addressed(s) ==
  /\ s.bound # 0 => s.ep[s.bound].st = "ACTIVE" /\ s.ep[s.bound].kind = "bind"
  /\ \A e \in s.connected : s.ep[e].st = "ACTIVE" /\ s.ep[e].kind = "connect"
AllFit(s) ==
  /\ \A i \in DOMAIN s.eventsto : Fits(s, s.eventsto[i])
  /\ \A t \in Thread : \A i \in DOMAIN s.pend[t] : Fits(s, s.pend[t][i])
  /\ \A t \in Thread : \A i \in DOMAIN s.hand[t] : Fits(s, s.hand[t][i])
FreedClean(s) ==
  \A e \in Endpoint :
    s.ep[e].sock # 0 /\ s.sock[s.ep[e].sock].st = "FREED"
    => /\ s.ep[e].st = "FREED"
       /\ \A q \in Session : s.sess[q].ep = e => Blank(s.sess[q])

(* The life of endpoints and sessions. Each endpoint in use is in one of   *)
(* its socket's lists, each live session is of an endpoint in use that     *)
(* will stop it, sockets not in use have no endpoint, and an unused        *)
(* endpoint has no session: so the endpoints that nn_close waits for are   *)
(* all there are.                                                          *)
InUse(r) == r.st \notin {"NONE", "FREED"}
Owned(s) ==
  \A e \in Endpoint :
    InUse(s.ep[e]) => /\ s.ep[e].sock \in Socket
                      /\ e \in s.sock[s.ep[e].sock].eps \cup s.sock[s.ep[e].sock].sdeps
HousedAt(r, q) ==
  /\ InUse(r)
  /\ IF q[1] = "b" THEN q \in r.sessions ELSE r.kind = "connect"
Housed(s) ==
  \A q \in Session : ~Blank(s.sess[q]) => HousedAt(s.ep[s.sess[q].ep], q)
Bare(s) ==
  \A o \in Socket : ~InUse(s.sock[o]) => s.sock[o].eps = {} /\ s.sock[o].sdeps = {}
Unmade(s) == \A e \in Endpoint : s.ep[e].st = "NONE" => s.sess[<<"c", e>>].st = "NONE"
Life(s) == s.abort = "no" => Owned(s) /\ Housed(s) /\ Bare(s) /\ Unmade(s)

(* The queues of events: those of the context that is entered, what each   *)
(* thread still has to deliver, and what it is delivering.                 *)
At == ({"events", "eventsto"} \X {NoThread}) \cup ({"pend", "hand"} \X Thread)
QueueAt(s, k) ==
  CASE k[1] = "events"   -> s.events
    [] k[1] = "eventsto" -> s.eventsto
    [] k[1] = "pend"     -> s.pend[k[2]]
    [] k[1] = "hand"     -> s.hand[k[2]]

(* An event's slot is in one queue at one place, and a thread has at most  *)
(* one event in its hand.                                                  *)
Uniq(s) ==
  \A k, l \in At : \A i \in DOMAIN QueueAt(s, k), j \in DOMAIN QueueAt(s, l) :
    QueueAt(s, k)[i].slot = QueueAt(s, l)[j].slot => k = l /\ i = j
Hands(s) == \A t \in Thread : DOMAIN s.hand[t] \subseteq {1}
Gone(s, slot) == \A k \in At : \A i \in DOMAIN QueueAt(s, k) : QueueAt(s, k)[i].slot # slot

(* Two live ends of a connection. SENT says that the peer offers a message *)
(* that the receiver has not seen, RECEIVED that the peer has fetched the  *)
(* message.                                                                *)
Paired(s, q) == s.sess[q].st # "FREED" /\ s.sess[Twin(q)].st # "FREED"
Offered(r, k) == k.sending /\ k.msg # <<>> /\ ~r.receiving
Fetched(r) == r.sending /\ r.msg = <<>>
EvFits(s, v) ==
  /\ v.type = "SENT" /\ Paired(s, v.to) => Offered(s.sess[v.to], s.sess[Twin(v.to)])
  /\ v.type = "RECEIVED" /\ Paired(s, v.to) => Fetched(s.sess[v.to])
Due(s) == \A k \in At : \A i \in DOMAIN QueueAt(s, k) : EvFits(s, QueueAt(s, k)[i])

(* The numbers in Q and then M are those after b up to a. A receiver's     *)
(* msgqueue and the message that waits with its sender are what has been   *)
(* sent and not got.                                                       *)
Runs(Q, M, b, a) ==
  /\ b <= a /\ Len(Q) + Len(M) = a - b
  /\ \A i \in DOMAIN Q : Q[i] = b + i
  /\ \A i \in DOMAIN M : M[i] = b + Len(Q) + i
Stream(r, k) ==
  /\ r.receiving => k.sending /\ k.msg # <<>>
  /\ ~r.sending => r.msg = <<>>
  /\ Runs(r.queue, k.msg, r.got, k.sent)
Streams(s) ==
  \A q \in Session : Paired(s, q) => Stream(s.sess[q], s.sess[Twin(q)])
Clean(s) ==
  \A q \in Session : s.sess[q].st = "NONE" =>
    /\ ~s.sess[q].sending /\ ~s.sess[q].receiving /\ s.sess[q].queue = <<>> /\ s.sess[q].msg = <<>>
    /\ s.sess[q].sent = 0 /\ s.sess[q].got = 0
Flow(s) == s.abort = "no" => Uniq(s) /\ Hands(s) /\ Due(s) /\ Streams(s) /\ Clean(s)

(* The invariant of what contexts work on.                                 *)
Good(s) ==
  /\ s \in ProcType
  /\ Peers(s) /\ Homes(s) /\ Bases(s) /\ Addressed(s) /\ AllFit(s) /\ FreedClean(s)
  /\ Life(s) /\ Flow(s)

(* Life reads the endpoints, sessions and sockets and the abort alone.     *)
LEMMA LifeSame ==
  ASSUME NEW s, NEW u, Life(s), u.ep = s.ep, u.sess = s.sess, u.sock = s.sock, u.abort = s.abort
  PROVE  Life(u)
BY DEF Life, Owned, Housed, Bare, Unmade

SameQueues(s, u) ==
  u.events = s.events /\ u.eventsto = s.eventsto /\ u.pend = s.pend /\ u.hand = s.hand

(* With the four queues unchanged every place holds the events it held.    *)
LEMMA QueuesSame ==
  ASSUME NEW s, NEW u, SameQueues(s, u)
  PROVE  \A k \in At : QueueAt(u, k) = QueueAt(s, k)
BY DEF SameQueues, QueueAt, At

(* Flow reads the queues, the sessions and the abort alone.                *)
LEMMA FlowSame ==
  ASSUME NEW s, NEW u, Flow(s), SameQueues(s, u), u.sess = s.sess, u.abort = s.abort
  PROVE  Flow(u)
<1>1. \A k \in At : QueueAt(u, k) = QueueAt(s, k)
  BY QueuesSame
<1>2. \A v : EvFits(u, v) <=> EvFits(s, v)
  BY DEF EvFits, Paired
<1>3. Streams(u) <=> Streams(s)
  BY DEF Streams, Paired
<1>4. (Clean(u) <=> Clean(s)) /\ (Hands(u) <=> Hands(s))
  BY DEF Clean, Hands, SameQueues
<1>5. Uniq(s) => Uniq(u)
  BY <1>1 DEF Uniq
<1>6. Due(s) => Due(u)
  BY <1>1, <1>2 DEF Due
<1> QED
  BY <1>3, <1>4, <1>5, <1>6 DEF Flow

(* The two ends of a connection, cinproc's session and binproc's, are each *)
(* other's twin.                                                           *)
LEMMA Twins ==
  ASSUME NEW q \in Session
  PROVE  Twin(q) \in Session /\ Twin(Twin(q)) = q /\ Twin(q) # q
<1>1. PICK a \in {"c", "b"}, e \in Endpoint : q = <<a, e>>
  BY DEF Session
<1> QED
  BY <1>1 DEF Session, Twin

(* Only sessions change, and not the messages of a connection.             *)
SameData(r, z) ==
  /\ r.sending = z.sending /\ r.receiving = z.receiving /\ r.queue = z.queue /\ r.msg = z.msg
  /\ r.sent = z.sent /\ r.got = z.got

(* A SENT or RECEIVED is always addressed to a session, by its twin, and   *)
(* is never in ctx->events: nn_sinproc raises both with nn_fsm_raiseto.    *)
LEMMA DataEvent ==
  ASSUME NEW s, s \in ProcType, NEW k \in At, NEW i \in DOMAIN QueueAt(s, k),
         QueueAt(s, k)[i].type \in {"SENT", "RECEIVED"}
  PROVE  QueueAt(s, k)[i] \in SessEvent /\ QueueAt(s, k)[i].to \in Session
         /\ QueueAt(s, k)[i].slot = SlotOf(QueueAt(s, k)[i]) /\ k[1] # "events"
<1> DEFINE v == QueueAt(s, k)[i]
<1>1. QueueAt(s, k) \in Seq(OwnEvent) \/ (QueueAt(s, k) \in Seq(ToEvent) /\ k[1] # "events")
  BY DEF ProcType, At, QueueAt
<1>2. v \in OwnEvent \/ (v \in ToEvent /\ k[1] # "events")
  BY <1>1
<1> HIDE DEF v
<1>3. v.type \in {"SENT", "RECEIVED"}
  BY DEF v
<1>4. v \in OwnEvent => v.type \in {"IN", "OUT", "STOPPED", "EP_STOPPED"}
  BY DEF OwnEvent, EventOf, Way
<1>5. v \in ToEvent /\ k[1] # "events"
  BY <1>2, <1>3, <1>4
<1>6. v \in SessEvent
  BY <1>3, <1>5 DEF ToEvent, FurtherEvent, EventOf
<1>7. v.to \in Session /\ v.slot = SlotOf(v)
  BY <1>6 DEF SessEvent, EventOf
<1> QED
  BY <1>5, <1>6, <1>7 DEF v

DataSame(s, u) ==
  \A x \in Session : /\ s.sess[x].st = "FREED" => u.sess[x].st = "FREED"
                     /\ u.sess[x].st = "NONE" => s.sess[x].st = "NONE"
                     /\ u.sess[x].st = "FREED" \/ SameData(u.sess[x], s.sess[x])

(* Sessions that change without touching the messages, the msgqueue and    *)
(* the two flags of nn_sinproc keep the flow.                              *)
LEMMA FlowData ==
  ASSUME NEW s, NEW u, s \in ProcType, Flow(s), SameQueues(s, u), u.abort = s.abort,
         DataSame(s, u)
  PROVE  Flow(u)
<1> SUFFICES ASSUME s.abort = "no" PROVE Flow(u)
  BY DEF Flow
<1>1. \A k \in At : QueueAt(u, k) = QueueAt(s, k)
  BY QueuesSame
<1>2. ASSUME NEW x \in Session, Paired(u, x)
      PROVE  Paired(s, x) /\ SameData(u.sess[x], s.sess[x]) /\ SameData(u.sess[Twin(x)], s.sess[Twin(x)])
  BY <1>2, Twins DEF Paired, DataSame
<1>3. Due(u)
  <2> SUFFICES ASSUME NEW k \in At, NEW i \in DOMAIN QueueAt(u, k) PROVE EvFits(u, QueueAt(u, k)[i])
    BY DEF Due
  <2> DEFINE v == QueueAt(s, k)[i]
  <2>1. v = QueueAt(u, k)[i] /\ i \in DOMAIN QueueAt(s, k)
    BY <1>1
  <2>2. EvFits(s, v)
    BY <2>1 DEF Flow, Due
  <2>3. v.type \in {"SENT", "RECEIVED"} => v.to \in Session
    BY <2>1, DataEvent
  <2> HIDE DEF v
  <2> QED
    BY <1>2, <2>1, <2>2, <2>3 DEF EvFits, SameData, Offered, Fetched
<1>4. Streams(u)
  <2> SUFFICES ASSUME NEW x \in Session, Paired(u, x)
               PROVE  Stream(u.sess[x], u.sess[Twin(x)])
    BY DEF Streams
  <2>1. /\ Paired(s, x) /\ SameData(u.sess[x], s.sess[x])
        /\ SameData(u.sess[Twin(x)], s.sess[Twin(x)])
    BY <1>2
  <2>2. Streams(s)
    BY DEF Flow
  <2>3. Stream(s.sess[x], s.sess[Twin(x)])
    BY <2>1, <2>2 DEF Streams
  <2> DEFINE a == s.sess[x]
             b == s.sess[Twin(x)]
             c == u.sess[x]
             d == u.sess[Twin(x)]
  <2>4. Stream(a, b) /\ SameData(c, a) /\ SameData(d, b)
    BY <2>1, <2>3
  <2> HIDE DEF a, b, c, d
  <2>5. Stream(c, d)
    BY <2>4 DEF Stream, SameData
  <2> QED
    BY <2>5 DEF c, d
<1>5. Clean(u)
  BY DEF Flow, Clean, SameData, DataSame
<1>6. Uniq(u) /\ Hands(u)
  BY <1>1 DEF Flow, Uniq, Hands, SameQueues
<1> QED
  BY <1>3, <1>4, <1>5, <1>6 DEF Flow

(* nn_queue_push's test that an event is not queued finds it wherever it   *)
(* is.                                                                     *)
LEMMA NotQueued ==
  ASSUME NEW s, s \in ProcType, Hands(s), NEW slot, ~InQueue(s, slot), ~InHand(s, slot)
  PROVE  Gone(s, slot)
<1> SUFFICES ASSUME NEW k \in At, NEW i \in DOMAIN QueueAt(s, k), QueueAt(s, k)[i].slot = slot
             PROVE  FALSE
  BY DEF Gone
<1>1. CASE k[1] \in {"events", "eventsto"}
  <2>1. QueueAt(s, k) \in {s.events, s.eventsto}
    BY <1>1 DEF QueueAt
  <2> QED
    BY <2>1 DEF InQueue
<1>2. CASE k[1] = "pend"
  <2>1. k[2] \in Thread /\ QueueAt(s, k) = s.pend[k[2]]
    BY <1>2 DEF QueueAt, At
  <2>2. k[2] \in DOMAIN s.pend
    BY <2>1 DEF ProcType
  <2> QED
    BY <2>1, <2>2 DEF InQueue
<1>3. CASE k[1] = "hand"
  <2>1. k[2] \in Thread /\ QueueAt(s, k) = s.hand[k[2]]
    BY <1>3 DEF QueueAt, At
  <2>2. k[2] \in DOMAIN s.hand /\ i = 1 /\ s.hand[k[2]] # <<>>
    BY <2>1 DEF ProcType, Hands
  <2> QED
    BY <2>1, <2>2 DEF InHand
<1> QED
  BY <1>1, <1>2, <1>3 DEF At

(* The members of a sequence with one more at its end.                     *)
LEMMA Appended ==
  ASSUME NEW X, NEW A \in Seq(X), NEW v, NEW i \in DOMAIN Append(A, v)
  PROVE  \/ i \in DOMAIN A /\ Append(A, v)[i] = A[i]
         \/ i = Len(A) + 1 /\ i \notin DOMAIN A /\ Append(A, v)[i] = v
OBVIOUS

(* An event whose slot is nowhere may be queued at the end of a queue, if  *)
(* it fits the connection (nn_fsm_raise and nn_fsm_raiseto).               *)
LEMMA FlowAppend ==
  ASSUME NEW s, NEW u, Flow(s), NEW n \in At, NEW v, NEW X,
         QueueAt(s, n) \in Seq(X), QueueAt(u, n) = Append(QueueAt(s, n), v),
         \A k \in At \ {n} : QueueAt(u, k) = QueueAt(s, k),
         Hands(s) => Hands(u), u.sess = s.sess, u.abort = s.abort,
         s.abort = "no" => Gone(s, v.slot) /\ EvFits(s, v)
  PROVE  Flow(u)
<1> SUFFICES ASSUME s.abort = "no" PROVE Flow(u)
  BY DEF Flow
<1>1. ASSUME NEW k \in At, NEW i \in DOMAIN QueueAt(u, k)
      PROVE  \/ i \in DOMAIN QueueAt(s, k) /\ QueueAt(u, k)[i] = QueueAt(s, k)[i]
             \/ k = n /\ i = Len(QueueAt(s, n)) + 1 /\ QueueAt(u, k)[i] = v
  <2>1. CASE k = n
    <3> DEFINE A == QueueAt(s, n)
    <3>1. A \in Seq(X) /\ QueueAt(u, k) = Append(A, v) /\ i \in DOMAIN Append(A, v)
      BY <2>1
    <3> HIDE DEF A
    <3>2. \/ i \in DOMAIN A /\ Append(A, v)[i] = A[i]
          \/ i = Len(A) + 1 /\ i \notin DOMAIN A /\ Append(A, v)[i] = v
      BY <3>1, Appended
    <3> QED
      BY <2>1, <3>1, <3>2 DEF A
  <2>2. CASE k # n
    BY <2>2
  <2> QED
    BY <2>1, <2>2
<1>2. Uniq(s) /\ Hands(s) /\ Due(s) /\ Streams(s) /\ Clean(s) /\ Gone(s, v.slot) /\ EvFits(s, v)
  BY DEF Flow
<1>3. \A w : EvFits(u, w) <=> EvFits(s, w)
  BY DEF EvFits, Paired
<1>4. Streams(u) /\ Clean(u) /\ Hands(u)
  BY <1>2 DEF Streams, Paired, Clean
<1>5. Due(u)
  BY <1>1, <1>2, <1>3 DEF Due
<1>6. Uniq(u)
  <2> SUFFICES ASSUME NEW k \in At, NEW l \in At,
                      NEW i \in DOMAIN QueueAt(u, k), NEW j \in DOMAIN QueueAt(u, l),
                      QueueAt(u, k)[i].slot = QueueAt(u, l)[j].slot
               PROVE  k = l /\ i = j
    BY DEF Uniq
  <2>1. /\ \/ i \in DOMAIN QueueAt(s, k) /\ QueueAt(u, k)[i] = QueueAt(s, k)[i]
           \/ k = n /\ i = Len(QueueAt(s, n)) + 1 /\ QueueAt(u, k)[i] = v
        /\ \/ j \in DOMAIN QueueAt(s, l) /\ QueueAt(u, l)[j] = QueueAt(s, l)[j]
           \/ l = n /\ j = Len(QueueAt(s, n)) + 1 /\ QueueAt(u, l)[j] = v
    BY <1>1
  <2> QED
    BY <2>1, <1>2 DEF Uniq, Gone
<1> QED
  BY <1>4, <1>5, <1>6 DEF Flow

(* What nothing done in a context changes.                                 *)
Kept(s, u) ==
  /\ u.overlap = s.overlap /\ u.glock = s.glock /\ u.term = s.term /\ u.table = s.table
  /\ u.unused = s.unused /\ u.nsocks = s.nsocks /\ u.th = s.th /\ u.pend = s.pend
  /\ u.hand = s.hand
  /\ u.abort = "no" => s.abort = "no"
  /\ \A o \in Socket : /\ u.sock[o].st = "NONE" <=> s.sock[o].st = "NONE"
                       /\ u.sock[o].st = "FREED" <=> s.sock[o].st = "FREED"
                       /\ u.sock[o].lock = s.sock[o].lock
                       /\ u.sock[o].optset = s.sock[o].optset

(* A change that something done in a context may make.                     *)
Step(s, u) == Good(u) /\ Kept(s, u)

(* Two steps are a step.                                                   *)
LEMMA StepTwice ==
  ASSUME NEW s, NEW u, NEW w, Step(s, u), Step(u, w)
  PROVE  Step(s, w)
BY DEF Step, Kept

(* Nothing at all is a step.                                               *)
LEMMA StepNot ==
  ASSUME NEW s, Good(s)
  PROVE  Step(s, s)
BY DEF Step, Kept

-----------------------------------------------------------------------------
(* Each kind of update                                                     *)

(* Stopping the process, with any reason, is a step.                       *)
LEMMA AbortStep ==
  ASSUME NEW s, Good(s), NEW why \in Why \ {"no"}
  PROVE  Step(s, Abort(s, why)) /\ Abort(s, why).abort # "no"
<1> DEFINE u == Abort(s, why)
<1>1. u \in ProcType
  BY DEF Abort, ProcType, Good
<1>2. /\ u.overlap = s.overlap /\ u.glock = s.glock /\ u.term = s.term /\ u.table = s.table
      /\ u.unused = s.unused /\ u.nsocks = s.nsocks /\ u.th = s.th /\ u.pend = s.pend
      /\ u.hand = s.hand /\ u.ep = s.ep /\ u.sess = s.sess /\ u.sock = s.sock
      /\ u.bound = s.bound /\ u.connected = s.connected /\ u.eventsto = s.eventsto
      /\ u.events = s.events
      /\ u.abort # "no"
  BY DEF Abort, ProcType, Good
<1> HIDE DEF u
<1>3. Peers(u) /\ Homes(u)
  BY <1>2 DEF Good, Peers, Homes
<1>4. Bases(u) /\ Addressed(u)
  BY <1>2 DEF Good, Bases, Addressed
<1>5. AllFit(u)
  <2>1. \A v : Fits(u, v) <=> Fits(s, v)
    BY <1>2 DEF Fits
  <2> QED
    BY <2>1, <1>2 DEF Good, AllFit
<1>6. FreedClean(u) /\ Life(u) /\ Flow(u)
  BY <1>2 DEF Good, FreedClean, Life, Flow
<1> QED
  BY <1>1, <1>2, <1>3, <1>4, <1>5, <1>6 DEF Step, Good, Kept, u

(* A failed nn_assert is a step: it stops the process.                     *)
LEMMA BadStep ==
  ASSUME NEW s, Good(s)
  PROVE  Step(s, Bad(s)) /\ Bad(s).abort # "no"
BY AbortStep DEF Bad, Why

(* A CONNECT in flight keeps fitting: an endpoint keeps its kind until it  *)
(* is freed.                                                               *)
LEMMA FitsMono ==
  ASSUME NEW s, NEW u, NEW v, Fits(s, v), v \in ToEvent,
         \A e \in Endpoint : \/ u.ep[e].kind = s.ep[e].kind /\ (s.ep[e].st = "FREED" => u.ep[e].st = "FREED")
                             \/ u.ep[e].st = "FREED"
  PROVE  Fits(u, v)
<1> SUFFICES ASSUME v.type = "CONNECT" PROVE Fits(u, v)
  BY DEF Fits
<1>1. v.to[2] \in Endpoint
  BY DEF ToEvent, SessEvent, FurtherEvent, EventOf, BaseName
<1> QED
  BY <1>1 DEF Fits

(* nn_fsm_raise of one of the context's own events is a step.              *)
LEMMA RaiseStep ==
  ASSUME NEW s, Good(s), NEW slot, NEW to, NEW type, NEW from,
         [slot |-> slot, to |-> to, type |-> type, from |-> from] \in OwnEvent
  PROVE  Step(s, Raise(s, slot, to, type, from))
<1> DEFINE v == [slot |-> slot, to |-> to, type |-> type, from |-> from]
           u == [s EXCEPT !.events = Append(@, v)]
<1>1. u \in ProcType
  <2>1. Append(s.events, v) \in Seq(OwnEvent)
    BY DEF Good, ProcType
  <2> HIDE DEF v
  <2> QED
    BY <2>1 DEF Good, ProcType
<1>2. /\ u.overlap = s.overlap /\ u.glock = s.glock /\ u.term = s.term /\ u.table = s.table
      /\ u.unused = s.unused /\ u.nsocks = s.nsocks /\ u.th = s.th /\ u.pend = s.pend
      /\ u.hand = s.hand /\ u.ep = s.ep /\ u.sess = s.sess /\ u.sock = s.sock
      /\ u.bound = s.bound /\ u.connected = s.connected /\ u.eventsto = s.eventsto
      /\ u.abort = s.abort /\ u.events = Append(s.events, v)
  BY DEF ProcType, Good
<1>3. Raise(s, slot, to, type, from) = IF InQueue(s, slot) THEN Abort(s, "event_raised_twice")
                                       ELSE IF InHand(s, slot) THEN Abort(s, "event_overwritten")
                                       ELSE u
  BY DEF Raise, RaiseIn
<1>9. s.events \in Seq(OwnEvent) /\ v \in OwnEvent /\ v.slot = slot
  BY DEF Good, ProcType
<1> HIDE DEF u, v
<1>4. Peers(u) /\ Homes(u)
  BY <1>2 DEF Good, Peers, Homes
<1>5. Bases(u) /\ Addressed(u)
  BY <1>2 DEF Good, Bases, Addressed
<1>6. AllFit(u)
  <2>1. \A w : Fits(u, w) <=> Fits(s, w)
    BY <1>2 DEF Fits
  <2> QED
    BY <2>1, <1>2 DEF Good, AllFit
<1>7. FreedClean(u) /\ Life(u)
  BY <1>2, LifeSame DEF Good, FreedClean
<1>10. ASSUME ~InQueue(s, slot), ~InHand(s, slot) PROVE Flow(u)
  <2>1. s.abort = "no" => Gone(s, v.slot)
    BY <1>9, <1>10, NotQueued DEF Good, Flow
  <2>2. EvFits(s, v)
    BY <1>9 DEF EvFits, OwnEvent, EventOf, Way
  <2>3. <<"events", NoThread>> \in At /\ QueueAt(s, <<"events", NoThread>>) = s.events
        /\ QueueAt(u, <<"events", NoThread>>) = Append(s.events, v)
    BY <1>2 DEF At, QueueAt
  <2>4. \A k \in At \ {<<"events", NoThread>>} : QueueAt(u, k) = QueueAt(s, k)
    BY <1>2 DEF At, QueueAt
  <2>5. Flow(s)
    BY DEF Good
  <2> DEFINE n == <<"events", NoThread>>
  <2>6. n \in At /\ (Hands(s) => Hands(u))
    BY <1>2, <2>3 DEF Hands
  <2>7. QueueAt(s, n) \in Seq(OwnEvent) /\ QueueAt(u, n) = Append(QueueAt(s, n), v)
        /\ \A k \in At \ {n} : QueueAt(u, k) = QueueAt(s, k)
    BY <1>9, <2>3, <2>4
  <2>8. u.sess = s.sess /\ u.abort = s.abort /\ (s.abort = "no" => Gone(s, v.slot) /\ EvFits(s, v))
    BY <1>2, <2>1, <2>2
  <2> HIDE DEF n
  <2> QED
    BY <2>5, <2>6, <2>7, <2>8, FlowAppend
<1>8. ASSUME ~InQueue(s, slot), ~InHand(s, slot) PROVE Step(s, u)
  BY <1>1, <1>2, <1>4, <1>5, <1>6, <1>7, <1>8, <1>10 DEF Step, Good, Kept
<1> QED
  BY <1>3, <1>8, AbortStep DEF Why

(* nn_fsm_raiseto of an event of another context is a step, when the event *)
(* fits its receiver.                                                      *)
LEMMA RaiseToStep ==
  ASSUME NEW s, Good(s), NEW slot, NEW to, NEW type, NEW from,
         [slot |-> slot, to |-> to, type |-> type, from |-> from] \in ToEvent,
         Fits(s, [slot |-> slot, to |-> to, type |-> type, from |-> from]),
         s.abort = "no" => EvFits(s, [slot |-> slot, to |-> to, type |-> type, from |-> from])
  PROVE  Step(s, RaiseTo(s, slot, to, type, from))
<1> DEFINE v == [slot |-> slot, to |-> to, type |-> type, from |-> from]
           u == [s EXCEPT !.eventsto = Append(@, v)]
<1>1. u \in ProcType
  <2>1. Append(s.eventsto, v) \in Seq(ToEvent)
    BY DEF Good, ProcType
  <2> HIDE DEF v
  <2> QED
    BY <2>1 DEF Good, ProcType
<1>2. /\ u.overlap = s.overlap /\ u.glock = s.glock /\ u.term = s.term /\ u.table = s.table
      /\ u.unused = s.unused /\ u.nsocks = s.nsocks /\ u.th = s.th /\ u.pend = s.pend
      /\ u.hand = s.hand /\ u.ep = s.ep /\ u.sess = s.sess /\ u.sock = s.sock
      /\ u.bound = s.bound /\ u.connected = s.connected
      /\ u.eventsto = Append(s.eventsto, v)
      /\ u.abort = s.abort /\ u.events = s.events
  BY DEF ProcType, Good
<1>3. RaiseTo(s, slot, to, type, from) =
        IF IsFreed(s, to) THEN Abort(s, "uses_freed_object")
        ELSE IF InQueue(s, slot) THEN Abort(s, "event_raised_twice")
        ELSE IF InHand(s, slot) THEN Abort(s, "event_overwritten") ELSE u
  BY DEF RaiseTo, RaiseIn
<1>4. s.eventsto \in Seq(ToEvent) /\ Fits(s, v) /\ v \in ToEvent /\ v.slot = slot
      /\ (s.abort = "no" => EvFits(s, v))
  BY DEF Good, ProcType
<1> HIDE DEF u, v
<1>5. Peers(u) /\ Homes(u)
  BY <1>2 DEF Good, Peers, Homes
<1>6. Bases(u) /\ Addressed(u)
  BY <1>2 DEF Good, Bases, Addressed
<1>7. AllFit(u)
  <2>1. \A w : Fits(u, w) <=> Fits(s, w)
    BY <1>2 DEF Fits
  <2>2. \A i \in DOMAIN u.eventsto : u.eventsto[i] = v \/ (i \in DOMAIN s.eventsto /\ u.eventsto[i] = s.eventsto[i])
    BY <1>2, <1>4
  <2> QED
    BY <2>1, <2>2, <1>2, <1>4 DEF Good, AllFit
<1>8. FreedClean(u) /\ Life(u)
  BY <1>2, LifeSame DEF Good, FreedClean
<1>10. ASSUME ~InQueue(s, slot), ~InHand(s, slot) PROVE Flow(u)
  <2>1. s.abort = "no" => Gone(s, v.slot)
    BY <1>4, <1>10, NotQueued DEF Good, Flow
  <2>3. <<"eventsto", NoThread>> \in At /\ QueueAt(s, <<"eventsto", NoThread>>) = s.eventsto
        /\ QueueAt(u, <<"eventsto", NoThread>>) = Append(s.eventsto, v)
    BY <1>2 DEF At, QueueAt
  <2>4. \A k \in At \ {<<"eventsto", NoThread>>} : QueueAt(u, k) = QueueAt(s, k)
    BY <1>2 DEF At, QueueAt
  <2>5. Flow(s)
    BY DEF Good
  <2> DEFINE n == <<"eventsto", NoThread>>
  <2>6. n \in At /\ (Hands(s) => Hands(u))
    BY <1>2, <2>3 DEF Hands
  <2>7. QueueAt(s, n) \in Seq(ToEvent) /\ QueueAt(u, n) = Append(QueueAt(s, n), v)
        /\ \A k \in At \ {n} : QueueAt(u, k) = QueueAt(s, k)
    BY <1>4, <2>3, <2>4
  <2>8. u.sess = s.sess /\ u.abort = s.abort /\ (s.abort = "no" => Gone(s, v.slot) /\ EvFits(s, v))
    BY <1>2, <1>4, <2>1
  <2> HIDE DEF n
  <2> QED
    BY <2>5, <2>6, <2>7, <2>8, FlowAppend
<1>9. ASSUME ~InQueue(s, slot), ~InHand(s, slot) PROVE Step(s, u)
  BY <1>1, <1>2, <1>5, <1>6, <1>7, <1>8, <1>9, <1>10 DEF Step, Good, Kept
<1> QED
  BY <1>3, <1>9, AbortStep DEF Why

(* The session r is z later, with the same data.                           *)
Continues(r, z) ==
  /\ r.ep = z.ep
  /\ r.st = "NONE" <=> z.st = "NONE"
  /\ z.st = "FREED" => r.st = "FREED"
  /\ r.st = "FREED" \/ SameData(r, z)

(* Replacing a session by one that continues it is a step.                 *)
LEMMA SessStep ==
  ASSUME NEW s, Good(s), NEW q \in Session, NEW r \in SessType, PeerFits(r, q),
         Continues(r, s.sess[q])
  PROVE  Step(s, [s EXCEPT !.sess[q] = r])
<1> DEFINE u == [s EXCEPT !.sess[q] = r]
           S == [s.sess EXCEPT ![q] = r]
<1>1. u \in ProcType
  <2>1. S \in [Session -> SessType]
    BY DEF Good, ProcType
  <2> HIDE DEF S
  <2>2. [s EXCEPT !.sess = S] \in ProcType
    BY <2>1 DEF Good, ProcType
  <2> QED
    BY <2>2 DEF S
<1>2. /\ u.overlap = s.overlap /\ u.glock = s.glock /\ u.term = s.term /\ u.table = s.table
      /\ u.unused = s.unused /\ u.nsocks = s.nsocks /\ u.th = s.th /\ u.pend = s.pend
      /\ u.hand = s.hand /\ u.ep = s.ep /\ u.sock = s.sock
      /\ u.bound = s.bound /\ u.connected = s.connected /\ u.eventsto = s.eventsto
      /\ u.abort = s.abort /\ u.events = s.events
      /\ u.sess[q] = r /\ \A x \in Session \ {q} : u.sess[x] = s.sess[x]
  BY DEF ProcType, Good
<1> HIDE DEF u
<1>3. Peers(u)
  BY <1>2 DEF Good, Peers
<1>4. Homes(u)
  <2> SUFFICES ASSUME NEW e \in Endpoint PROVE u.sess[<<"c", e>>].ep = e
    BY DEF Homes
  <2>1. <<"c", e>> \in Session
    BY DEF Session
  <2> QED
    BY <2>1, <1>2 DEF Good, Homes, Continues
<1>5. Bases(u) /\ Addressed(u)
  BY <1>2 DEF Good, Bases, Addressed
<1>6. AllFit(u)
  <2>1. \A w : Fits(u, w) <=> Fits(s, w)
    BY <1>2 DEF Fits
  <2> QED
    BY <2>1, <1>2 DEF Good, AllFit
<1>7. FreedClean(u) /\ Life(u)
  <2>1. FreedClean(u)
    BY <1>2 DEF Good, FreedClean, Continues, Blank
  <2>2. s.abort = "no" => Housed(u)
    <3> SUFFICES ASSUME s.abort = "no", NEW x \in Session, ~Blank(u.sess[x])
                 PROVE  HousedAt(u.ep[u.sess[x].ep], x)
      BY DEF Housed
    <3>1. ~Blank(s.sess[x]) /\ u.sess[x].ep = s.sess[x].ep
      BY <1>2 DEF Continues, Blank
    <3> QED
      BY <3>1, <1>2 DEF Good, Life, Housed
  <2>4. s.abort = "no" => Unmade(u)
    <3> SUFFICES ASSUME s.abort = "no", NEW e \in Endpoint, u.ep[e].st = "NONE"
                 PROVE  u.sess[<<"c", e>>].st = "NONE"
      BY DEF Unmade
    <3>1. <<"c", e>> \in Session
      BY DEF Session
    <3>2. s.sess[<<"c", e>>].st = "NONE"
      BY <1>2 DEF Good, Life, Unmade
    <3> QED
      BY <3>1, <3>2, <1>2 DEF Continues
  <2>3. Life(u)
    BY <2>2, <2>4, <1>2 DEF Good, Life, Owned, Bare
  <2> QED
    BY <2>1, <2>3
<1>9. Flow(u)
  <2>1. DataSame(s, u)
    BY <1>2 DEF SameData, DataSame, Continues
  <2>2. SameQueues(s, u) /\ u.abort = s.abort
    BY <1>2 DEF SameQueues
  <2>3. s \in ProcType /\ Flow(s)
    BY DEF Good
  <2> QED
    BY <2>1, <2>2, <2>3, FlowData
<1>8. Step(s, u)
  BY <1>1, <1>2, <1>3, <1>4, <1>5, <1>6, <1>7, <1>9 DEF Step, Good, Kept
<1> QED
  BY <1>8 DEF u

(* A socket changes what it can do with its pipe, or the like.             *)
SameOwner(s, j, k) ==
  s.abort = "no" => /\ \A e \in (j.eps \cup j.sdeps) \ (k.eps \cup k.sdeps) : ~InUse(s.ep[e])
                    /\ ~InUse(k) => k.eps = {} /\ k.sdeps = {}

(* A socket with the same endpoint lists owns what it owned.               *)
LEMMA SameOwnerKept ==
  ASSUME NEW s, Good(s), NEW o \in Socket, NEW k, k.eps = s.sock[o].eps, k.sdeps = s.sock[o].sdeps,
         InUse(k) <=> InUse(s.sock[o])
  PROVE  SameOwner(s, s.sock[o], k)
BY DEF SameOwner, Good, Life, Bare

(* Nothing of the socket is there.                                         *)
Unowned(s, o) ==
  \A e \in Endpoint :
    s.ep[e].sock = o => /\ s.ep[e].st = "FREED"
                        /\ \A q \in Session : s.sess[q].ep = e => Blank(s.sess[q])

(* Replacing a socket keeps the invariant if it frees no socket that still *)
(* owns an endpoint.                                                       *)
LEMMA SockGood ==
  ASSUME NEW s, Good(s), NEW o \in Socket, NEW k \in SockType,
         k.st = "FREED" => s.sock[o].st = "FREED" \/ Unowned(s, o), SameOwner(s, s.sock[o], k)
  PROVE  LET u == [s EXCEPT !.sock[o] = k] IN
         /\ Good(u)
         /\ u.overlap = s.overlap /\ u.glock = s.glock /\ u.term = s.term /\ u.table = s.table
         /\ u.unused = s.unused /\ u.nsocks = s.nsocks /\ u.th = s.th /\ u.pend = s.pend
         /\ u.hand = s.hand /\ u.abort = s.abort
         /\ u.sock[o] = k /\ \A x \in Socket \ {o} : u.sock[x] = s.sock[x]
<1> DEFINE u == [s EXCEPT !.sock[o] = k]
           S == [s.sock EXCEPT ![o] = k]
<1>1. u \in ProcType
  <2>1. S \in [Socket -> SockType]
    BY DEF Good, ProcType
  <2> HIDE DEF S
  <2>2. [s EXCEPT !.sock = S] \in ProcType
    BY <2>1 DEF Good, ProcType
  <2> QED
    BY <2>2 DEF S
<1>2. /\ u.overlap = s.overlap /\ u.glock = s.glock /\ u.term = s.term /\ u.table = s.table
      /\ u.unused = s.unused /\ u.nsocks = s.nsocks /\ u.th = s.th /\ u.pend = s.pend
      /\ u.hand = s.hand /\ u.ep = s.ep /\ u.sess = s.sess
      /\ u.bound = s.bound /\ u.connected = s.connected /\ u.eventsto = s.eventsto
      /\ u.abort = s.abort /\ u.events = s.events
      /\ u.sock[o] = k /\ \A x \in Socket \ {o} : u.sock[x] = s.sock[x]
  BY DEF ProcType, Good
<1> HIDE DEF u
<1>3. Peers(u) /\ Homes(u)
  BY <1>2 DEF Good, Peers, Homes
<1>5. Bases(u) /\ Addressed(u)
  BY <1>2 DEF Good, Bases, Addressed
<1>6. AllFit(u)
  <2>1. \A w : Fits(u, w) <=> Fits(s, w)
    BY <1>2 DEF Fits
  <2> QED
    BY <2>1, <1>2 DEF Good, AllFit
<1>7. FreedClean(u) /\ Life(u)
  <2>1. \A x \in Socket : u.sock[x].st = "FREED" => s.sock[x].st = "FREED" \/ Unowned(s, x)
    BY <1>2
  <2>2. \A e \in Endpoint : s.ep[e].sock \in Socket \cup {0}
    BY DEF Good, ProcType, EpType
  <2>3. FreedClean(u)
    BY <1>2, <2>1, <2>2 DEF Good, FreedClean, Unowned
  <2>4. s.abort = "no" => Owned(u)
    <3> SUFFICES ASSUME s.abort = "no", NEW e \in Endpoint, InUse(u.ep[e])
                 PROVE  /\ u.ep[e].sock \in Socket
                        /\ e \in u.sock[u.ep[e].sock].eps \cup u.sock[u.ep[e].sock].sdeps
      BY DEF Owned
    <3>1. /\ s.ep[e].sock \in Socket
          /\ e \in s.sock[s.ep[e].sock].eps \cup s.sock[s.ep[e].sock].sdeps
      BY <1>2 DEF Good, Life, Owned
    <3>2. CASE s.ep[e].sock = o
      BY <3>1, <3>2, <1>2 DEF SameOwner
    <3>3. CASE s.ep[e].sock # o
      BY <3>1, <3>3, <1>2
    <3> QED
      BY <3>2, <3>3
  <2>5. s.abort = "no" => Bare(u)
    BY <1>2 DEF Good, Life, Bare, SameOwner
  <2>6. Life(u)
    BY <2>4, <2>5, <1>2 DEF Good, Life, Housed, Unmade
  <2> QED
    BY <2>3, <2>6
<1>9. Flow(u)
  BY <1>2, FlowSame DEF Good, SameQueues
<1>8. Good(u)
  BY <1>1, <1>2, <1>3, <1>5, <1>6, <1>7, <1>9 DEF Good
<1> QED
  BY <1>2, <1>8 DEF u

(* Replacing a socket by one in the same state of life is a step.          *)
LEMMA SockStep ==
  ASSUME NEW s, Good(s), NEW o \in Socket, NEW k \in SockType,
         k.st = "NONE" <=> s.sock[o].st = "NONE", k.st = "FREED" <=> s.sock[o].st = "FREED",
         k.lock = s.sock[o].lock, k.optset = s.sock[o].optset, SameOwner(s, s.sock[o], k)
  PROVE  Step(s, [s EXCEPT !.sock[o] = k])
<1> DEFINE u == [s EXCEPT !.sock[o] = k]
<1>1. /\ Good(u)
      /\ u.overlap = s.overlap /\ u.glock = s.glock /\ u.term = s.term /\ u.table = s.table
      /\ u.unused = s.unused /\ u.nsocks = s.nsocks /\ u.th = s.th /\ u.pend = s.pend
      /\ u.hand = s.hand /\ u.abort = s.abort
      /\ u.sock[o] = k /\ \A x \in Socket \ {o} : u.sock[x] = s.sock[x]
  BY SockGood
<1> HIDE DEF u
<1>2. Step(s, u)
  BY <1>1 DEF Step, Kept
<1> QED
  BY <1>2 DEF u

-----------------------------------------------------------------------------
(* Pipes and the pair protocol (pipe.c, excl.c)                            *)

(* A session's name says its side and its cinproc endpoint.                *)
LEMMA Names ==
  ASSUME NEW q \in Session
  PROVE  /\ q[1] \in {"c", "b"} /\ q[2] \in Endpoint /\ q = <<q[1], q[2]>>
         /\ Twin(q) \in Session /\ Twin(Twin(q)) = q /\ Twin(q) # q
         /\ q # None /\ q \in PipeName
BY DEF Session, Twin, None, PipeName

(* A session belongs to the socket of its endpoint.                        *)
LEMMA SocketOfSession ==
  ASSUME NEW s, s \in ProcType, NEW q \in Session
  PROVE  SocketOf(s, q) \in Socket \cup {0} /\ SocketOf(s, q) = s.ep[s.sess[q].ep].sock
<1>1. s.sess[q] \in SessType
  BY DEF ProcType
<1>2. s.sess[q].ep \in Endpoint
  BY <1>1 DEF SessType
<1>3. s.ep[s.sess[q].ep] \in EpType
  BY <1>2 DEF ProcType
<1>4. s.ep[s.sess[q].ep].sock \in Socket \cup {0}
  BY <1>3 DEF EpType
<1>5. q[1] \notin {"sock", "ep", "base"}
  BY DEF Session
<1> QED
  BY <1>4, <1>5 DEF SocketOf

(* A socket that does not exist does not change.                           *)
LEMMA NoSock ==
  ASSUME NEW s, s \in ProcType, NEW S \in [Socket -> SockType], S = s.sock
  PROVE  [s EXCEPT !.sock = S] = s
BY DEF ProcType

(* Whatever nn_excl does to its three pipe pointers is a step.             *)
LEMMA ExclStep ==
  ASSUME NEW s, Good(s), NEW o \in Socket \cup {0}, NEW x \in ExclType
  PROVE  Step(s, [s EXCEPT !.sock[o].excl = x])
<1>1. CASE o = 0
  <2>1. 0 \notin Socket
    BY DEF Socket
  <2>2. s.sock \in [Socket -> SockType]
    BY DEF Good, ProcType
  <2>3. [s.sock EXCEPT ![o] = [s.sock[o] EXCEPT !.excl = x]] = s.sock
    BY <1>1, <2>1, <2>2
  <2>4. [s EXCEPT !.sock = [s.sock EXCEPT ![o] = [s.sock[o] EXCEPT !.excl = x]]] = s
    BY <2>3 DEF Good, ProcType
  <2> QED
    BY <2>4, StepNot
<1>2. CASE o \in Socket
  <2> DEFINE k == [s.sock[o] EXCEPT !.excl = x]
  <2>1. s.sock[o] \in SockType
    BY <1>2 DEF Good, ProcType
  <2>2. k \in SockType
    BY <2>1 DEF SockType
  <2>3. k.st = s.sock[o].st /\ k.lock = s.sock[o].lock /\ k.optset = s.sock[o].optset
        /\ k.eps = s.sock[o].eps /\ k.sdeps = s.sock[o].sdeps
    BY <2>1 DEF SockType
  <2> HIDE DEF k
  <2>4. Step(s, [s EXCEPT !.sock[o] = k])
    BY <1>2, <2>2, <2>3, SameOwnerKept, SockStep DEF InUse
  <2> QED
    BY <2>4 DEF k
<1> QED
  BY <1>1, <1>2

(* A socket's nn_excl is well typed.                                       *)
LEMMA ExclOf ==
  ASSUME NEW s, s \in ProcType, NEW o \in Socket
  PROVE  s.sock[o].excl \in ExclType
<1>1. s.sock[o] \in SockType
  BY DEF ProcType
<1> QED
  BY <1>1 DEF SockType

(* nn_excl_init gives a well typed nn_excl.                                *)
LEMMA NoExcl == nn_excl_init \in ExclType
BY DEF nn_excl_init, ExclType, PipeName

(* An update of socket 0, which is none, changes nothing.                  *)
LEMMA ZeroSock ==
  ASSUME NEW s, s \in ProcType, NEW k
  PROVE  [s EXCEPT !.sock[0] = k] = s
<1>1. 0 \notin Socket /\ s.sock \in [Socket -> SockType]
  BY DEF ProcType, Socket
<1>2. [s.sock EXCEPT ![0] = k] = s.sock
  BY <1>1
<1> QED
  BY <1>2 DEF ProcType

(* nn_excl_add (excl.c) is a step.                                         *)
LEMMA ExclAddStep ==
  ASSUME NEW s, Good(s), NEW o \in Socket \cup {0}, NEW q \in Session
  PROVE  Step(s, nn_excl_add(s, o, q))
<1>1. Step(s, Abort(s, "second_pair_connection"))
  BY AbortStep DEF Why
<1> DEFINE u == [s EXCEPT !.sock[o].excl.pipe = q]
<1>2. Step(s, u)
  <2>1. CASE o = 0
    <3>1. u = s
      BY <2>1, ZeroSock DEF Good
    <3> QED
      BY <3>1, StepNot
  <2>2. CASE o \in Socket
    <3> DEFINE x == [s.sock[o].excl EXCEPT !.pipe = q]
    <3>1. x \in ExclType
      BY <2>2, ExclOf, Names DEF ExclType, Good
    <3> HIDE DEF x
    <3>2. Step(s, [s EXCEPT !.sock[o].excl = x])
      BY <3>1, ExclStep
    <3> QED
      BY <3>2 DEF x
  <2> QED
    BY <2>1, <2>2
<1> HIDE DEF u
<1> QED
  BY <1>1, <1>2 DEF nn_excl_add, u

(* nn_excl_rm is a step.                                                   *)
LEMMA ExclRmStep ==
  ASSUME NEW s, Good(s), NEW o \in Socket \cup {0}
  PROVE  Step(s, nn_excl_rm(s, o))
BY ExclStep, NoExcl DEF nn_excl_rm

(* nn_excl_in, the pair's first IN of a pipe, is a step.                   *)
LEMMA ExclInStep ==
  ASSUME NEW s, Good(s), NEW o \in Socket \cup {0}, NEW q \in Session
  PROVE  Step(s, nn_excl_in(s, o, q))
<1>1. Step(s, Abort(s, "event_of_removed_pipe")) /\ Step(s, Bad(s))
  BY AbortStep, BadStep DEF Why
<1> DEFINE u == [s EXCEPT !.sock[o].excl.inpipe = q]
<1>2. Step(s, u)
  <2>1. CASE o = 0
    <3>1. u = s
      BY <2>1, ZeroSock DEF Good
    <3> QED
      BY <3>1, StepNot
  <2>2. CASE o \in Socket
    <3> DEFINE x == [s.sock[o].excl EXCEPT !.inpipe = q]
    <3>1. x \in ExclType
      BY <2>2, ExclOf, Names DEF ExclType, Good
    <3> HIDE DEF x
    <3>2. Step(s, [s EXCEPT !.sock[o].excl = x])
      BY <3>1, ExclStep
    <3> QED
      BY <3>2 DEF x
  <2> QED
    BY <2>1, <2>2
<1> HIDE DEF u
<1> QED
  BY <1>1, <1>2 DEF nn_excl_in, u

(* nn_excl_out, the pair's first OUT of a pipe, is a step.                 *)
LEMMA ExclOutStep ==
  ASSUME NEW s, Good(s), NEW o \in Socket \cup {0}, NEW q \in Session
  PROVE  Step(s, nn_excl_out(s, o, q))
<1>1. Step(s, Abort(s, "event_of_removed_pipe")) /\ Step(s, Bad(s))
  BY AbortStep, BadStep DEF Why
<1> DEFINE u == [s EXCEPT !.sock[o].excl.outpipe = q]
<1>2. Step(s, u)
  <2>1. CASE o = 0
    <3>1. u = s
      BY <2>1, ZeroSock DEF Good
    <3> QED
      BY <3>1, StepNot
  <2>2. CASE o \in Socket
    <3> DEFINE x == [s.sock[o].excl EXCEPT !.outpipe = q]
    <3>1. x \in ExclType
      BY <2>2, ExclOf, Names DEF ExclType, Good
    <3> HIDE DEF x
    <3>2. Step(s, [s EXCEPT !.sock[o].excl = x])
      BY <3>1, ExclStep
    <3> QED
      BY <3>2 DEF x
  <2> QED
    BY <2>1, <2>2
<1> HIDE DEF u
<1> QED
  BY <1>1, <1>2 DEF nn_excl_out, u

(* A session is well typed, and its peer is none or its twin.              *)
LEMMA SessOf ==
  ASSUME NEW s, Good(s), NEW q \in Session
  PROVE  s.sess[q] \in SessType /\ PeerFits(s.sess[q], q)
BY DEF Good, ProcType, Peers

(* nn_pipebase's IN and OUT are the context's own events.                  *)
LEMMA InOutEvent ==
  ASSUME NEW q \in Session, NEW o \in Socket \cup {0}
  PROVE  /\ [slot |-> <<q, "out">>, to |-> <<"sock", o>>, type |-> "OUT", from |-> q] \in OwnEvent
         /\ [slot |-> <<q, "in">>, to |-> <<"sock", o>>, type |-> "IN", from |-> q] \in OwnEvent
BY DEF OwnEvent, EventOf, SocketName, Way, SlotName, SlotOf

(* nn_pipebase_start, which adds the pipe to the socket and signals OUT,   *)
(* is a step.                                                              *)
LEMMA PipeStartStep ==
  ASSUME NEW s, Good(s), NEW q \in Session
  PROVE  Step(s, nn_pipebase_start(s, q))
<1> DEFINE o == SocketOf(s, q)
           r == [s.sess[q] EXCEPT !.pipe = "ACTIVE", !.in = "ASYNC", !.out = "IDLE"]
           u == [s EXCEPT !.sess[q] = r]
           w == nn_excl_add(u, o, q)
<1>1. o \in Socket \cup {0}
  BY SocketOfSession DEF Good
<1>2. r \in SessType /\ PeerFits(r, q) /\ Continues(r, s.sess[q])
  <2>1. s.sess[q] \in SessType /\ PeerFits(s.sess[q], q)
    BY SessOf
  <2> QED
    BY <2>1 DEF SessType, PeerFits, Blank, Continues, SameData
<1>3. nn_pipebase_start(s, q) = Raise(w, <<q, "out">>, <<"sock", o>>, "OUT", q)
  BY DEF nn_pipebase_start
<1> HIDE DEF o, r
<1>4. Step(s, u)
  BY <1>2, SessStep
<1> HIDE DEF u
<1>5. Step(u, w)
  BY <1>1, <1>4, ExclAddStep DEF Step
<1> HIDE DEF w
<1>6. Step(w, Raise(w, <<q, "out">>, <<"sock", o>>, "OUT", q))
  BY <1>1, <1>5, RaiseStep, InOutEvent DEF Step
<1> QED
  BY <1>3, <1>4, <1>5, <1>6, StepTwice

(* nn_pipebase_stop, which takes the pipe from the socket, is a step.      *)
LEMMA PipeStopStep ==
  ASSUME NEW s, Good(s), NEW q \in Session
  PROVE  Step(s, nn_pipebase_stop(s, q))
<1> DEFINE o == SocketOf(s, q)
           r == [s.sess[q] EXCEPT !.pipe = "IDLE"]
           u == [s EXCEPT !.sess[q] = r]
<1>1. o \in Socket \cup {0}
  BY SocketOfSession DEF Good
<1>2. r \in SessType /\ PeerFits(r, q) /\ Continues(r, s.sess[q])
  <2>1. s.sess[q] \in SessType /\ PeerFits(s.sess[q], q)
    BY SessOf
  <2> QED
    BY <2>1 DEF SessType, PeerFits, Blank, Continues, SameData
<1>3. nn_pipebase_stop(s, q) = IF s.sess[q].pipe # "ACTIVE" THEN s ELSE nn_excl_rm(u, o)
  BY DEF nn_pipebase_stop
<1> HIDE DEF o, r
<1>4. Step(s, u)
  BY <1>2, SessStep
<1> HIDE DEF u
<1>5. Step(u, nn_excl_rm(u, o))
  BY <1>1, <1>4, ExclRmStep DEF Step
<1> QED
  BY <1>3, <1>4, <1>5, StepTwice, StepNot

(* nn_pipebase_received, a message has come, is a step.                    *)
LEMMA PipeReceivedStep ==
  ASSUME NEW s, Good(s), NEW q \in Session
  PROVE  Step(s, nn_pipebase_received(s, q))
<1> DEFINE o == SocketOf(s, q)
           r == [s.sess[q] EXCEPT !.in = "IDLE"]
           u == [s EXCEPT !.sess[q] = r]
<1>1. o \in Socket \cup {0}
  BY SocketOfSession DEF Good
<1>2. r \in SessType /\ PeerFits(r, q) /\ Continues(r, s.sess[q])
  <2>1. s.sess[q] \in SessType /\ PeerFits(s.sess[q], q)
    BY SessOf
  <2> QED
    BY <2>1 DEF SessType, PeerFits, Blank, Continues, SameData
<1>3. nn_pipebase_received(s, q) = IF s.sess[q].in # "ASYNC" THEN Bad(s)
                                   ELSE Raise(u, <<q, "in">>, <<"sock", o>>, "IN", q)
  BY DEF nn_pipebase_received
<1> HIDE DEF o, r
<1>4. Step(s, u)
  BY <1>2, SessStep
<1> HIDE DEF u
<1>5. Step(u, Raise(u, <<q, "in">>, <<"sock", o>>, "IN", q))
  BY <1>1, <1>4, RaiseStep, InOutEvent DEF Step
<1> QED
  BY <1>3, <1>4, <1>5, StepTwice, BadStep

(* nn_pipebase_sent, a message has gone, is a step.                        *)
LEMMA PipeSentStep ==
  ASSUME NEW s, Good(s), NEW q \in Session
  PROVE  Step(s, nn_pipebase_sent(s, q))
<1> DEFINE o == SocketOf(s, q)
           r == [s.sess[q] EXCEPT !.out = "IDLE"]
           u == [s EXCEPT !.sess[q] = r]
<1>1. o \in Socket \cup {0}
  BY SocketOfSession DEF Good
<1>2. r \in SessType /\ PeerFits(r, q) /\ Continues(r, s.sess[q])
  <2>1. s.sess[q] \in SessType /\ PeerFits(s.sess[q], q)
    BY SessOf
  <2> QED
    BY <2>1 DEF SessType, PeerFits, Blank, Continues, SameData
<1>3. nn_pipebase_sent(s, q) = IF s.sess[q].out # "ASYNC" THEN Bad(s)
                               ELSE Raise(u, <<q, "out">>, <<"sock", o>>, "OUT", q)
  BY DEF nn_pipebase_sent
<1> HIDE DEF o, r
<1>4. Step(s, u)
  BY <1>2, SessStep
<1> HIDE DEF u
<1>5. Step(u, Raise(u, <<q, "out">>, <<"sock", o>>, "OUT", q))
  BY <1>1, <1>4, RaiseStep, InOutEvent DEF Step
<1> QED
  BY <1>3, <1>4, <1>5, StepTwice, BadStep

(* What nn_sinproc raises to its peer are events of another context.       *)
LEMMA PeerEvent ==
  ASSUME NEW q \in Session
  PROVE  /\ [slot |-> <<Twin(q), "received">>, to |-> Twin(q), type |-> "RECEIVED", from |-> q] \in ToEvent
         /\ [slot |-> <<Twin(q), "sent">>, to |-> Twin(q), type |-> "SENT", from |-> q] \in ToEvent
         /\ [slot |-> <<Twin(q), "disconnect">>, to |-> Twin(q), type |-> "DISCONNECT", from |-> q] \in ToEvent
         /\ [slot |-> <<q, "connect">>, to |-> Twin(q), type |-> "READY", from |-> q] \in ToEvent
         /\ [slot |-> <<q, "connect">>, to |-> Twin(q), type |-> "ACCEPTED", from |-> q] \in ToEvent
BY Names DEF ToEvent, SessEvent, FurtherEvent, EventOf, SlotName, SlotOf

(* READY, ACCEPTED and DISCONNECT fit every receiver: raising one is a     *)
(* step.                                                                   *)
LEMMA RaiseToPeerStep ==
  ASSUME NEW s, Good(s), NEW slot, NEW to, NEW type, NEW from,
         [slot |-> slot, to |-> to, type |-> type, from |-> from] \in ToEvent,
         type \notin {"CONNECT", "SENT", "RECEIVED"}
  PROVE  Step(s, RaiseTo(s, slot, to, type, from))
<1>1. /\ Fits(s, [slot |-> slot, to |-> to, type |-> type, from |-> from])
      /\ EvFits(s, [slot |-> slot, to |-> to, type |-> type, from |-> from])
  BY DEF Fits, EvFits
<1> QED
  BY <1>1, RaiseToStep

(* A msgqueue with messages put behind it is still a msgqueue.             *)
LEMMA QueueAppend ==
  ASSUME NEW r \in SessType, NEW m \in Seq(Nat)
  PROVE  [r EXCEPT !.queue = @ \o m] \in SessType
<1>1. r.queue \o m \in Seq(Nat)
  BY DEF SessType
<1> QED
  BY <1>1 DEF SessType

(* A session whose message has been taken is well typed.                   *)
LEMMA MsgTaken ==
  ASSUME NEW r \in SessType
  PROVE  [r EXCEPT !.msg = <<>>] \in SessType
<1>1. <<>> \in Seq(Nat)
  OBVIOUS
<1> QED
  BY <1>1 DEF SessType

-----------------------------------------------------------------------------
(* Messages move between the two ends of a connection                      *)

(* Messages move between the two sessions of a connection.                 *)
Moved(s, q, r, k) ==
  LET a == s.sess[q]
      b == s.sess[Twin(q)] IN
  /\ Stream(r, k) /\ Stream(k, r)
  /\ Gone(s, <<q, "sent">>) \/ (Offered(a, b) => Offered(r, k))
  /\ Gone(s, <<Twin(q), "sent">>) \/ (Offered(b, a) => Offered(k, r))
  /\ Gone(s, <<q, "received">>) \/ (Fetched(a) => Fetched(r))
  /\ Gone(s, <<Twin(q), "received">>) \/ (Fetched(b) => Fetched(k))

(* The sessions outside a connection are each other's twins.               *)
LEMMA OtherTwin ==
  ASSUME NEW q \in Session, NEW x \in Session, x \notin {q, Twin(q)}
  PROVE  Twin(x) \in Session /\ Twin(x) \notin {q, Twin(q)}
<1>1. Twin(Twin(x)) = x /\ Twin(Twin(q)) = q /\ Twin(x) \in Session
  BY Twins
<1> QED
  BY <1>1

(* The flow is kept when only one connection's data moves, as Moved        *)
(* allows.                                                                 *)
LEMMA MovedFlow ==
  ASSUME NEW s, NEW u, s \in ProcType, Flow(s), SameQueues(s, u), u.abort = s.abort,
         NEW q \in Session,
         \A x \in Session : u.sess[x].st = s.sess[x].st,
         \A x \in Session \ {q, Twin(q)} : u.sess[x] = s.sess[x],
         s.sess[q].st # "NONE",
         s.abort = "no" /\ s.sess[Twin(q)].st = "NONE"
           => SameData(u.sess[Twin(q)], s.sess[Twin(q)]),
         s.abort = "no" /\ Paired(s, q) => Moved(s, q, u.sess[q], u.sess[Twin(q)])
  PROVE  Flow(u)
<1> SUFFICES ASSUME s.abort = "no" PROVE Flow(u)
  BY DEF Flow
<1> DEFINE z == Twin(q)
<1>0. z \in Session /\ Twin(z) = q /\ z # q
  BY Twins
<1>1. \A k \in At : QueueAt(u, k) = QueueAt(s, k)
  BY QueuesSame
<1>2. \A x \in Session : Paired(u, x) <=> Paired(s, x)
  BY Twins DEF Paired
<1>3. \A x \in Session \ {q, z} : u.sess[x] = s.sess[x] /\ u.sess[Twin(x)] = s.sess[Twin(x)]
  BY OtherTwin
<1>4. Paired(s, q) <=> Paired(s, z)
  BY <1>0 DEF Paired
<1>5. Due(u)
  <2> SUFFICES ASSUME NEW k \in At, NEW i \in DOMAIN QueueAt(u, k) PROVE EvFits(u, QueueAt(u, k)[i])
    BY DEF Due
  <2> DEFINE v == QueueAt(s, k)[i]
  <2>1. v = QueueAt(u, k)[i] /\ i \in DOMAIN QueueAt(s, k)
    BY <1>1
  <2>2. EvFits(s, v)
    BY <2>1 DEF Flow, Due
  <2>3. v.type \in {"SENT", "RECEIVED"} => v.to \in Session /\ v.slot = SlotOf(v)
    BY <2>1, DataEvent
  <2>4. ~Gone(s, v.slot)
    BY <2>1 DEF Gone
  <2> HIDE DEF v, z
  <2>5. CASE v.type = "SENT"
    <3>1. v.to \in Session /\ v.slot = <<v.to, "sent">>
      BY <2>3, <2>5 DEF SlotOf
    <3> SUFFICES ASSUME Paired(u, v.to) PROVE Offered(u.sess[v.to], u.sess[Twin(v.to)])
      BY <2>1, <2>5 DEF EvFits
    <3>2. Paired(s, v.to) /\ Offered(s.sess[v.to], s.sess[Twin(v.to)])
      BY <2>2, <2>5, <3>1, <1>2 DEF EvFits
    <3>3. CASE v.to = q
      BY <3>1, <3>2, <3>3, <2>4 DEF Moved
    <3>4. CASE v.to = z
      <4>1. Moved(s, q, u.sess[q], u.sess[Twin(q)])
        BY <3>2, <3>4, <1>4
      <4> QED
        BY <3>1, <3>2, <3>4, <2>4, <1>0, <4>1 DEF Moved, z
    <3>5. CASE v.to \notin {q, z}
      BY <3>1, <3>2, <3>5, <1>3
    <3> QED
      BY <3>3, <3>4, <3>5
  <2>6. CASE v.type = "RECEIVED"
    <3>1. v.to \in Session /\ v.slot = <<v.to, "received">>
      BY <2>3, <2>6 DEF SlotOf
    <3> SUFFICES ASSUME Paired(u, v.to) PROVE Fetched(u.sess[v.to])
      BY <2>1, <2>6 DEF EvFits
    <3>2. Paired(s, v.to) /\ Fetched(s.sess[v.to])
      BY <2>2, <2>6, <3>1, <1>2 DEF EvFits
    <3>3. CASE v.to = q
      BY <3>1, <3>2, <3>3, <2>4 DEF Moved
    <3>4. CASE v.to = z
      <4>1. Moved(s, q, u.sess[q], u.sess[Twin(q)])
        BY <3>2, <3>4, <1>4
      <4> QED
        BY <3>1, <3>2, <3>4, <2>4, <1>0, <4>1 DEF Moved, z
    <3>5. CASE v.to \notin {q, z}
      BY <3>1, <3>2, <3>5, <1>3
    <3> QED
      BY <3>3, <3>4, <3>5
  <2>7. CASE v.type \notin {"SENT", "RECEIVED"}
    BY <2>1, <2>7 DEF EvFits
  <2> QED
    BY <2>5, <2>6, <2>7
<1>6. Streams(u)
  <2> SUFFICES ASSUME NEW x \in Session, Paired(u, x)
               PROVE  Stream(u.sess[x], u.sess[Twin(x)])
    BY DEF Streams
  <2>1. Paired(s, x) /\ Streams(s)
    BY <1>2 DEF Flow
  <2>2. Stream(s.sess[x], s.sess[Twin(x)])
    BY <2>1 DEF Streams
  <2> HIDE DEF z
  <2>3. CASE x = q
    BY <2>1, <2>3 DEF Moved
  <2>4. CASE x = z
    <3>1. Moved(s, q, u.sess[q], u.sess[Twin(q)])
      BY <2>1, <2>4, <1>4
    <3> QED
      BY <3>1, <2>4, <1>0 DEF Moved, z
  <2>5. CASE x \notin {q, z}
    BY <2>2, <2>5, <1>3
  <2> QED
    BY <2>3, <2>4, <2>5
<1>7. Clean(u)
  <2>1. Clean(s)
    BY DEF Flow
  <2> SUFFICES ASSUME NEW x \in Session, u.sess[x].st = "NONE"
               PROVE  /\ ~u.sess[x].sending /\ ~u.sess[x].receiving /\ u.sess[x].queue = <<>>
                      /\ u.sess[x].msg = <<>> /\ u.sess[x].sent = 0 /\ u.sess[x].got = 0
    BY DEF Clean
  <2>2. s.sess[x].st = "NONE" /\ x # q
    OBVIOUS
  <2>3. SameData(u.sess[x], s.sess[x])
    BY <2>2, <1>3 DEF SameData
  <2> QED
    BY <2>1, <2>2, <2>3 DEF Clean, SameData
<1>8. Uniq(u) /\ Hands(u)
  BY <1>1 DEF Flow, Uniq, Hands, SameQueues
<1> QED
  BY <1>5, <1>6, <1>7, <1>8 DEF Flow

(* The same session, to its peer and its endpoint.                         *)
Shape(r, z) == r.st = z.st /\ r.peer = z.peer /\ r.ep = z.ep

(* Sessions that keep their shape, and the flow, make a step.              *)
LEMMA ShapeStep ==
  ASSUME NEW s, Good(s), NEW S \in [Session -> SessType],
         \A x \in Session : Shape(S[x], s.sess[x]), Flow([s EXCEPT !.sess = S])
  PROVE  Step(s, [s EXCEPT !.sess = S])
<1> DEFINE u == [s EXCEPT !.sess = S]
<1>1. u \in ProcType
  BY DEF Good, ProcType
<1>2. /\ u.overlap = s.overlap /\ u.glock = s.glock /\ u.term = s.term /\ u.table = s.table
      /\ u.unused = s.unused /\ u.nsocks = s.nsocks /\ u.th = s.th /\ u.pend = s.pend
      /\ u.hand = s.hand /\ u.ep = s.ep /\ u.sock = s.sock
      /\ u.bound = s.bound /\ u.connected = s.connected /\ u.eventsto = s.eventsto
      /\ u.abort = s.abort
  BY DEF ProcType, Good
<1>3. \A x \in Session : /\ u.sess[x].st = s.sess[x].st /\ u.sess[x].peer = s.sess[x].peer
                         /\ u.sess[x].ep = s.sess[x].ep
  <2>1. u.sess = S
    BY DEF Good, ProcType
  <2> QED
    BY <2>1 DEF Shape
<1>4. Flow(u)
  OBVIOUS
<1> HIDE DEF u
<1>5. Peers(u)
  BY <1>3 DEF Good, Peers, PeerFits, Blank
<1>6. Homes(u)
  <2> SUFFICES ASSUME NEW e \in Endpoint PROVE u.sess[<<"c", e>>].ep = e
    BY DEF Homes
  <2>1. <<"c", e>> \in Session
    BY DEF Session
  <2> QED
    BY <2>1, <1>3 DEF Good, Homes
<1>7. Bases(u) /\ Addressed(u)
  BY <1>2 DEF Good, Bases, Addressed
<1>8. AllFit(u)
  <2>1. \A w : Fits(u, w) <=> Fits(s, w)
    BY <1>2 DEF Fits
  <2> QED
    BY <2>1, <1>2 DEF Good, AllFit
<1>9. FreedClean(u)
  BY <1>2, <1>3 DEF Good, FreedClean, Blank
<1>10. Life(u)
  <2> SUFFICES ASSUME s.abort = "no" PROVE Owned(u) /\ Housed(u) /\ Bare(u) /\ Unmade(u)
    BY <1>2 DEF Life
  <2>1. Owned(u) /\ Bare(u)
    BY <1>2 DEF Good, Life, Owned, Bare
  <2>2. Housed(u)
    BY <1>2, <1>3 DEF Good, Life, Housed, Blank
  <2>3. Unmade(u)
    <3> SUFFICES ASSUME NEW e \in Endpoint, u.ep[e].st = "NONE"
                 PROVE  u.sess[<<"c", e>>].st = "NONE"
      BY DEF Unmade
    <3>1. <<"c", e>> \in Session
      BY DEF Session
    <3> QED
      BY <3>1, <1>2, <1>3 DEF Good, Life, Unmade
  <2> QED
    BY <2>1, <2>2, <2>3
<1>11. Step(s, u)
  BY <1>1, <1>2, <1>4, <1>5, <1>6, <1>7, <1>8, <1>9, <1>10 DEF Step, Good, Kept
<1> QED
  BY <1>11 DEF u

(* The two ends of one connection may move together.                       *)
LEMMA ConnStep ==
  ASSUME NEW s, Good(s), NEW q \in Session, NEW r \in SessType, NEW k \in SessType,
         Shape(r, s.sess[q]), Shape(k, s.sess[Twin(q)]), s.sess[q].st # "NONE",
         s.abort = "no" /\ s.sess[Twin(q)].st = "NONE" => SameData(k, s.sess[Twin(q)]),
         s.abort = "no" /\ Paired(s, q) => Moved(s, q, r, k)
  PROVE  Step(s, [s EXCEPT !.sess = [s.sess EXCEPT ![q] = r, ![Twin(q)] = k]])
<1> DEFINE z == Twin(q)
           S == [s.sess EXCEPT ![q] = r, ![z] = k]
           u == [s EXCEPT !.sess = S]
<1>0. z \in Session /\ z # q
  BY Twins
<1>1. s \in ProcType /\ s.sess \in [Session -> SessType] /\ Flow(s)
  BY DEF Good, ProcType
<1>2. S \in [Session -> SessType] /\ S[q] = r /\ S[z] = k
      /\ \A x \in Session \ {q, z} : S[x] = s.sess[x]
  BY <1>0, <1>1
<1> HIDE DEF S
<1>3. u.sess = S /\ SameQueues(s, u) /\ u.abort = s.abort
  BY <1>1 DEF ProcType, SameQueues
<1> HIDE DEF u
<1>4. \A x \in Session : Shape(S[x], s.sess[x])
  BY <1>2 DEF Shape
<1>5. \A x \in Session : u.sess[x].st = s.sess[x].st
  BY <1>3, <1>4 DEF Shape
<1>6. \A x \in Session \ {q, Twin(q)} : u.sess[x] = s.sess[x]
  BY <1>2, <1>3
<1>7. u.sess[q] = r /\ u.sess[Twin(q)] = k
  BY <1>2, <1>3
<1>8. Flow(u)
  BY <1>1, <1>3, <1>5, <1>6, <1>7, MovedFlow
<1>9. Step(s, u)
  BY <1>2, <1>4, <1>8, ShapeStep DEF u
<1> QED
  BY <1>9 DEF u, S

(* One end of a connection may move alone.                                 *)
LEMMA OneStep ==
  ASSUME NEW s, Good(s), NEW q \in Session, NEW r \in SessType,
         Shape(r, s.sess[q]), s.sess[q].st # "NONE",
         s.abort = "no" /\ Paired(s, q) => Moved(s, q, r, s.sess[Twin(q)])
  PROVE  Step(s, [s EXCEPT !.sess[q] = r])
<1> DEFINE k == s.sess[Twin(q)]
<1>1. s.sess \in [Session -> SessType] /\ Twin(q) \in Session /\ Twin(q) # q
  BY Twins DEF Good, ProcType
<1>2. k \in SessType /\ Shape(k, s.sess[Twin(q)]) /\ SameData(k, s.sess[Twin(q)])
  BY <1>1 DEF Shape, SameData
<1>3. [s.sess EXCEPT ![q] = r, ![Twin(q)] = k] = [s.sess EXCEPT ![q] = r]
  BY <1>1
<1>4. s.abort = "no" /\ Paired(s, q) => Moved(s, q, r, k)
  OBVIOUS
<1> HIDE DEF k
<1>5. Step(s, [s EXCEPT !.sess = [s.sess EXCEPT ![q] = r, ![Twin(q)] = k]])
  BY <1>2, <1>4, ConnStep
<1> QED
  BY <1>3, <1>5

-----------------------------------------------------------------------------
(* What a session and the other one hold, when a message moves             *)

(* The types of a session's message fields.                                *)
LEMMA Unpacked ==
  ASSUME NEW r \in SessType
  PROVE  /\ r.queue \in Seq(Nat) /\ r.msg \in Seq(Nat) /\ r.sent \in Nat /\ r.got \in Nat
         /\ r.sending \in BOOLEAN /\ r.receiving \in BOOLEAN
BY DEF SessType

(* The next number handed over by nn_sinproc_send continues the run.       *)
LEMMA RunsSent ==
  ASSUME NEW Q \in Seq(Nat), NEW b \in Nat, NEW a \in Nat, Runs(Q, <<>>, b, a)
  PROVE  Runs(Q, <<a + 1>>, b, a + 1)
<1>1. Len(Q) = a - b /\ b <= a
  BY DEF Runs
<1>2. DOMAIN <<a + 1>> = 1 .. 1 /\ Len(<<a + 1>>) = 1 /\ <<a + 1>>[1] = a + 1
  OBVIOUS
<1> QED
  BY <1>1, <1>2 DEF Runs

(* Moving the sender's message behind the receiver's msgqueue keeps the    *)
(* run.                                                                    *)
LEMMA RunsFetched ==
  ASSUME NEW Q \in Seq(Nat), NEW M \in Seq(Nat), NEW b \in Nat, NEW a \in Nat, Runs(Q, M, b, a)
  PROVE  Runs(Q \o M, <<>>, b, a)
<1>1. /\ b <= a /\ Len(Q) + Len(M) = a - b
      /\ \A i \in DOMAIN Q : Q[i] = b + i
      /\ \A i \in DOMAIN M : M[i] = b + Len(Q) + i
  BY DEF Runs
<1>2. Len(Q \o M) = Len(Q) + Len(M) /\ Len(<<>>) = 0 /\ DOMAIN <<>> = {}
  OBVIOUS
<1>3. ASSUME NEW i \in DOMAIN (Q \o M) PROVE (Q \o M)[i] = b + i
  <2>1. CASE i <= Len(Q)
    <3>1. i \in DOMAIN Q /\ (Q \o M)[i] = Q[i]
      BY <2>1
    <3> QED
      BY <3>1, <1>1
  <2>2. CASE i > Len(Q)
    <3>1. i \in Int /\ i - Len(Q) \in DOMAIN M /\ (Q \o M)[i] = M[i - Len(Q)]
      BY <2>2
    <3>2. M[i - Len(Q)] = b + Len(Q) + (i - Len(Q))
      BY <3>1, <1>1
    <3>3. Len(Q) \in Nat
      OBVIOUS
    <3> QED
      BY <3>1, <3>2, <3>3
  <2>3. i \in Nat /\ Len(Q) \in Nat
    OBVIOUS
  <2> QED
    BY <2>1, <2>2, <2>3
<1> QED
  BY <1>1, <1>2, <1>3 DEF Runs

(* The message nn_msgqueue_recv takes is the number after the last one     *)
(* got.                                                                    *)
LEMMA RunsReceived ==
  ASSUME NEW Q \in Seq(Nat), NEW M \in Seq(Nat), NEW b \in Nat, NEW a \in Nat, Runs(Q, M, b, a),
         Q # <<>>
  PROVE  Head(Q) = b + 1 /\ Runs(Tail(Q), M, b + 1, a)
<1>1. /\ b <= a /\ Len(Q) + Len(M) = a - b
      /\ \A i \in DOMAIN Q : Q[i] = b + i
      /\ \A i \in DOMAIN M : M[i] = b + Len(Q) + i
  BY DEF Runs
<1>2. Len(Q) \in Nat \ {0} /\ Len(M) \in Nat /\ Len(Tail(Q)) = Len(Q) - 1 /\ Head(Q) = Q[1] /\ 1 \in DOMAIN Q
  OBVIOUS
<1>3. \A i \in DOMAIN Tail(Q) : i \in Nat /\ i + 1 \in DOMAIN Q /\ Tail(Q)[i] = Q[i + 1]
  OBVIOUS
<1>4. \A i \in DOMAIN Tail(Q) : Tail(Q)[i] = b + 1 + i
  <2> SUFFICES ASSUME NEW i \in DOMAIN Tail(Q) PROVE Tail(Q)[i] = b + 1 + i
    OBVIOUS
  <2>1. i \in Nat /\ Tail(Q)[i] = Q[i + 1] /\ Q[i + 1] = b + (i + 1)
    BY <1>1, <1>3
  <2> HIDE DEF Runs
  <2> QED
    BY <2>1
<1>5. \A i \in DOMAIN M : M[i] = b + 1 + Len(Tail(Q)) + i
  <2> SUFFICES ASSUME NEW i \in DOMAIN M PROVE M[i] = b + 1 + Len(Tail(Q)) + i
    OBVIOUS
  <2>1. i \in Nat /\ M[i] = b + Len(Q) + i
    BY <1>1
  <2> QED
    BY <2>1, <1>2
<1>6. b + 1 <= a /\ Len(Tail(Q)) + Len(M) = a - (b + 1)
  BY <1>1, <1>2
<1>7. Head(Q) = b + 1
  BY <1>1, <1>2
<1> QED
  BY <1>4, <1>5, <1>6, <1>7 DEF Runs

(* Between two live ends both directions are runs.                         *)
LEMMA PairStreams ==
  ASSUME NEW s, Good(s), NEW q \in Session, s.abort = "no", Paired(s, q)
  PROVE  Stream(s.sess[q], s.sess[Twin(q)]) /\ Stream(s.sess[Twin(q)], s.sess[q])
<1>1. Twin(q) \in Session /\ Twin(Twin(q)) = q
  BY Twins
<1>2. Streams(s) /\ Paired(s, Twin(q))
  BY <1>1 DEF Good, Flow, Paired
<1> QED
  BY <1>1, <1>2 DEF Streams

(* nn_sinproc_send: the next number is put into the empty msg.             *)
LEMMA SentMoves ==
  ASSUME NEW a \in SessType, NEW b \in SessType, NEW r \in SessType, Stream(a, b), Stream(b, a),
         ~a.sending, r.sending = TRUE, r.msg = <<a.sent + 1>>, r.sent = a.sent + 1,
         r.receiving = a.receiving, r.queue = a.queue, r.got = a.got
  PROVE  /\ Stream(r, b) /\ Stream(b, r) /\ Offered(b, r) /\ ~Offered(b, a) /\ ~Fetched(a)
         /\ Offered(a, b) => Offered(r, b)
<1>1. a.msg = <<>> /\ ~b.receiving /\ Runs(b.queue, a.msg, b.got, a.sent)
  BY DEF Stream
<1>2. Runs(b.queue, <<>>, b.got, a.sent) /\ r.msg # <<>>
  BY <1>1
<1>3. b.queue \in Seq(Nat) /\ b.got \in Nat /\ a.sent \in Nat
  BY Unpacked
<1>4. Runs(b.queue, <<a.sent + 1>>, b.got, a.sent + 1)
  BY <1>2, <1>3, RunsSent
<1> QED
  BY <1>1, <1>2, <1>4 DEF Stream, Offered, Fetched

(* nn_sinproc_recv: the oldest message leaves the msgqueue.                *)
LEMMA ReceivedMoves ==
  ASSUME NEW a \in SessType, NEW b \in SessType, NEW r \in SessType, Stream(a, b), Stream(b, a),
         a.queue # <<>>, r.queue = Tail(a.queue), r.got = Head(a.queue),
         r.sending = a.sending, r.msg = a.msg, r.sent = a.sent, r.receiving = a.receiving
  PROVE  /\ Stream(r, b) /\ Stream(b, r)
         /\ Offered(a, b) => Offered(r, b)
         /\ Offered(b, a) => Offered(b, r)
         /\ Fetched(a) => Fetched(r)
<1>1. Runs(a.queue, b.msg, a.got, b.sent)
  BY DEF Stream
<1>2. a.queue \in Seq(Nat) /\ b.msg \in Seq(Nat) /\ a.got \in Nat /\ b.sent \in Nat
  BY Unpacked
<1>3. Head(a.queue) = a.got + 1 /\ Runs(Tail(a.queue), b.msg, a.got + 1, b.sent)
  BY <1>1, <1>2, RunsReceived
<1>4. Runs(r.queue, b.msg, r.got, b.sent)
  BY <1>3
<1> QED
  BY <1>4 DEF Stream, Offered, Fetched

(* The receiver marks or unmarks the message that waits with its sender.   *)
LEMMA ReceivingMoves ==
  ASSUME NEW a, NEW b, NEW r, Stream(a, b), Stream(b, a), r.receiving => Offered(a, b),
         r.queue = a.queue, r.got = a.got, r.sending = a.sending, r.msg = a.msg, r.sent = a.sent
  PROVE  /\ Stream(r, b) /\ Stream(b, r)
         /\ ~r.receiving => (Offered(a, b) => Offered(r, b))
         /\ Offered(b, a) => Offered(b, r)
         /\ Fetched(a) => Fetched(r)
BY DEF Stream, Offered, Fetched

(* The sender learns that its message has been taken.                      *)
LEMMA SendingMoves ==
  ASSUME NEW a, NEW b, NEW r, Stream(a, b), Stream(b, a), Fetched(a), r.sending = FALSE,
         r.queue = a.queue, r.got = a.got, r.receiving = a.receiving, r.msg = a.msg, r.sent = a.sent
  PROVE  /\ Stream(r, b) /\ Stream(b, r) /\ ~Offered(b, a)
         /\ Offered(a, b) => Offered(r, b)
BY DEF Stream, Offered, Fetched

(* The receiver takes the sender's message behind its msgqueue.            *)
LEMMA FetchMoves ==
  ASSUME NEW a \in SessType, NEW b \in SessType, NEW r \in SessType, NEW k \in SessType,
         Stream(a, b), Stream(b, a), Offered(a, b),
         r.queue = a.queue \o b.msg, r.got = a.got, r.receiving = a.receiving, r.msg = a.msg,
         r.sent = a.sent, r.sending = a.sending, k.msg = <<>>,
         k.queue = b.queue, k.got = b.got, k.receiving = b.receiving, k.sent = b.sent,
         k.sending = b.sending
  PROVE  /\ Stream(r, k) /\ Stream(k, r) /\ Fetched(k) /\ ~Fetched(b)
         /\ Offered(b, a) => Offered(k, r)
         /\ Fetched(a) => Fetched(r)
<1>1. Runs(a.queue, b.msg, a.got, b.sent) /\ Runs(b.queue, a.msg, b.got, a.sent)
  BY DEF Stream
<1>2. a.queue \in Seq(Nat) /\ b.msg \in Seq(Nat) /\ a.got \in Nat /\ b.sent \in Nat
  BY Unpacked
<1>3. Runs(a.queue \o b.msg, <<>>, a.got, b.sent)
  BY <1>1, <1>2, RunsFetched
<1>4. Runs(r.queue, k.msg, r.got, k.sent) /\ Runs(k.queue, r.msg, k.got, r.sent)
  BY <1>1, <1>3
<1> QED
  BY <1>4 DEF Stream, Offered, Fetched

-----------------------------------------------------------------------------
(* A session may take the message of the other one.                        *)
FetchDue(s, q) ==
  s.abort = "no" /\ Paired(s, q) =>
    Offered(s.sess[q], s.sess[Twin(q)]) /\ Gone(s, <<q, "sent">>)

(* nn_msg_mv and nn_msgqueue_send of a SENT's handler are a step, when a   *)
(* message is due.                                                         *)
LEMMA FetchStep ==
  ASSUME NEW s, Good(s), NEW q \in Session, s.sess[q].peer = Twin(q), FetchDue(s, q)
  PROVE  Step(s, Fetch(s, q))
<1> DEFINE z == Twin(q)
           a == s.sess[q]
           b == s.sess[z]
           r == [a EXCEPT !.queue = @ \o b.msg]
           k == [b EXCEPT !.msg = <<>>]
           w == [s EXCEPT !.sess = [s.sess EXCEPT ![q] = r, ![z] = k]]
<1>1. z \in Session /\ Twin(z) = q /\ z # q
  BY Twins
<1>2. a \in SessType /\ b \in SessType /\ PeerFits(a, q)
  BY <1>1, SessOf
<1>3. r \in SessType /\ k \in SessType
  <2>1. b.msg \in Seq(Nat)
    BY <1>2, Unpacked
  <2> HIDE DEF a, b
  <2> QED
    BY <1>2, <2>1, QueueAppend, MsgTaken
<1>4. /\ Shape(r, a) /\ r.queue = a.queue \o b.msg /\ r.got = a.got /\ r.receiving = a.receiving
      /\ r.msg = a.msg /\ r.sent = a.sent /\ r.sending = a.sending
  <2> HIDE DEF a, b
  <2> QED
    BY <1>2 DEF SessType, Shape
<1>5. /\ Shape(k, b) /\ k.msg = <<>> /\ k.queue = b.queue /\ k.got = b.got
      /\ k.receiving = b.receiving /\ k.sent = b.sent /\ k.sending = b.sending
  <2> HIDE DEF a, b
  <2> QED
    BY <1>2 DEF SessType, Shape
<1>6. a.st # "NONE"
  <2>1. z # None
    BY <1>1, Names
  <2> QED
    BY <1>2, <2>1 DEF PeerFits, Blank
<1>7. Fetch(s, q) = RaiseTo(w, <<z, "received">>, z, "RECEIVED", q)
  <2> DEFINE u == [s EXCEPT !.sess[q] = r]
  <2>1. Fetch(s, q) = RaiseTo([u EXCEPT !.sess[z].msg = <<>>], <<z, "received">>, z, "RECEIVED", q)
    BY DEF Fetch, nn_msgqueue_send
  <2>2. s.sess \in [Session -> SessType] /\ s \in ProcType
    BY DEF Good, ProcType
  <2>3. u.sess = [s.sess EXCEPT ![q] = r] /\ u.sess[z] = b
    BY <1>1, <2>2 DEF ProcType
  <2>4. [u EXCEPT !.sess[z].msg = <<>>] = w
    <3> HIDE DEF r
    <3>1. [u EXCEPT !.sess[z].msg = <<>>] = [u EXCEPT !.sess = [u.sess EXCEPT ![z] = k]]
      BY <2>3
    <3>2. [u.sess EXCEPT ![z] = k] = [s.sess EXCEPT ![q] = r, ![z] = k]
      BY <2>3
    <3> HIDE DEF k
    <3>3. [u EXCEPT !.sess = [s.sess EXCEPT ![q] = r, ![z] = k]] = w
      BY <2>2 DEF ProcType
    <3> QED
      BY <3>1, <3>2, <3>3
  <2> QED
    BY <2>1, <2>4
<1>8. ASSUME s.abort = "no", Paired(s, q) PROVE Moved(s, q, r, k) /\ Fetched(k)
  <2>1. Stream(a, b) /\ Stream(b, a)
    BY <1>8, PairStreams
  <2>2. Offered(a, b) /\ Gone(s, <<q, "sent">>)
    BY <1>8 DEF FetchDue
  <2>3. /\ Stream(r, k) /\ Stream(k, r) /\ Fetched(k) /\ ~Fetched(b)
        /\ Offered(b, a) => Offered(k, r)
        /\ Fetched(a) => Fetched(r)
    <3> HIDE DEF a, b, r, k
    <3> QED
      BY <1>2, <1>3, <1>4, <1>5, <2>1, <2>2, FetchMoves
  <2> HIDE DEF r, k
  <2> QED
    BY <2>2, <2>3 DEF Moved
<1>9. s.abort = "no" /\ b.st = "NONE" => SameData(k, b)
  <2>1. s.abort = "no" => Clean(s)
    BY DEF Good, Flow
  <2>2. s.abort = "no" /\ b.st = "NONE" => b.msg = <<>>
    BY <1>1, <2>1 DEF Clean
  <2> QED
    BY <1>5, <2>2 DEF SameData
<1>10. Step(s, w)
  <2> HIDE DEF r, k
  <2> QED
    BY <1>3, <1>4, <1>5, <1>6, <1>8, <1>9, ConnStep
<1>11. w.abort = s.abort /\ w.sess[z] = k /\ w.sess[q] = r
  <2>1. s.sess \in [Session -> SessType] /\ s \in ProcType
    BY DEF Good, ProcType
  <2> HIDE DEF r, k
  <2> QED
    BY <1>1, <2>1 DEF ProcType
<1> DEFINE v == [slot |-> <<z, "received">>, to |-> z, type |-> "RECEIVED", from |-> q]
<1>12. w.abort = "no" => EvFits(w, v)
  <2> SUFFICES ASSUME s.abort = "no", Paired(w, z) PROVE Fetched(w.sess[z])
    BY <1>11 DEF EvFits
  <2>1. r.st = a.st /\ k.st = b.st
    BY <1>4, <1>5 DEF Shape
  <2>2. Paired(s, q)
    BY <1>1, <1>11, <2>1 DEF Paired
  <2> QED
    BY <1>8, <1>11, <2>2
<1>13. v \in ToEvent /\ Fits(w, v)
  BY PeerEvent DEF Fits
<1> HIDE DEF w
<1>14. Step(w, RaiseTo(w, <<z, "received">>, z, "RECEIVED", q))
  BY <1>10, <1>12, <1>13, RaiseToStep DEF Step
<1> QED
  BY <1>7, <1>10, <1>14, StepTwice

-----------------------------------------------------------------------------
(* Sending and receiving (sinproc.c, pipe.c, excl.c)                       *)

(* A session may change anything but its messages and its shape.           *)
LEMMA SessDataStep ==
  ASSUME NEW s, Good(s), NEW q \in Session, NEW r \in SessType,
         Shape(r, s.sess[q]), SameData(r, s.sess[q])
  PROVE  Step(s, [s EXCEPT !.sess[q] = r])
<1>1. PeerFits(r, q) /\ Continues(r, s.sess[q])
  BY SessOf DEF PeerFits, Blank, Shape, Continues
<1> QED
  BY <1>1, SessStep

(* nn_sinproc_send (sinproc.c) is a step: its message fits, and the SENT   *)
(* it raises is not queued yet.                                            *)
LEMMA SinprocSendStep ==
  ASSUME NEW s, Good(s), NEW q \in Session
  PROVE  Step(s, nn_sinproc_send(s, q))
<1>0. Step(s, Bad(s))
  BY BadStep
<1> SUFFICES ASSUME s.sess[q].st = "ACTIVE", ~s.sess[q].sending
             PROVE  Step(s, nn_sinproc_send(s, q))
  BY <1>0 DEF nn_sinproc_send
<1> DEFINE z == Twin(q)
           a == s.sess[q]
           b == s.sess[z]
           n == a.sent + 1
           r == [a EXCEPT !.msg = <<n>>, !.sent = n, !.sending = TRUE]
           u == [s EXCEPT !.sess[q] = r]
           v == [slot |-> <<z, "sent">>, to |-> z, type |-> "SENT", from |-> q]
<1>1. a \in SessType /\ a.peer = z /\ b \in SessType /\ z \in Session /\ Twin(z) = q /\ z # q
  BY SessOf, Twins DEF PeerFits
<1>2. r \in SessType
  <2>1. n \in Nat
    BY <1>1 DEF SessType
  <2>2. <<n>> \in Seq(Nat)
    BY <2>1
  <2> HIDE DEF n
  <2> QED
    BY <1>1, <2>1, <2>2 DEF SessType
<1>3. /\ Shape(r, a) /\ r.sending = TRUE /\ r.msg = <<a.sent + 1>> /\ r.sent = a.sent + 1
      /\ r.receiving = a.receiving /\ r.queue = a.queue /\ r.got = a.got
  <2> HIDE DEF a
  <2> QED
    BY <1>1 DEF SessType, Shape
<1>4. nn_sinproc_send(s, q) = RaiseTo(u, <<z, "sent">>, z, "SENT", q)
  BY <1>1 DEF nn_sinproc_send
<1>5. ASSUME s.abort = "no", Paired(s, q) PROVE Moved(s, q, r, b) /\ Offered(b, r)
  <2>1. Stream(a, b) /\ Stream(b, a)
    BY <1>5, PairStreams
  <2>2. ~a.sending
    OBVIOUS
  <2>3. /\ Stream(r, b) /\ Stream(b, r) /\ Offered(b, r) /\ ~Offered(b, a) /\ ~Fetched(a)
        /\ Offered(a, b) => Offered(r, b)
    <3> HIDE DEF a, b, r
    <3> QED
      BY <1>1, <1>2, <1>3, <2>1, <2>2, SentMoves
  <2> HIDE DEF r
  <2> QED
    BY <2>3 DEF Moved
<1>6. Step(s, u)
  <2> HIDE DEF r
  <2> QED
    BY <1>2, <1>3, <1>5, OneStep
<1>7. u.abort = s.abort /\ u.sess[q] = r /\ u.sess[z] = b
  <2>1. s.sess \in [Session -> SessType] /\ s \in ProcType
    BY DEF Good, ProcType
  <2> HIDE DEF r
  <2> QED
    BY <1>1, <2>1 DEF ProcType
<1>8. u.abort = "no" => EvFits(u, v)
  <2> SUFFICES ASSUME s.abort = "no", Paired(u, z) PROVE Offered(u.sess[z], u.sess[Twin(z)])
    BY <1>7 DEF EvFits
  <2>1. Paired(s, q)
    BY <1>1, <1>3, <1>7 DEF Paired, Shape
  <2> QED
    BY <1>1, <1>5, <1>7, <2>1
<1>9. v \in ToEvent /\ Fits(u, v)
  BY PeerEvent DEF Fits
<1> HIDE DEF u
<1>10. Step(u, RaiseTo(u, <<z, "sent">>, z, "SENT", q))
  BY <1>6, <1>8, <1>9, RaiseToStep DEF Step
<1> QED
  BY <1>4, <1>6, <1>10, StepTwice

(* nn_msgqueue_recv is a step of its session's data alone.                 *)
LEMMA MsgqueueRecvStep ==
  ASSUME NEW s, Good(s), NEW q \in Session, s.sess[q].queue # <<>>, s.sess[q].st # "NONE"
  PROVE  LET u == nn_msgqueue_recv(s, q) IN
         /\ Step(s, u) /\ u.abort = s.abort /\ SameQueues(s, u)
         /\ u.sess[Twin(q)] = s.sess[Twin(q)] /\ Shape(u.sess[q], s.sess[q])
         /\ u.sess[q].receiving = s.sess[q].receiving
<1> DEFINE z == Twin(q)
           a == s.sess[q]
           b == s.sess[z]
           r == [a EXCEPT !.queue = Tail(@), !.got = Head(a.queue)]
           u == [s EXCEPT !.sess[q] = r]
<1>1. a \in SessType /\ b \in SessType /\ z \in Session /\ Twin(z) = q /\ z # q
  BY SessOf, Twins
<1>2. r \in SessType
  <2>1. Tail(a.queue) \in Seq(Nat) /\ Head(a.queue) \in Nat
    BY <1>1, SMTT(30) DEF SessType
  <2> HIDE DEF a
  <2> QED
    BY <1>1, <2>1 DEF SessType
<1>3. /\ Shape(r, a) /\ r.queue = Tail(a.queue) /\ r.got = Head(a.queue)
      /\ r.sending = a.sending /\ r.msg = a.msg /\ r.sent = a.sent /\ r.receiving = a.receiving
  <2> HIDE DEF a
  <2> QED
    BY <1>1 DEF SessType, Shape
<1>4. nn_msgqueue_recv(s, q) = u
  BY DEF nn_msgqueue_recv
<1>5. ASSUME s.abort = "no", Paired(s, q) PROVE Moved(s, q, r, b)
  <2>1. Stream(a, b) /\ Stream(b, a) /\ a.queue # <<>>
    BY <1>5, PairStreams
  <2>3. /\ Stream(r, b) /\ Stream(b, r)
        /\ Offered(a, b) => Offered(r, b)
        /\ Offered(b, a) => Offered(b, r)
        /\ Fetched(a) => Fetched(r)
    <3> HIDE DEF a, b, r
    <3> QED
      BY <1>1, <1>2, <1>3, <2>1, ReceivedMoves
  <2> HIDE DEF r
  <2> QED
    BY <2>3 DEF Moved
<1>6. Step(s, u)
  <2> HIDE DEF r
  <2> QED
    BY <1>2, <1>3, <1>5, OneStep
<1>7. u.abort = s.abort /\ u.sess[q] = r /\ u.sess[z] = b /\ SameQueues(s, u)
  <2>1. s.sess \in [Session -> SessType] /\ s \in ProcType
    BY DEF Good, ProcType
  <2> HIDE DEF r
  <2> QED
    BY <1>1, <2>1 DEF ProcType, SameQueues
<1> HIDE DEF u, r
<1> QED
  BY <1>3, <1>4, <1>6, <1>7

(* Only a SENT to session q is in q's event_sent.                          *)
LEMMA SlotOfSent ==
  ASSUME NEW s, s \in ProcType, NEW k \in At, NEW i \in DOMAIN QueueAt(s, k), NEW q,
         QueueAt(s, k)[i].slot = <<q, "sent">>
  PROVE  QueueAt(s, k)[i].type = "SENT" /\ QueueAt(s, k)[i].to = q
<1> DEFINE v == QueueAt(s, k)[i]
<1>1. QueueAt(s, k) \in Seq(OwnEvent) \/ QueueAt(s, k) \in Seq(ToEvent)
  BY DEF ProcType, At, QueueAt
<1>2. v \in OwnEvent \/ v \in ToEvent
  BY <1>1
<1>3. v.slot = <<q, "sent">>
  OBVIOUS
<1> HIDE DEF v
<1>4. v.slot = SlotOf(v)
  <2>1. v \notin FurtherEvent
    BY <1>3 DEF FurtherEvent
  <2> QED
    BY <1>2, <2>1 DEF OwnEvent, ToEvent, SessEvent, EventOf
<1>5. v.type \in {"IN", "OUT", "STOPPED", "EP_STOPPED", "READY", "ACCEPTED", "SENT", "RECEIVED",
                  "DISCONNECT", "CONNECT"}
  BY <1>2 DEF OwnEvent, ToEvent, SessEvent, FurtherEvent, EventOf, Way
<1>6. v.type = "SENT" /\ v.to = q
  <2>1. CASE v.type = "SENT"
    BY <1>3, <1>4, <2>1 DEF SlotOf
  <2>2. CASE v.type \in {"READY", "ACCEPTED", "CONNECT"}
    BY <1>3, <1>4, <2>2 DEF SlotOf
  <2>3. CASE v.type \in {"IN", "OUT"}
    BY <1>3, <1>4, <2>3 DEF SlotOf
  <2>4. CASE v.type \in {"STOPPED", "EP_STOPPED"}
    BY <1>3, <1>4, <2>4 DEF SlotOf
  <2>5. CASE v.type \in {"RECEIVED", "DISCONNECT"}
    BY <1>3, <1>4, <2>5 DEF SlotOf
  <2> QED
    BY <1>5, <2>1, <2>2, <2>3, <2>4, <2>5
<1> QED
  BY <1>6 DEF v

(* nn_sinproc_recv is a step, also when it fetches the message that waits  *)
(* with the peer.                                                          *)
LEMMA SinprocRecvStep ==
  ASSUME NEW s, Good(s), NEW q \in Session
  PROVE  Step(s, nn_sinproc_recv(s, q))
<1>0. Step(s, Bad(s))
  BY BadStep
<1> SUFFICES ASSUME s.sess[q].queue # <<>>, s.sess[q].st \in {"ACTIVE", "DISCONNECTED"}
             PROVE  Step(s, nn_sinproc_recv(s, q))
  BY <1>0 DEF nn_sinproc_recv
<1> DEFINE z == Twin(q)
           u == nn_msgqueue_recv(s, q)
           a == u.sess[q]
           b == u.sess[z]
           k == [a EXCEPT !.receiving = FALSE]
           w == [u EXCEPT !.sess[q] = k]
<1>1. /\ Step(s, u) /\ u.abort = s.abort /\ SameQueues(s, u)
      /\ u.sess[z] = s.sess[z] /\ Shape(a, s.sess[q]) /\ a.receiving = s.sess[q].receiving
  BY MsgqueueRecvStep
<1>2. nn_sinproc_recv(s, q) =
        IF s.sess[q].st = "ACTIVE" /\ s.sess[q].receiving /\ ~Full(u.sess[q].queue)
        THEN Fetch(w, q) ELSE u
  BY DEF nn_sinproc_recv
<1> HIDE DEF u
<1>3. ASSUME s.sess[q].st = "ACTIVE", s.sess[q].receiving PROVE Step(w, Fetch(w, q)) /\ Step(u, w)
  <2>1. Good(u) /\ a \in SessType /\ b \in SessType /\ z \in Session /\ Twin(z) = q /\ z # q
    BY <1>1, SessOf, Twins DEF Step
  <2>2. k \in SessType /\ Shape(k, a) /\ k.receiving = FALSE
        /\ k.queue = a.queue /\ k.got = a.got /\ k.sending = a.sending /\ k.msg = a.msg
        /\ k.sent = a.sent
    <3> HIDE DEF a
    <3> QED
      BY <2>1 DEF SessType, Shape
  <2>3. a.st = "ACTIVE" /\ a.receiving
    BY <1>1, <1>3 DEF Shape
  <2>4. ASSUME u.abort = "no", Paired(u, q) PROVE Moved(u, q, k, b) /\ Offered(k, b) /\ Gone(u, <<q, "sent">>)
    <3>1. Stream(a, b) /\ Stream(b, a)
      BY <2>1, <2>4, PairStreams
    <3>2. /\ Stream(k, b) /\ Stream(b, k)
          /\ Offered(a, b) => Offered(k, b)
          /\ Offered(b, a) => Offered(b, k)
          /\ Fetched(a) => Fetched(k)
      <4> HIDE DEF a, b, k
      <4> QED
        BY <2>2, <3>1, ReceivingMoves
    <3>3. Offered(k, b)
      BY <2>2, <2>3, <3>1 DEF Stream, Offered
    <3>4. Gone(u, <<q, "sent">>)
      <4> SUFFICES ASSUME NEW l \in At, NEW i \in DOMAIN QueueAt(u, l),
                          QueueAt(u, l)[i].slot = <<q, "sent">>
                   PROVE  FALSE
        BY DEF Gone
      <4>1. QueueAt(u, l)[i].type = "SENT" /\ QueueAt(u, l)[i].to = q
        BY <2>1, SlotOfSent DEF Good
      <4>2. EvFits(u, QueueAt(u, l)[i])
        BY <2>1, <2>4 DEF Good, Flow, Due
      <4>3. Offered(a, b)
        BY <2>4, <4>1, <4>2 DEF EvFits
      <4> QED
        BY <2>3, <4>3 DEF Offered
    <3> HIDE DEF k
    <3> QED
      BY <3>2, <3>3, <3>4 DEF Moved
  <2>5. Step(u, w)
    <3> HIDE DEF k
    <3> QED
      BY <2>1, <2>2, <2>3, <2>4, OneStep
  <2>6. w.abort = u.abort /\ w.sess[q] = k /\ w.sess[z] = b /\ SameQueues(u, w)
    <3>1. u.sess \in [Session -> SessType] /\ u \in ProcType
      BY <2>1 DEF Good, ProcType
    <3> HIDE DEF k
    <3> QED
      BY <2>1, <3>1 DEF ProcType, SameQueues
  <2> HIDE DEF w
  <2>7. FetchDue(w, q)
    <3> SUFFICES ASSUME u.abort = "no", Paired(w, q)
                 PROVE  Offered(w.sess[q], w.sess[z]) /\ Gone(w, <<q, "sent">>)
      BY <2>6 DEF FetchDue
    <3>1. Paired(u, q)
      BY <2>2, <2>6 DEF Paired, Shape
    <3>2. \A l \in At : QueueAt(w, l) = QueueAt(u, l)
      BY <2>6, QueuesSame
    <3>3. Gone(u, <<q, "sent">>) /\ Offered(k, b)
      BY <2>4, <3>1
    <3> QED
      BY <2>6, <3>2, <3>3 DEF Gone
  <2>8. w.sess[q].peer = z
    <3>1. PeerFits(a, q)
      BY <2>1, SessOf
    <3> QED
      BY <2>2, <2>3, <2>6, <3>1 DEF PeerFits, Shape
  <2> QED
    BY <2>5, <2>7, <2>8, FetchStep DEF Step
<1> HIDE DEF w
<1> QED
  BY <1>1, <1>2, <1>3, StepTwice

(* nn_pipebase's outstate is no part of the invariant but of its type.     *)
LEMMA SetOutStep ==
  ASSUME NEW s, Good(s), NEW q \in Session, NEW x \in {"none", "ASYNC", "IDLE"}
  PROVE  Step(s, [s EXCEPT !.sess[q].out = x])
<1> DEFINE r == [s.sess[q] EXCEPT !.out = x]
<1>1. s.sess[q] \in SessType
  BY SessOf
<1>2. r \in SessType /\ Shape(r, s.sess[q]) /\ SameData(r, s.sess[q])
  BY <1>1 DEF SessType, Shape, SameData
<1> HIDE DEF r
<1>3. Step(s, [s EXCEPT !.sess[q] = r])
  BY <1>2, SessDataStep
<1> QED
  BY <1>3 DEF r

(* nn_pipebase's instate is no part of the invariant but of its type.      *)
LEMMA SetInStep ==
  ASSUME NEW s, Good(s), NEW q \in Session, NEW x \in {"none", "ASYNC", "IDLE"}
  PROVE  Step(s, [s EXCEPT !.sess[q].in = x])
<1> DEFINE r == [s.sess[q] EXCEPT !.in = x]
<1>1. s.sess[q] \in SessType
  BY SessOf
<1>2. r \in SessType /\ Shape(r, s.sess[q]) /\ SameData(r, s.sess[q])
  BY <1>1 DEF SessType, Shape, SameData
<1> HIDE DEF r
<1>3. Step(s, [s EXCEPT !.sess[q] = r])
  BY <1>2, SessDataStep
<1> QED
  BY <1>3 DEF r

(* nn_pipe_send is a step.                                                 *)
LEMMA PipeSendStep ==
  ASSUME NEW s, Good(s), NEW q \in Session
  PROVE  Step(s, nn_pipe_send(s, q))
<1> DEFINE u == nn_sinproc_send(s, q)
<1>1. Step(s, u)
  BY SinprocSendStep
<1>2. nn_pipe_send(s, q) = IF s.sess[q].out # "IDLE" THEN Bad(s)
                           ELSE [u EXCEPT !.sess[q].out = "ASYNC"]
  BY DEF nn_pipe_send
<1> HIDE DEF u
<1>3. Step(u, [u EXCEPT !.sess[q].out = "ASYNC"])
  BY <1>1, SetOutStep DEF Step
<1> QED
  BY <1>1, <1>2, <1>3, StepTwice, BadStep

(* nn_pipe_recv is a step.                                                 *)
LEMMA PipeRecvStep ==
  ASSUME NEW s, Good(s), NEW q \in Session
  PROVE  Step(s, nn_pipe_recv(s, q))
<1> DEFINE u == nn_sinproc_recv(s, q)
           x == IF u.sess[q].queue # <<>> THEN "IDLE" ELSE "ASYNC"
<1>1. Step(s, u)
  BY SinprocRecvStep
<1>2. nn_pipe_recv(s, q) = IF s.sess[q].in # "IDLE" THEN Bad(s)
                           ELSE [u EXCEPT !.sess[q].in = x]
  BY DEF nn_pipe_recv
<1>3. x \in {"none", "ASYNC", "IDLE"}
  OBVIOUS
<1> HIDE DEF u, x
<1>4. Step(u, [u EXCEPT !.sess[q].in = x])
  BY <1>1, <1>3, SetInStep DEF Step
<1> QED
  BY <1>1, <1>2, <1>4, StepTwice, BadStep

(* nn_excl_send is a step: nn_pair_send of a socket with a writable pipe.  *)
LEMMA ExclSendStep ==
  ASSUME NEW s, Good(s), NEW o \in Socket, s.sock[o].excl.outpipe # None
  PROVE  Step(s, nn_excl_send(s, o))
<1> DEFINE x == [s.sock[o].excl EXCEPT !.outpipe = None]
           q == s.sock[o].excl.outpipe
           u == [s EXCEPT !.sock[o].excl = x]
<1>1. s.sock[o].excl \in ExclType
  BY ExclOf DEF Good
<1>2. q \in Session /\ x \in ExclType
  BY <1>1 DEF ExclType, PipeName
<1>3. nn_excl_send(s, o) = nn_pipe_send(u, q)
  BY DEF nn_excl_send
<1> HIDE DEF x
<1>4. Step(s, u)
  BY <1>2, ExclStep
<1> HIDE DEF u, q
<1>5. Step(u, nn_pipe_send(u, q))
  BY <1>2, <1>4, PipeSendStep DEF Step
<1> QED
  BY <1>3, <1>4, <1>5, StepTwice

(* nn_excl_recv is a step: nn_pair_recv of a socket with a readable pipe.  *)
LEMMA ExclRecvStep ==
  ASSUME NEW s, Good(s), NEW o \in Socket, s.sock[o].excl.inpipe # None
  PROVE  Step(s, nn_excl_recv(s, o))
<1> DEFINE q == s.sock[o].excl.inpipe
           u == nn_pipe_recv(s, q)
           x == [u.sock[o].excl EXCEPT !.inpipe = None]
<1>1. s.sock[o].excl \in ExclType
  BY ExclOf DEF Good
<1>2. q \in Session
  BY <1>1 DEF ExclType, PipeName
<1>3. nn_excl_recv(s, o) = IF u.sess[q].in = "IDLE" THEN u ELSE [u EXCEPT !.sock[o].excl = x]
  BY DEF nn_excl_recv
<1> HIDE DEF q
<1>4. Step(s, u)
  BY <1>2, PipeRecvStep
<1> HIDE DEF u
<1>5. u.sock[o].excl \in ExclType
  BY <1>4, ExclOf DEF Good, Step
<1>6. x \in ExclType
  BY <1>5 DEF ExclType, PipeName
<1> HIDE DEF x
<1>7. Step(u, [u EXCEPT !.sock[o].excl = x])
  BY <1>4, <1>6, ExclStep DEF Step
<1> QED
  BY <1>3, <1>4, <1>7, StepTwice

-----------------------------------------------------------------------------
(* Sessions connect, stop and handle their events (sinproc.c)              *)

(* CONNECT is an event of an endpoint's context.                           *)
LEMMA ConnectEvent ==
  ASSUME NEW q \in Session, NEW e \in Endpoint
  PROVE  [slot |-> <<q, "connect">>, to |-> <<"base", e>>, type |-> "CONNECT", from |-> q] \in ToEvent
BY DEF ToEvent, FurtherEvent, EventOf, SlotName, SlotOf, BaseName

(* A session's STOPPED is an own event of its endpoint's context.          *)
LEMMA StoppedEvent ==
  ASSUME NEW q \in Session, NEW e \in Endpoint
  PROVE  [slot |-> <<q, "stopped">>, to |-> <<"base", e>>, type |-> "STOPPED", from |-> q] \in OwnEvent
BY DEF OwnEvent, EventOf, SlotName, SlotOf, BaseName

(* A live session may go to any state in which it needs no peer.           *)
LEMMA SessStateStep ==
  ASSUME NEW s, Good(s), NEW q \in Session,
         NEW x \in SessState \ {"NONE", "FREED", "READY", "ACTIVE"}, ~Blank(s.sess[q])
  PROVE  Step(s, [s EXCEPT !.sess[q].st = x])
<1> DEFINE r == [s.sess[q] EXCEPT !.st = x]
<1>1. s.sess[q] \in SessType /\ PeerFits(s.sess[q], q)
  BY SessOf
<1>2. r \in SessType /\ r.st = x /\ r.peer = s.sess[q].peer /\ r.ep = s.sess[q].ep
  BY <1>1 DEF SessType
<1>3. PeerFits(r, q) /\ Continues(r, s.sess[q])
  <2>1. SameData(r, s.sess[q])
    BY <1>1 DEF SessType, SameData
  <2> QED
    BY <1>1, <1>2, <2>1 DEF PeerFits, Blank, Continues
<1> HIDE DEF r
<1>4. Step(s, [s EXCEPT !.sess[q] = r])
  BY <1>2, <1>3, SessStep
<1> QED
  BY <1>4 DEF r

(* nn_sinproc_connect to an endpoint of the other kind is a step.          *)
LEMMA SinprocConnectStep ==
  ASSUME NEW s, Good(s), NEW q \in Session, NEW b \in Endpoint, ~Blank(s.sess[q]),
         IF q[1] = "c" THEN s.ep[b].kind = "bind" ELSE b = q[2] /\ s.ep[b].kind = "connect"
  PROVE  /\ Step(s, nn_sinproc_connect(s, q, <<"base", b>>))
         /\ nn_sinproc_connect(s, q, <<"base", b>>).ep = s.ep
         /\ nn_sinproc_connect(s, q, <<"base", b>>).bound = s.bound
         /\ nn_sinproc_connect(s, q, <<"base", b>>).connected = s.connected
<1> DEFINE u == [s EXCEPT !.sess[q].st = "CONNECTING"]
           v == [slot |-> <<q, "connect">>, to |-> <<"base", b>>, type |-> "CONNECT", from |-> q]
           w == RaiseTo(u, <<q, "connect">>, <<"base", b>>, "CONNECT", q)
<1>1. Step(s, u)
  BY SessStateStep DEF SessState
<1>2. u.ep = s.ep /\ u.bound = s.bound /\ u.connected = s.connected
  BY DEF Good, ProcType
<1>3. nn_sinproc_connect(s, q, <<"base", b>>) = w
  BY DEF nn_sinproc_connect
<1> HIDE DEF u
<1>4. Fits(u, v) /\ EvFits(u, v)
  BY <1>2 DEF Fits, EvFits
<1>5. Step(u, w)
  BY <1>1, <1>4, ConnectEvent, RaiseToStep DEF Step
<1>6. w.ep = u.ep /\ w.bound = u.bound /\ w.connected = u.connected
  <2>1. u \in ProcType
    BY <1>1 DEF Step, Good
  <2> QED
    BY <2>1 DEF RaiseTo, RaiseIn, Abort, ProcType
<1> HIDE DEF w
<1> QED
  BY <1>1, <1>2, <1>3, <1>5, <1>6, StepTwice

(* nn_sinproc_accept of the twin is a step.                                *)
LEMMA SinprocAcceptStep ==
  ASSUME NEW s, Good(s), NEW q \in Session
  PROVE  Step(s, nn_sinproc_accept(s, q, Twin(q)))
<1>0. Step(s, Bad(s))
  BY BadStep
<1> SUFFICES ASSUME s.sess[q].st = "IDLE"
             PROVE  Step(s, nn_sinproc_accept(s, q, Twin(q)))
  BY <1>0 DEF nn_sinproc_accept
<1> DEFINE r == [s.sess[q] EXCEPT !.peer = Twin(q), !.st = "READY"]
           u == [s EXCEPT !.sess[q] = r]
           w == RaiseTo(u, <<q, "connect">>, Twin(q), "READY", q)
<1>1. s.sess[q] \in SessType
  BY SessOf
<1>2. r \in SessType /\ r.peer = Twin(q) /\ r.st = "READY" /\ r.ep = s.sess[q].ep
  BY <1>1, Names DEF SessType, SessState, PipeName
<1>3. PeerFits(r, q) /\ Continues(r, s.sess[q])
  <2>1. SameData(r, s.sess[q])
    BY <1>1 DEF SessType, SameData
  <2> QED
    BY <1>2, <2>1 DEF PeerFits, Blank, Continues
<1>4. nn_sinproc_accept(s, q, Twin(q)) = IF s.sess[q].peer # None \/ s.sess[q].st # "IDLE" THEN Bad(s) ELSE w
  BY DEF nn_sinproc_accept
<1> HIDE DEF r
<1>5. Step(s, u)
  BY <1>2, <1>3, SessStep
<1> HIDE DEF u
<1>6. Step(u, w)
  BY <1>5, PeerEvent, RaiseToPeerStep DEF Step
<1> QED
  BY <1>0, <1>4, <1>5, <1>6, StepTwice

(* The end of nn_sinproc_shutdown, which waits for the session's events to *)
(* leave their queues, is a step.                                          *)
LEMMA StoppedIfDoneStep ==
  ASSUME NEW s, Good(s), NEW q \in Session
  PROVE  Step(s, StoppedIfDone(s, q))
<1>0. Step(s, Abort(s, "stops_before_its_events")) /\ Step(s, s)
  BY AbortStep, StepNot DEF Why
<1> SUFFICES ASSUME s.sess[q].st = "STOPPING"
             PROVE  Step(s, StoppedIfDone(s, q))
  BY <1>0 DEF StoppedIfDone
<1> DEFINE e == s.sess[q].ep
           u == [s EXCEPT !.sess[q].st = "STOPPED"]
           w == Raise(u, <<q, "stopped">>, <<"base", e>>, "STOPPED", q)
<1>1. e \in Endpoint
  <2>1. s.sess[q] \in SessType
    BY SessOf
  <2> QED
    BY <2>1 DEF SessType
<1>2. StoppedIfDone(s, q) \in {s, Abort(s, "stops_before_its_events"), w}
  BY DEF StoppedIfDone
<1> HIDE DEF e
<1>3. Step(s, u)
  BY SessStateStep DEF SessState, Blank
<1> HIDE DEF u
<1>4. Step(u, w)
  BY <1>1, <1>3, StoppedEvent, RaiseStep DEF Step
<1> HIDE DEF w
<1> QED
  BY <1>0, <1>2, <1>3, <1>4, StepTwice

(* nn_pipebase_stop leaves a session's state and peer alone.               *)
LEMMA PipeStopSess ==
  ASSUME NEW s, Good(s), NEW q \in Session
  PROVE  /\ nn_pipebase_stop(s, q).sess[q].st = s.sess[q].st
         /\ nn_pipebase_stop(s, q).sess[q].peer = s.sess[q].peer
<1>1. s.sess \in [Session -> SessType] /\ s \in ProcType /\ s.sess[q] \in SessType
  BY DEF Good, ProcType
<1> DEFINE r == [s.sess[q] EXCEPT !.pipe = "IDLE"]
           u == [s EXCEPT !.sess[q] = r]
<1>2. r.st = s.sess[q].st /\ r.peer = s.sess[q].peer
  BY <1>1 DEF SessType
<1>3. u.sess[q] = r
  BY <1>1 DEF ProcType
<1>4. nn_excl_rm(u, SocketOf(s, q)).sess = u.sess
  BY <1>1 DEF nn_excl_rm, ProcType
<1>5. nn_pipebase_stop(s, q) = IF s.sess[q].pipe # "ACTIVE" THEN s ELSE nn_excl_rm(u, SocketOf(s, q))
  BY DEF nn_pipebase_stop
<1> HIDE DEF r, u
<1> QED
  BY <1>2, <1>3, <1>4, <1>5

(* A session that leaves its connection and tells its peer makes a step.   *)
LEMMA DisconnectStep ==
  ASSUME NEW s, Good(s), NEW q \in Session, ~Blank(s.sess[q]), s.sess[q].peer = Twin(q),
         NEW x \in {"DISCONNECTED", "STOPPING_PEER"}
  PROVE  Step(s, RaiseTo([nn_pipebase_stop(s, q) EXCEPT !.sess[q].st = x],
                         <<Twin(q), "disconnect">>, Twin(q), "DISCONNECT", q))
<1> DEFINE u == nn_pipebase_stop(s, q)
           w == [u EXCEPT !.sess[q].st = x]
<1>1. Step(s, u) /\ ~Blank(u.sess[q])
  BY PipeStopStep, PipeStopSess DEF Blank
<1> HIDE DEF u
<1>2. Step(u, w)
  BY <1>1, SessStateStep DEF SessState, Step
<1> HIDE DEF w
<1>3. Step(w, RaiseTo(w, <<Twin(q), "disconnect">>, Twin(q), "DISCONNECT", q))
  BY <1>2, PeerEvent, RaiseToPeerStep DEF Step
<1>4. Step(s, RaiseTo(w, <<Twin(q), "disconnect">>, Twin(q), "DISCONNECT", q))
  BY <1>1, <1>2, <1>3, StepTwice
<1> QED
  BY <1>4 DEF u, w

(* nn_sinproc_stop is a step, in every state of the session.               *)
LEMMA SinprocStopStep ==
  ASSUME NEW s, Good(s), NEW q \in Session
  PROVE  Step(s, nn_sinproc_stop(s, q))
<1> DEFINE x == s.sess[q].peer
           silent == nn_pipebase_stop(s, q)
           d == RaiseTo([silent EXCEPT !.sess[q].st = "STOPPING_PEER"],
                        <<x, "disconnect">>, x, "DISCONNECT", q)
           w == [s EXCEPT !.sess[q].st = "STOPPING"]
<1>1. PeerFits(s.sess[q], q)
  BY SessOf
<1>2. Step(s, s) /\ Step(s, Abort(s, "stops_without_peer"))
  BY AbortStep, StepNot DEF Why
<1>3. CASE s.sess[q].st = "DISCONNECTED"
  <2>1. Step(s, w)
    BY <1>3, SessStateStep DEF SessState, Blank
  <2> HIDE DEF w
  <2>2. Step(w, StoppedIfDone(w, q))
    BY <2>1, StoppedIfDoneStep DEF Step
  <2>3. Step(s, StoppedIfDone(w, q))
    BY <2>1, <2>2, StepTwice
  <2> QED
    BY <1>3, <2>3 DEF nn_sinproc_stop, w
<1>4. CASE s.sess[q].st \in {"IDLE", "STOPPING_PEER", "STOPPING", "STOPPED"}
  BY <1>2, <1>4 DEF nn_sinproc_stop
<1>5. CASE s.sess[q].st \notin {"IDLE", "STOPPING_PEER", "STOPPING", "STOPPED", "DISCONNECTED"}
  <2>1. nn_sinproc_stop(s, q) = IF x = None THEN Abort(s, "stops_without_peer") ELSE d
    BY <1>5 DEF nn_sinproc_stop
  <2>2. ASSUME x # None PROVE Step(s, d)
    <3>1. x = Twin(q) /\ ~Blank(s.sess[q])
      BY <1>1, <2>2 DEF PeerFits
    <3> QED
      BY <3>1, DisconnectStep
  <2> HIDE DEF x, d
  <2> QED
    BY <1>2, <2>1, <2>2
<1> QED
  BY <1>3, <1>4, <1>5

(* nn_sinproc_shutdown is a step, whatever event it is told.               *)
LEMMA SinprocShutdownStep ==
  ASSUME NEW s, Good(s), NEW q \in Session, NEW told
  PROVE  Step(s, nn_sinproc_shutdown(s, q, told))
<1> DEFINE w == [s EXCEPT !.sess[q].st = "STOPPING"]
<1>1. Step(s, Abort(s, "sent_to_stopping")) /\ Step(s, Bad(s)) /\ Step(s, StoppedIfDone(s, q))
  BY AbortStep, BadStep, StoppedIfDoneStep DEF Why
<1>2. ASSUME s.sess[q].st = "STOPPING_PEER" PROVE Step(s, StoppedIfDone(w, q))
  <2>1. Step(s, w)
    BY <1>2, SessStateStep DEF SessState, Blank
  <2> HIDE DEF w
  <2>2. Step(w, StoppedIfDone(w, q))
    BY <2>1, StoppedIfDoneStep DEF Step
  <2> QED
    BY <2>1, <2>2, StepTwice
<1> HIDE DEF w
<1>3. CASE told = "RECEIVED"
  BY <1>1, <1>3 DEF nn_sinproc_shutdown
<1>4. CASE told = "DISCONNECT" /\ s.sess[q].st = "STOPPING_PEER"
  BY <1>2, <1>4 DEF nn_sinproc_shutdown, w
<1>5. CASE told = "SENT" /\ s.sess[q].st = "STOPPING_PEER"
  BY <1>1, <1>5 DEF nn_sinproc_shutdown
<1>6. CASE told # "RECEIVED" /\ ~(told \in {"DISCONNECT", "SENT"} /\ s.sess[q].st = "STOPPING_PEER")
  BY <1>1, <1>6 DEF nn_sinproc_shutdown
<1> QED
  BY <1>3, <1>4, <1>5, <1>6

(* The event that is handled was the only one of its slot.                 *)
Handed(s, v) == s.abort = "no" => EvFits(s, v) /\ Gone(s, v.slot)

(* A message that is due may be left with its sender.                      *)
LEMMA SetReceivingStep ==
  ASSUME NEW s, Good(s), NEW q \in Session, s.sess[q].st # "NONE", FetchDue(s, q)
  PROVE  Step(s, [s EXCEPT !.sess[q].receiving = TRUE])
<1> DEFINE a == s.sess[q]
           b == s.sess[Twin(q)]
           r == [a EXCEPT !.receiving = TRUE]
<1>1. a \in SessType
  BY SessOf
<1>2. /\ r \in SessType /\ Shape(r, a) /\ r.receiving = TRUE /\ r.queue = a.queue
      /\ r.got = a.got /\ r.sending = a.sending /\ r.msg = a.msg /\ r.sent = a.sent
  <2> HIDE DEF a
  <2> QED
    BY <1>1 DEF SessType, Shape
<1>3. ASSUME s.abort = "no", Paired(s, q) PROVE Moved(s, q, r, b)
  <2>1. Stream(a, b) /\ Stream(b, a)
    BY <1>3, PairStreams
  <2>2. Offered(a, b) /\ Gone(s, <<q, "sent">>)
    BY <1>3 DEF FetchDue
  <2>3. /\ Stream(r, b) /\ Stream(b, r)
        /\ Offered(b, a) => Offered(b, r)
        /\ Fetched(a) => Fetched(r)
    <3> HIDE DEF a, b, r
    <3> QED
      BY <1>2, <2>1, <2>2, ReceivingMoves
  <2> HIDE DEF r
  <2> QED
    BY <2>2, <2>3 DEF Moved
<1> HIDE DEF r
<1>4. Step(s, [s EXCEPT !.sess[q] = r])
  BY <1>2, <1>3, OneStep
<1> QED
  BY <1>4 DEF r

(* A sender whose message has been taken may send again.                   *)
LEMMA SetSendingStep ==
  ASSUME NEW s, Good(s), NEW q \in Session, s.sess[q].st # "NONE",
         s.abort = "no" => (Paired(s, q) => Fetched(s.sess[q])) /\ Gone(s, <<q, "received">>)
  PROVE  Step(s, [s EXCEPT !.sess[q].sending = FALSE])
<1> DEFINE a == s.sess[q]
           b == s.sess[Twin(q)]
           r == [a EXCEPT !.sending = FALSE]
<1>1. a \in SessType
  BY SessOf
<1>2. /\ r \in SessType /\ Shape(r, a) /\ r.sending = FALSE /\ r.queue = a.queue
      /\ r.got = a.got /\ r.receiving = a.receiving /\ r.msg = a.msg /\ r.sent = a.sent
  <2> HIDE DEF a
  <2> QED
    BY <1>1 DEF SessType, Shape
<1>3. ASSUME s.abort = "no", Paired(s, q) PROVE Moved(s, q, r, b)
  <2>1. Stream(a, b) /\ Stream(b, a)
    BY <1>3, PairStreams
  <2>2. Fetched(a) /\ Gone(s, <<q, "received">>)
    BY <1>3
  <2>3. /\ Stream(r, b) /\ Stream(b, r) /\ ~Offered(b, a)
        /\ Offered(a, b) => Offered(r, b)
    <3> HIDE DEF a, b, r
    <3> QED
      BY <1>2, <2>1, <2>2, SendingMoves
  <2> HIDE DEF r
  <2> QED
    BY <2>2, <2>3 DEF Moved
<1> HIDE DEF r
<1>4. Step(s, [s EXCEPT !.sess[q] = r])
  BY <1>2, <1>3, OneStep
<1> QED
  BY <1>4 DEF r

(* A stop of the process leaves the sessions as they are.                  *)
LEMMA AbortParts ==
  ASSUME NEW s, s \in ProcType, NEW why \in Why \ {"no"}
  PROVE  Abort(s, why).sess = s.sess /\ Abort(s, why).abort # "no"
BY DEF Abort, ProcType

(* nn_fsm_raise changes no session and occupies only its own slot.         *)
LEMMA RaiseParts ==
  ASSUME NEW s, s \in ProcType, NEW slot, NEW to, NEW type, NEW from, NEW other, other # slot
  PROVE  LET u == Raise(s, slot, to, type, from) IN
         /\ u.sess = s.sess
         /\ u.abort = "no" => s.abort = "no" /\ (Gone(s, other) => Gone(u, other))
<1> DEFINE v == [slot |-> slot, to |-> to, type |-> type, from |-> from]
           u == [s EXCEPT !.events = Append(@, v)]
<1>1. Raise(s, slot, to, type, from) = IF InQueue(s, slot) THEN Abort(s, "event_raised_twice")
                                       ELSE IF InHand(s, slot) THEN Abort(s, "event_overwritten")
                                       ELSE u
  BY DEF Raise, RaiseIn
<1>2. /\ u.sess = s.sess /\ u.abort = s.abort /\ u.events = Append(s.events, v)
      /\ u.eventsto = s.eventsto /\ u.pend = s.pend /\ u.hand = s.hand
  BY DEF ProcType
<1>3. s.events \in Seq(OwnEvent) /\ v.slot = slot
  BY DEF ProcType
<1> HIDE DEF u, v
<1>4. ASSUME Gone(s, other) PROVE Gone(u, other)
  <2> SUFFICES ASSUME NEW k \in At, NEW i \in DOMAIN QueueAt(u, k) PROVE QueueAt(u, k)[i].slot # other
    BY DEF Gone
  <2>1. CASE k[1] = "events"
    <3>1. QueueAt(u, k) = Append(s.events, v) /\ QueueAt(s, k) = s.events
      BY <1>2, <2>1 DEF QueueAt
    <3>2. \/ i \in DOMAIN s.events /\ Append(s.events, v)[i] = s.events[i]
          \/ Append(s.events, v)[i] = v
      BY <1>3, <3>1, Appended
    <3> QED
      BY <1>3, <1>4, <3>1, <3>2 DEF Gone
  <2>2. CASE k[1] # "events"
    <3>1. QueueAt(u, k) = QueueAt(s, k)
      BY <1>2, <2>2 DEF QueueAt, At
    <3> QED
      BY <1>4, <3>1 DEF Gone
  <2> QED
    BY <2>1, <2>2
<1> QED
  BY <1>1, <1>2, <1>4, AbortParts DEF Why

(* nn_pipebase_received does not consume the message that is due.          *)
LEMMA ReceivedKeepsDue ==
  ASSUME NEW s, Good(s), NEW q \in Session, FetchDue(s, q)
  PROVE  FetchDue(nn_pipebase_received(s, q), q)
<1> DEFINE r == [s.sess[q] EXCEPT !.in = "IDLE"]
           u == [s EXCEPT !.sess[q] = r]
           w == Raise(u, <<q, "in">>, <<"sock", SocketOf(s, q)>>, "IN", q)
<1>1. nn_pipebase_received(s, q) = IF s.sess[q].in # "ASYNC" THEN Bad(s) ELSE w
  BY DEF nn_pipebase_received
<1>2. s \in ProcType /\ s.sess \in [Session -> SessType] /\ s.sess[q] \in SessType /\ Twin(q) \in Session
      /\ Twin(q) # q
  BY Twins DEF Good, ProcType
<1>3. Bad(s).abort # "no"
  BY <1>2, AbortParts DEF Bad, Why
<1>4. r \in SessType /\ Shape(r, s.sess[q]) /\ r.receiving = s.sess[q].receiving
  BY <1>2 DEF SessType, Shape
<1> HIDE DEF r
<1>5. /\ u.abort = s.abort /\ SameQueues(s, u) /\ u.sess[q] = r /\ u.sess[Twin(q)] = s.sess[Twin(q)]
      /\ u \in ProcType
  <2> DEFINE S == [s.sess EXCEPT ![q] = r]
  <2>1. S \in [Session -> SessType] /\ S[q] = r /\ S[Twin(q)] = s.sess[Twin(q)]
    BY <1>2, <1>4
  <2> HIDE DEF S
  <2>2. LET x == [s EXCEPT !.sess = S] IN
        x.abort = s.abort /\ SameQueues(s, x) /\ x.sess = S /\ x \in ProcType
    BY <1>2, <2>1 DEF ProcType, SameQueues
  <2> QED
    BY <2>1, <2>2 DEF S
<1> HIDE DEF u
<1>6. /\ w.sess = u.sess
      /\ w.abort = "no" => u.abort = "no" /\ (Gone(u, <<q, "sent">>) => Gone(w, <<q, "sent">>))
  <2>1. <<q, "sent">> # <<q, "in">>
    OBVIOUS
  <2> QED
    BY <1>5, <2>1, RaiseParts
<1> HIDE DEF w
<1>7. FetchDue(w, q)
  <2> SUFFICES ASSUME w.abort = "no", Paired(w, q)
               PROVE  Offered(w.sess[q], w.sess[Twin(q)]) /\ Gone(w, <<q, "sent">>)
    BY DEF FetchDue
  <2>1. Paired(s, q)
    BY <1>4, <1>5, <1>6 DEF Paired, Shape
  <2>2. Offered(s.sess[q], s.sess[Twin(q)]) /\ Gone(s, <<q, "sent">>)
    BY <1>5, <1>6, <2>1 DEF FetchDue
  <2>3. Gone(u, <<q, "sent">>)
    <3>1. \A k \in At : QueueAt(u, k) = QueueAt(s, k)
      BY <1>5, QueuesSame
    <3> QED
      BY <2>2, <3>1 DEF Gone
  <2> QED
    BY <1>4, <1>5, <1>6, <2>2, <2>3 DEF Offered
<1> QED
  BY <1>1, <1>3, <1>7 DEF FetchDue

(* nn_pipebase_sent leaves the sender's message taken and its RECEIVED     *)
(* gone.                                                                   *)
LEMMA SentKeepsDue ==
  ASSUME NEW s, Good(s), NEW q \in Session,
         s.abort = "no" => (Paired(s, q) => Fetched(s.sess[q])) /\ Gone(s, <<q, "received">>)
  PROVE  LET w == nn_pipebase_sent(s, q) IN
         /\ w.abort = "no" => (Paired(w, q) => Fetched(w.sess[q])) /\ Gone(w, <<q, "received">>)
         /\ w.sess[q].st = s.sess[q].st
<1> DEFINE r == [s.sess[q] EXCEPT !.out = "IDLE"]
           u == [s EXCEPT !.sess[q] = r]
           w == Raise(u, <<q, "out">>, <<"sock", SocketOf(s, q)>>, "OUT", q)
<1>1. nn_pipebase_sent(s, q) = IF s.sess[q].out # "ASYNC" THEN Bad(s) ELSE w
  BY DEF nn_pipebase_sent
<1>2. s \in ProcType /\ s.sess \in [Session -> SessType] /\ s.sess[q] \in SessType /\ Twin(q) \in Session
      /\ Twin(q) # q
  BY Twins DEF Good, ProcType
<1>3. Bad(s).abort # "no" /\ Bad(s).sess = s.sess
  BY <1>2, AbortParts DEF Bad, Why
<1>4. r \in SessType /\ Shape(r, s.sess[q]) /\ r.sending = s.sess[q].sending /\ r.msg = s.sess[q].msg
  BY <1>2 DEF SessType, Shape
<1> HIDE DEF r
<1>5. /\ u.abort = s.abort /\ SameQueues(s, u) /\ u.sess[q] = r /\ u.sess[Twin(q)] = s.sess[Twin(q)]
      /\ u \in ProcType
  <2> DEFINE S == [s.sess EXCEPT ![q] = r]
  <2>1. S \in [Session -> SessType] /\ S[q] = r /\ S[Twin(q)] = s.sess[Twin(q)]
    BY <1>2, <1>4
  <2> HIDE DEF S
  <2>2. LET x == [s EXCEPT !.sess = S] IN
        x.abort = s.abort /\ SameQueues(s, x) /\ x.sess = S /\ x \in ProcType
    BY <1>2, <2>1 DEF ProcType, SameQueues
  <2> QED
    BY <2>1, <2>2 DEF S
<1> HIDE DEF u
<1>6. /\ w.sess = u.sess
      /\ w.abort = "no" => u.abort = "no" /\ (Gone(u, <<q, "received">>) => Gone(w, <<q, "received">>))
  <2>1. <<q, "received">> # <<q, "out">>
    OBVIOUS
  <2> QED
    BY <1>5, <2>1, RaiseParts
<1> HIDE DEF w
<1>7. w.abort = "no" => (Paired(w, q) => Fetched(w.sess[q])) /\ Gone(w, <<q, "received">>)
  <2> SUFFICES ASSUME w.abort = "no"
               PROVE  (Paired(w, q) => Fetched(w.sess[q])) /\ Gone(w, <<q, "received">>)
    OBVIOUS
  <2>1. Paired(w, q) => Paired(s, q)
    BY <1>4, <1>5, <1>6 DEF Paired, Shape
  <2>2. (Paired(s, q) => Fetched(s.sess[q])) /\ Gone(s, <<q, "received">>)
    BY <1>5, <1>6
  <2>3. Gone(u, <<q, "received">>)
    <3>1. \A k \in At : QueueAt(u, k) = QueueAt(s, k)
      BY <1>5, QueuesSame
    <3> QED
      BY <2>2, <3>1 DEF Gone
  <2> QED
    BY <1>4, <1>5, <1>6, <2>1, <2>2, <2>3 DEF Fetched
<1>8. w.sess[q].st = s.sess[q].st
  BY <1>4, <1>5, <1>6 DEF Shape
<1> QED
  BY <1>1, <1>3, <1>7, <1>8

(* nn_pipebase_received leaves a session's peer alone.                     *)
LEMMA PipeReceivedSess ==
  ASSUME NEW s, Good(s), NEW q \in Session
  PROVE  nn_pipebase_received(s, q).sess[q].peer = s.sess[q].peer
<1>1. s.sess \in [Session -> SessType] /\ s \in ProcType /\ s.sess[q] \in SessType
  BY DEF Good, ProcType
<1> DEFINE r == [s.sess[q] EXCEPT !.in = "IDLE"]
           u == [s EXCEPT !.sess[q] = r]
           w == Raise(u, <<q, "in">>, <<"sock", SocketOf(s, q)>>, "IN", q)
<1>2. r.st = s.sess[q].st /\ r.peer = s.sess[q].peer
  BY <1>1 DEF SessType
<1>3. u.sess[q] = r /\ Bad(s).sess = s.sess
  BY <1>1 DEF ProcType, Bad, Abort
<1>4. w.sess = u.sess
  BY <1>1 DEF Raise, RaiseIn, Abort, ProcType
<1>5. nn_pipebase_received(s, q) = IF s.sess[q].in # "ASYNC" THEN Bad(s) ELSE w
  BY DEF nn_pipebase_received
<1> HIDE DEF r, u, w
<1> QED
  BY <1>2, <1>3, <1>4, <1>5

(* The state ACTIVE of nn_sinproc_handler: each of SENT, RECEIVED and      *)
(* DISCONNECT makes a step. This is where Due and Uniq are needed: the     *)
(* event says that the message is there, and that no other one says so.    *)
LEMMA ActiveSessionStep ==
  ASSUME NEW s, Good(s), NEW q \in Session, s.sess[q].st = "ACTIVE",
         NEW v, v.to = q, v.slot = SlotOf(v), Handed(s, v), NEW told, told = v.type
  PROVE  Step(s, ActiveSession(s, q, told))
<1>0. s.sess[q].peer = Twin(q) /\ ~Blank(s.sess[q])
  BY SessOf DEF PeerFits, Blank
<1>1. Step(s, Bad(s))
  BY BadStep
<1>2. CASE told = "SENT" /\ Full(s.sess[q].queue)
  <2>0. FetchDue(s, q)
    BY <1>2 DEF FetchDue, Handed, EvFits, SlotOf
  <2>1. Step(s, [s EXCEPT !.sess[q].receiving = TRUE])
    BY <2>0, SetReceivingStep
  <2> QED
    BY <1>2, <2>1 DEF ActiveSession
<1>3. CASE told = "SENT" /\ ~Full(s.sess[q].queue)
  <2> DEFINE u == IF s.sess[q].queue = <<>> THEN nn_pipebase_received(s, q) ELSE s
  <2>0. FetchDue(s, q)
    BY <1>3 DEF FetchDue, Handed, EvFits, SlotOf
  <2>1. Step(s, u) /\ u.sess[q].peer = Twin(q) /\ FetchDue(u, q)
    BY <1>0, <2>0, StepNot, PipeReceivedStep, PipeReceivedSess, ReceivedKeepsDue
  <2>2. ActiveSession(s, q, told) = Fetch(u, q)
    BY <1>3 DEF ActiveSession
  <2> HIDE DEF u
  <2>3. Step(u, Fetch(u, q))
    BY <2>1, FetchStep DEF Step
  <2> QED
    BY <2>1, <2>2, <2>3, StepTwice
<1>4. CASE told = "RECEIVED" /\ s.sess[q].sending
  <2> DEFINE u == nn_pipebase_sent(s, q)
  <2>0. s.abort = "no" => (Paired(s, q) => Fetched(s.sess[q])) /\ Gone(s, <<q, "received">>)
    BY <1>4 DEF Handed, EvFits, SlotOf
  <2>1. /\ Step(s, u)
        /\ u.abort = "no" => (Paired(u, q) => Fetched(u.sess[q])) /\ Gone(u, <<q, "received">>)
        /\ u.sess[q].st # "NONE"
    BY <2>0, PipeSentStep, SentKeepsDue
  <2>2. ActiveSession(s, q, told) = [u EXCEPT !.sess[q].sending = FALSE]
    BY <1>4 DEF ActiveSession
  <2> HIDE DEF u
  <2>3. Step(u, [u EXCEPT !.sess[q].sending = FALSE])
    BY <2>1, SetSendingStep DEF Step
  <2> QED
    BY <2>1, <2>2, <2>3, StepTwice
<1>5. CASE told = "DISCONNECT"
  <2> DEFINE w == RaiseTo([nn_pipebase_stop(s, q) EXCEPT !.sess[q].st = "DISCONNECTED"],
                         <<Twin(q), "disconnect">>, Twin(q), "DISCONNECT", q)
  <2>1. Step(s, w)
    BY <1>0, DisconnectStep
  <2>2. ActiveSession(s, q, told) = w
    BY <1>5, <1>0 DEF ActiveSession
  <2> HIDE DEF w
  <2> QED
    BY <2>1, <2>2
<1>6. CASE told \notin {"SENT", "RECEIVED", "DISCONNECT"} \/ (told = "RECEIVED" /\ ~s.sess[q].sending)
  <2>1. ActiveSession(s, q, told) = Bad(s)
    BY <1>6 DEF ActiveSession
  <2> QED
    BY <1>1, <2>1
<1> QED
  BY <1>2, <1>3, <1>4, <1>5, <1>6

(* nn_pipebase_start leaves a session's state and peer alone.              *)
LEMMA PipeStartSess ==
  ASSUME NEW s, Good(s), NEW q \in Session
  PROVE  /\ nn_pipebase_start(s, q).sess[q].st = s.sess[q].st
         /\ nn_pipebase_start(s, q).sess[q].peer = s.sess[q].peer
<1>1. s.sess \in [Session -> SessType] /\ s \in ProcType /\ s.sess[q] \in SessType
  BY DEF Good, ProcType
<1> DEFINE o == SocketOf(s, q)
           r == [s.sess[q] EXCEPT !.pipe = "ACTIVE", !.in = "ASYNC", !.out = "IDLE"]
           u == [s EXCEPT !.sess[q] = r]
           w == nn_excl_add(u, o, q)
           z == Raise(w, <<q, "out">>, <<"sock", o>>, "OUT", q)
<1>2. r.st = s.sess[q].st /\ r.peer = s.sess[q].peer
  BY <1>1 DEF SessType
<1>3. u.sess[q] = r
  BY <1>1 DEF ProcType
<1>4. w.sess = u.sess
  BY <1>1 DEF nn_excl_add, Abort, ProcType
<1>5. z.sess = w.sess
  <2>1. Step(s, u)
    <3>1. r \in SessType /\ Shape(r, s.sess[q]) /\ SameData(r, s.sess[q])
      BY <1>1 DEF SessType, Shape, SameData
    <3> HIDE DEF r
    <3> QED
      BY <3>1, SessDataStep
  <2>2. o \in Socket \cup {0}
    BY SocketOfSession DEF Good
  <2> HIDE DEF u, o
  <2>3. Step(u, w)
    BY <2>1, <2>2, ExclAddStep DEF Step
  <2>4. w \in ProcType
    BY <2>3 DEF Step, Good
  <2> HIDE DEF w
  <2> QED
    BY <2>4 DEF Raise, RaiseIn, Abort, ProcType
<1>6. nn_pipebase_start(s, q) = z
  BY DEF nn_pipebase_start
<1> HIDE DEF r, u, w, z
<1> QED
  BY <1>2, <1>3, <1>4, <1>5, <1>6

(* A session with a peer whose pipe has started becomes ACTIVE.            *)
LEMMA ToActiveStep ==
  ASSUME NEW s, Good(s), NEW q \in Session, ~Blank(s.sess[q]), s.sess[q].peer = Twin(q)
  PROVE  Step(s, [nn_pipebase_start(s, q) EXCEPT !.sess[q].st = "ACTIVE"])
<1> DEFINE u == nn_pipebase_start(s, q)
           r == [u.sess[q] EXCEPT !.st = "ACTIVE"]
<1>1. Step(s, u) /\ u.sess[q].peer = Twin(q) /\ ~Blank(u.sess[q])
  BY PipeStartStep, PipeStartSess DEF Blank
<1>2. u.sess[q] \in SessType
  BY <1>1, SessOf DEF Step
<1> HIDE DEF u
<1>3. r \in SessType /\ r.st = "ACTIVE" /\ r.peer = u.sess[q].peer /\ r.ep = u.sess[q].ep
  BY <1>2 DEF SessType, SessState
<1>4. PeerFits(r, q) /\ Continues(r, u.sess[q])
  <2>1. SameData(r, u.sess[q])
    BY <1>2 DEF SessType, SameData
  <2> QED
    BY <1>1, <1>3, <2>1 DEF PeerFits, Blank, Continues
<1> HIDE DEF r
<1>5. Step(u, [u EXCEPT !.sess[q] = r])
  BY <1>1, <1>3, <1>4, SessStep DEF Step
<1>6. Step(s, [u EXCEPT !.sess[q] = r])
  BY <1>1, <1>5, StepTwice
<1> QED
  BY <1>6 DEF u, r

(* nn_sinproc_handler is a step for every event it can be given.           *)
LEMMA SinprocHandlerStep ==
  ASSUME NEW s, Good(s), NEW q \in Session, NEW v \in SessEvent, v.to = q, Handed(s, v)
  PROVE  Step(s, nn_sinproc_handler(s, q, v))
<1> DEFINE at == s.sess[q].st
           told == v.type
<1>0. v.from = Twin(q) /\ v.slot = SlotOf(v)
  BY DEF SessEvent, EventOf
<1>1. /\ Step(s, Bad(s)) /\ Step(s, s) /\ Step(s, Abort(s, "sent_before_accepted"))
  BY BadStep, AbortStep, StepNot DEF Why
<1>2. CASE at \in {"STOPPING_PEER", "STOPPING"}
  <2>1. nn_sinproc_handler(s, q, v) = nn_sinproc_shutdown(s, q, told)
    BY <1>2 DEF nn_sinproc_handler
  <2> QED
    BY <2>1, SinprocShutdownStep
<1>3. CASE at = "ACTIVE"
  <2>1. nn_sinproc_handler(s, q, v) = ActiveSession(s, q, told)
    BY <1>3 DEF nn_sinproc_handler
  <2> QED
    BY <1>0, <1>3, <2>1, ActiveSessionStep
<1>4. CASE at = "CONNECTING" /\ told = "READY"
  <2> DEFINE r == [s.sess[q] EXCEPT !.peer = v.from]
             s1 == [s EXCEPT !.sess[q] = r]
             u == [nn_pipebase_start(s1, q) EXCEPT !.sess[q].st = "ACTIVE"]
             w == RaiseTo(u, <<q, "connect">>, Twin(q), "ACCEPTED", q)
  <2>1. s.sess[q] \in SessType
    BY SessOf
  <2>2. r \in SessType /\ r.st = s.sess[q].st /\ r.peer = Twin(q) /\ r.ep = s.sess[q].ep
    BY <2>1, <1>0, Names, ZenonT(30) DEF SessType
  <2>9. SameData(r, s.sess[q])
    BY <2>1 DEF SessType, SameData
  <2>3. PeerFits(r, q) /\ ~Blank(r) /\ Continues(r, s.sess[q])
    BY <2>2, <2>9, <1>4 DEF PeerFits, Blank, Continues
  <2>4. nn_sinproc_handler(s, q, v) = w
    BY <1>4, <1>0 DEF nn_sinproc_handler
  <2>5. s1.sess[q] = r
    BY DEF Good, ProcType
  <2> HIDE DEF r
  <2>6. Step(s, s1)
    BY <2>2, <2>3, SessStep
  <2> HIDE DEF s1
  <2>7. Step(s1, u)
    BY <2>2, <2>3, <2>5, <2>6, ToActiveStep DEF Step
  <2> HIDE DEF u
  <2>8. Step(u, w)
    BY <2>7, PeerEvent, RaiseToPeerStep DEF Step
  <2> QED
    BY <2>4, <2>6, <2>7, <2>8, StepTwice
<1>5. CASE at = "READY" /\ told \in {"READY", "ACCEPTED"}
  <2>1. nn_sinproc_handler(s, q, v) = [nn_pipebase_start(s, q) EXCEPT !.sess[q].st = "ACTIVE"]
    BY <1>5 DEF nn_sinproc_handler
  <2>2. s.sess[q].peer = Twin(q) /\ ~Blank(s.sess[q])
    BY <1>5, SessOf DEF PeerFits, Blank
  <2> QED
    BY <2>1, <2>2, ToActiveStep
<1>6. CASE at = "READY" /\ told = "SENT"
  BY <1>6, <1>1 DEF nn_sinproc_handler
<1>7. CASE at = "DISCONNECTED" /\ told = "RECEIVED"
  BY <1>7, <1>1 DEF nn_sinproc_handler
<1>8. CASE /\ at \notin {"STOPPING_PEER", "STOPPING", "ACTIVE"}
           /\ ~(at = "CONNECTING" /\ told = "READY")
           /\ ~(at = "READY" /\ told \in {"READY", "ACCEPTED", "SENT"})
           /\ ~(at = "DISCONNECTED" /\ told = "RECEIVED")
  <2>1. nn_sinproc_handler(s, q, v) = Bad(s)
    BY <1>8 DEF nn_sinproc_handler
  <2> QED
    BY <1>1, <2>1
<1> QED
  BY <1>2, <1>3, <1>4, <1>5, <1>6, <1>7, <1>8

(* nn_sinproc_init gives an idle session without peer or messages.         *)
LEMMA NewSessionType ==
  ASSUME NEW e \in Endpoint
  PROVE  NewSession(e) \in SessType /\ NewSession(e).st = "IDLE" /\ NewSession(e).ep = e
         /\ NewSession(e).peer = None /\ NewSession(e).sending = FALSE
         /\ NewSession(e).receiving = FALSE /\ NewSession(e).queue = <<>>
         /\ NewSession(e).msg = <<>> /\ NewSession(e).sent = 0 /\ NewSession(e).got = 0
<1> DEFINE a == [st |-> "IDLE", ep |-> e, peer |-> None, sending |-> FALSE,
                receiving |-> FALSE, queue |-> nn_msgqueue_init, msg |-> <<>>,
                sent |-> 0, got |-> 0, pipe |-> "", in |-> "", out |-> ""]
           T == [st : SessState, ep : Endpoint, peer : PipeName, sending : BOOLEAN,
                 receiving : BOOLEAN, queue : Seq(Nat), msg : Seq(Nat), sent : Nat, got : Nat,
                 pipe : {"", "IDLE"}, in : {"", "none"}, out : {"", "none"}]
<1>1. <<>> \in Seq(Nat) /\ None \in PipeName /\ "IDLE" \in SessState /\ nn_msgqueue_init = <<>>
  BY DEF PipeName, SessState, nn_msgqueue_init
<1>2. /\ a \in T /\ a.st = "IDLE" /\ a.ep = e /\ a.peer = None /\ a.sending = FALSE
      /\ a.receiving = FALSE /\ a.queue = <<>> /\ a.msg = <<>> /\ a.sent = 0 /\ a.got = 0
  BY <1>1
<1>3. NewSession(e) = [a EXCEPT !.pipe = "IDLE", !.in = "none", !.out = "none"]
  BY DEF NewSession, nn_pipebase_init
<1> HIDE DEF a
<1> QED
  BY <1>2, <1>3 DEF SessType

(* nn_sinproc_term is a step.                                              *)
LEMMA SinprocTermStep ==
  ASSUME NEW s, Good(s), NEW q \in Session
  PROVE  Step(s, nn_sinproc_term(s, q))
<1> DEFINE e == s.sess[q].ep
           r == [NewSession(e) EXCEPT !.st = "FREED"]
           u == [s EXCEPT !.sess[q] = r]
<1>1. Step(s, Bad(s)) /\ Step(s, Abort(s, "frees_queued_event"))
  BY BadStep, AbortStep DEF Why
<1>2. e \in Endpoint
  <2>1. s.sess[q] \in SessType
    BY SessOf
  <2> QED
    BY <2>1 DEF SessType
<1> HIDE DEF e
<1>3. r \in SessType /\ r.ep = e /\ r.peer = None /\ r.st = "FREED"
  <2> DEFINE n == NewSession(e)
  <2>1. n \in SessType /\ n.ep = e /\ n.peer = None
    BY <1>2, NewSessionType
  <2> HIDE DEF n
  <2>2. LET k == [n EXCEPT !.st = "FREED"] IN k \in SessType /\ k.ep = e /\ k.peer = None /\ k.st = "FREED"
    BY <2>1 DEF SessType, SessState
  <2> QED
    BY <2>2 DEF n
<1>4. PeerFits(r, q) /\ Blank(r)
  BY <1>3 DEF PeerFits, Blank
<1>5. \/ nn_sinproc_term(s, q) \in {Bad(s), Abort(s, "frees_queued_event")}
      \/ nn_sinproc_term(s, q) = u /\ s.sess[q].st # "NONE"
  BY DEF nn_sinproc_term, e
<1>6. e = s.sess[q].ep
  BY DEF e
<1> HIDE DEF r
<1>7. ASSUME s.sess[q].st # "NONE" PROVE Step(s, u)
  <2>1. Continues(r, s.sess[q])
    BY <1>3, <1>6, <1>7 DEF Continues
  <2> QED
    BY <1>3, <1>4, <2>1, SessStep
<1> QED
  BY <1>1, <1>5, <1>7

-----------------------------------------------------------------------------
(* What a pipe can do, and what its socket shows of it                      *)

(* A session and its pipe: the pipe is not used before the session is       *)
(* active, can be received from when a message is in the queue, and sent to *)
(* when none is under way.                                                  *)
Early == {"NONE", "FREED", "IDLE", "CONNECTING", "READY"}
Link(r) ==
  /\ r.pipe = "ACTIVE" => /\ r.in = IF r.queue = <<>> THEN "ASYNC" ELSE "IDLE"
                          /\ r.out = IF r.sending THEN "ASYNC" ELSE "IDLE"
  /\ r.st \in Early => r.pipe = "IDLE" /\ r.queue = <<>> /\ ~r.sending
Links(s) == \A q \in Session : Link(s.sess[q])

(* An IN or OUT of the session's pipe that its socket has not handled.      *)
Signals(s, q, way) ==
  \E i \in DOMAIN s.events : s.events[i].from = q /\ s.events[i].type = way

(* A socket and its pipe: what nn_excl holds, with the events under way, is *)
(* what the pipe can do.                                                    *)
Wired(s, x) ==
  LET k == s.sock[x]
      q == k.excl.pipe IN
  /\ k.st = "ACTIVE" => k.flags = k.efd
  /\ k.excl.inpipe \in {None, q} /\ k.excl.outpipe \in {None, q}
  /\ q # None =>
       /\ s.sess[q].pipe = "ACTIVE" /\ s.ep[s.sess[q].ep].sock = x
       /\ s.sess[q].queue # <<>> <=> k.excl.inpipe = q \/ Signals(s, q, "IN")
       /\ ~s.sess[q].sending <=> k.excl.outpipe = q \/ Signals(s, q, "OUT")
Wires(s) == \A x \in Socket : Wired(s, x)
Heard(s) ==
  \A i \in DOMAIN s.events : s.events[i].type \in Way => s.sess[s.events[i].from].st \notin Early

(* The efds of all sockets but that whose context is entered are as its     *)
(* pipe is, and the events of the context are its own.                      *)
Rested(s, o) ==
  \A x \in Socket \ {o} : s.sock[x].st = "ACTIVE" => s.sock[x].flags = nn_xpair_events(s, x)
OwnHome(s, to) == IF to[1] = "sock" THEN to[2] ELSE s.ep[to[2]].sock
Local(s, o) == \A i \in DOMAIN s.events : OwnHome(s, s.events[i].to) = o

(* Endpoints and their sessions, sockets and their endpoints.               *)
Kin(s) ==
  /\ \A e \in Endpoint : \A q \in s.ep[e].sessions : s.sess[q].ep = e /\ s.sess[q].st # "NONE"
  /\ \A x \in Socket : \A e \in s.sock[x].eps : s.ep[e].sock = x

Led(s, o) ==
  Links(s) /\ Wires(s) /\ Heard(s) /\ Rested(s, o) /\ Local(s, o) /\ Kin(s)

(* No endpoint and no session that is made changes its owner.               *)
Stays(s, u) ==
  /\ \A e \in Endpoint : u.ep[e].sock = s.ep[e].sock
  /\ \A q \in Session : s.sess[q].st # "NONE" => u.sess[q].st # "NONE" /\ u.sess[q].ep = s.sess[q].ep

(* A change in the context of socket o that keeps all this.                 *)
Turn(s, u, o) ==
  u.abort = "no" => s.abort = "no" /\ (Led(s, o) => Led(u, o) /\ Stays(s, u))

(* Two turns are a turn, and so is nothing.                                 *)
LEMMA TurnTwice ==
  ASSUME NEW s, NEW u, NEW w, NEW o, Turn(s, u, o), Turn(u, w, o)
  PROVE  Turn(s, w, o)
<1>1. Stays(s, u) /\ Stays(u, w) => Stays(s, w)
  BY DEF Stays
<1> QED
  BY <1>1 DEF Turn

(* Doing nothing is a turn.                                                *)
LEMMA TurnNot ==
  ASSUME NEW s, NEW o
  PROVE  Turn(s, s, o)
BY DEF Turn, Stays

(* A process that aborts promises nothing more.                             *)
LEMMA AbortTurn ==
  ASSUME NEW s, Good(s), NEW o, NEW why \in Why \ {"no"}
  PROVE  Turn(s, Abort(s, why), o)
BY AbortParts DEF Turn, Good

(* A failed assertion is a turn.                                           *)
LEMMA BadTurn ==
  ASSUME NEW s, Good(s), NEW o
  PROVE  Turn(s, Bad(s), o)
BY AbortTurn DEF Bad, Why

(* A change that touches no pipe and no efd, and raises no IN or OUT.       *)
CalmSocks(s, u) ==
  \A x \in Socket :
    /\ u.sock[x].excl = s.sock[x].excl /\ u.sock[x].eps \subseteq s.sock[x].eps
    /\ u.sock[x].st = "ACTIVE" =>
         s.sock[x].st = "ACTIVE" /\ u.sock[x].flags = s.sock[x].flags /\ u.sock[x].efd = s.sock[x].efd
SamePipe(r, z) ==
  /\ r.pipe = z.pipe /\ r.in = z.in /\ r.out = z.out /\ r.queue = z.queue /\ r.sending = z.sending
CalmSess(r, z) ==
  /\ r.ep = z.ep /\ SamePipe(r, z)
  /\ r.st \in Early => z.st \in Early
  /\ r.st = "NONE" => z.st = "NONE"
  /\ z.st = "NONE" => r.st = "NONE"
CalmEps(s, u) ==
  \A e \in Endpoint : u.ep[e].sock = s.ep[e].sock /\ u.ep[e].sessions \subseteq s.ep[e].sessions
CalmEvents(s, u, o) ==
  /\ \A i \in DOMAIN s.events : i \in DOMAIN u.events /\ u.events[i] = s.events[i]
  /\ \A i \in DOMAIN u.events :
       \/ i \in DOMAIN s.events
       \/ u.events[i].type \notin Way /\ OwnHome(u, u.events[i].to) = o
Calm(s, u, o) ==
  u.abort = "no" =>
    /\ s.abort = "no"
    /\ Led(s, o) => /\ CalmSocks(s, u) /\ CalmEps(s, u) /\ CalmEvents(s, u, o)
                   /\ \A q \in Session : CalmSess(u.sess[q], s.sess[q])

(* A change that is calm is a turn.                                        *)
LEMMA CalmTurn ==
  ASSUME NEW s, Good(s), NEW u, u \in ProcType, NEW o, Calm(s, u, o)
  PROVE  Turn(s, u, o)
<1> SUFFICES ASSUME u.abort = "no", Led(s, o) PROVE Led(u, o) /\ Stays(s, u)
  BY DEF Turn, Calm
<1>1. CalmSocks(s, u) /\ CalmEps(s, u) /\ CalmEvents(s, u, o)
      /\ \A q \in Session : CalmSess(u.sess[q], s.sess[q])
  BY DEF Calm
<1>2. Stays(s, u)
  BY <1>1 DEF Stays, CalmEps, CalmSess
<1>3. Links(u)
  BY <1>1 DEF Led, Links, Link, CalmSess, SamePipe
<1>4. ASSUME NEW q, NEW way \in Way PROVE Signals(u, q, way) <=> Signals(s, q, way)
  BY <1>1 DEF Signals, CalmEvents
<1>5. ASSUME NEW x \in Socket PROVE Wired(u, x) /\ nn_xpair_events(u, x) = nn_xpair_events(s, x)
  <2>1. Wired(s, x) /\ u.sock[x].excl = s.sock[x].excl
    BY <1>1 DEF Led, Wires, CalmSocks
  <2> DEFINE q == s.sock[x].excl.pipe
  <2>2. q \in Session \cup {None}
    <3>1. s.sock[x].excl \in ExclType
      BY ExclOf DEF Good
    <3> QED
      BY <3>1 DEF ExclType, PipeName
  <2>3. q # None => /\ SamePipe(u.sess[q], s.sess[q]) /\ u.sess[q].ep = s.sess[q].ep
                    /\ u.sess[q].ep \in Endpoint
    BY <1>1, <2>2, SessOf, SMTT(30) DEF CalmSess, SessType
  <2>4. q # None => u.ep[u.sess[q].ep].sock = s.ep[s.sess[q].ep].sock
    BY <1>1, <2>3 DEF CalmEps
  <2>5. u.sock[x].st = "ACTIVE" => u.sock[x].flags = u.sock[x].efd
    BY <1>1, <2>1 DEF CalmSocks, Wired
  <2>6. "IN" \in Way /\ "OUT" \in Way
    BY DEF Way
  <2>7. (Signals(u, q, "IN") <=> Signals(s, q, "IN")) /\ (Signals(u, q, "OUT") <=> Signals(s, q, "OUT"))
    BY <1>4, <2>6
  <2> QED
    BY <2>1, <2>3, <2>4, <2>5, <2>7 DEF Wired, SamePipe, nn_xpair_events
<1>6. Heard(u)
  <2> SUFFICES ASSUME NEW i \in DOMAIN u.events, u.events[i].type \in Way
               PROVE  u.sess[u.events[i].from].st \notin Early
    BY DEF Heard
  <2>1. i \in DOMAIN s.events /\ u.events[i] = s.events[i]
    BY <1>1 DEF CalmEvents
  <2>2. u.events[i] \in OwnEvent
    BY DEF ProcType
  <2>3. u.events[i].from \in Session
    BY <2>2 DEF OwnEvent, EventOf, Way
  <2> QED
    BY <1>1, <2>1, <2>3 DEF Led, Heard, CalmSess
<1>7. Rested(u, o)
  BY <1>1, <1>5 DEF Led, Rested, CalmSocks
<1>8. Local(u, o)
  <2> SUFFICES ASSUME NEW i \in DOMAIN u.events, i \in DOMAIN s.events
               PROVE  OwnHome(u, u.events[i].to) = o
    BY <1>1 DEF Local, CalmEvents
  <2>1. u.events[i] = s.events[i] /\ OwnHome(s, s.events[i].to) = o
    BY <1>1 DEF CalmEvents, Led, Local
  <2>2. u.events[i] \in OwnEvent
    BY DEF ProcType
  <2>3. u.events[i].to[1] = "sock" \/ u.events[i].to[2] \in Endpoint
    BY <2>2 DEF OwnEvent, EventOf, SocketName, BaseName, EndpointName
  <2> QED
    BY <1>1, <2>1, <2>3 DEF OwnHome, CalmEps
<1>9. Kin(u)
  <2>1. ASSUME NEW e \in Endpoint, NEW q \in u.ep[e].sessions
        PROVE  u.sess[q].ep = e /\ u.sess[q].st # "NONE"
    <3>1. q \in Session
      <4>1. u.ep[e] \in EpType
        BY DEF ProcType
      <4> QED
        BY <4>1 DEF EpType, Session
    <3>2. q \in s.ep[e].sessions /\ s.sess[q].ep = e /\ s.sess[q].st # "NONE"
      BY <1>1, <2>1 DEF Led, Kin, CalmEps
    <3> QED
      BY <1>1, <3>1, <3>2 DEF CalmSess
  <2>2. ASSUME NEW x \in Socket, NEW e \in u.sock[x].eps PROVE u.ep[e].sock = x
    <3>1. e \in s.sock[x].eps /\ s.ep[e].sock = x
      BY <1>1 DEF CalmSocks, Led, Kin
    <3>2. e \in Endpoint
      BY <3>1, u.sock[x] \in SockType DEF ProcType, SockType
    <3> QED
      BY <1>1, <3>1, <3>2 DEF CalmEps
  <2> QED
    BY <2>1, <2>2 DEF Kin
<1> QED
  BY <1>2, <1>3, <1>5, <1>6, <1>7, <1>8, <1>9 DEF Led, Wires

(* A socket stays wired when neither it nor its pipe changes.               *)
SameSock(k, j) ==
  k.excl = j.excl /\ (k.st = "ACTIVE" => k.flags = j.flags /\ k.efd = j.efd /\ j.st = "ACTIVE")

(* Pipe y, if there is one, is in u as it is in s.                         *)
PipeKept(s, u, y) ==
  y # None => /\ SamePipe(u.sess[y], s.sess[y])
              /\ u.ep[u.sess[y].ep].sock = s.ep[s.sess[y].ep].sock
              /\ Signals(u, y, "IN") <=> Signals(s, y, "IN")
              /\ Signals(u, y, "OUT") <=> Signals(s, y, "OUT")

(* A socket stays wired when neither it nor its pipe changes.              *)
LEMMA WiredKept ==
  ASSUME NEW s, NEW u, NEW x, Wired(s, x), SameSock(u.sock[x], s.sock[x]),
         PipeKept(s, u, s.sock[x].excl.pipe)
  PROVE  Wired(u, x) /\ nn_xpair_events(u, x) = nn_xpair_events(s, x)
BY DEF SameSock, SamePipe, PipeKept, Wired, nn_xpair_events

(* What nn_fsm_raise and nn_fsm_raiseto give.                               *)
LEMMA RaiseGives ==
  ASSUME NEW s, s \in ProcType, NEW slot, NEW to, NEW type, NEW from
  PROVE  LET u == Raise(s, slot, to, type, from) IN
         u.abort = "no" =>
           /\ s.abort = "no" /\ u.sess = s.sess /\ u.sock = s.sock /\ u.ep = s.ep
           /\ u.events = Append(s.events, [slot |-> slot, to |-> to, type |-> type, from |-> from])
<1> DEFINE v == [slot |-> slot, to |-> to, type |-> type, from |-> from]
           u == [s EXCEPT !.events = Append(@, v)]
<1>1. Abort(s, "event_raised_twice").abort # "no" /\ Abort(s, "event_overwritten").abort # "no"
  BY AbortParts DEF Why
<1>2. u.abort = s.abort /\ u.sess = s.sess /\ u.sock = s.sock /\ u.ep = s.ep /\ u.events = Append(s.events, v)
  BY DEF ProcType
<1>3. Raise(s, slot, to, type, from)
        \in {Abort(s, "event_raised_twice"), Abort(s, "event_overwritten"), u}
  BY DEF Raise, RaiseIn
<1> HIDE DEF u
<1> QED
  BY <1>1, <1>2, <1>3

(* nn_fsm_raiseto raises nothing in the own context.                       *)
LEMMA RaiseToGives ==
  ASSUME NEW s, s \in ProcType, NEW slot, NEW to, NEW type, NEW from
  PROVE  LET u == RaiseTo(s, slot, to, type, from) IN
         u.abort = "no" =>
           /\ s.abort = "no" /\ u.sess = s.sess /\ u.sock = s.sock /\ u.ep = s.ep
           /\ u.events = s.events /\ ~IsFreed(s, to)
<1> DEFINE v == [slot |-> slot, to |-> to, type |-> type, from |-> from]
           u == [s EXCEPT !.eventsto = Append(@, v)]
<1>1. /\ Abort(s, "event_raised_twice").abort # "no" /\ Abort(s, "event_overwritten").abort # "no"
      /\ Abort(s, "uses_freed_object").abort # "no"
  BY AbortParts DEF Why
<1>2. u.abort = s.abort /\ u.sess = s.sess /\ u.sock = s.sock /\ u.ep = s.ep /\ u.events = s.events
  BY DEF ProcType
<1>3. \/ RaiseTo(s, slot, to, type, from)
           \in {Abort(s, "event_raised_twice"), Abort(s, "event_overwritten"),
                Abort(s, "uses_freed_object")}
      \/ RaiseTo(s, slot, to, type, from) = u /\ ~IsFreed(s, to)
  BY DEF RaiseTo, RaiseIn
<1> HIDE DEF u
<1> QED
  BY <1>1, <1>2, <1>3

(* Raising STOPPED or EP_STOPPED in the own context is a turn, and so is    *)
(* raising whatever is for another one.                                     *)
LEMMA RaiseTurn ==
  ASSUME NEW s, Good(s), NEW slot, NEW to, NEW type, NEW from,
         [slot |-> slot, to |-> to, type |-> type, from |-> from] \in OwnEvent, type \notin Way
  PROVE  Turn(s, Raise(s, slot, to, type, from), OwnHome(s, to))
<1> DEFINE v == [slot |-> slot, to |-> to, type |-> type, from |-> from]
           u == Raise(s, slot, to, type, from)
           o == OwnHome(s, to)
<1>1. u \in ProcType
  BY RaiseStep DEF Step, Good
<1>2. u.abort = "no" => /\ s.abort = "no" /\ u.sess = s.sess /\ u.sock = s.sock /\ u.ep = s.ep
                        /\ u.events = Append(s.events, v)
  BY RaiseGives DEF Good
<1>3. s.events \in Seq(OwnEvent) /\ v \in OwnEvent /\ v.type \notin Way /\ v.to = to
  BY DEF Good, ProcType
<1> HIDE DEF u, v
<1>4. ASSUME u.abort = "no" PROVE CalmEvents(s, u, o)
  <2>1. \A i \in DOMAIN s.events : i \in DOMAIN u.events /\ u.events[i] = s.events[i]
    BY <1>2, <1>3, <1>4
  <2>2. ASSUME NEW i \in DOMAIN u.events, i \notin DOMAIN s.events
        PROVE  u.events[i] = v
    BY <1>2, <1>3, <1>4, <2>2
  <2>3. OwnHome(u, to) = o
    BY <1>2, <1>4 DEF OwnHome
  <2> QED
    BY <1>3, <2>1, <2>2, <2>3 DEF CalmEvents
<1>5. Calm(s, u, o)
  BY <1>2, <1>4 DEF Calm, CalmSocks, CalmEps, CalmSess, SamePipe
<1> QED
  BY <1>1, <1>5, CalmTurn DEF u

(* An event for another context (nn_fsm_raiseto) is a turn.                *)
LEMMA RaiseToTurn ==
  ASSUME NEW s, Good(s), NEW slot, NEW to, NEW type, NEW from, NEW o
  PROVE  Turn(s, RaiseTo(s, slot, to, type, from), o)
<1> DEFINE u == RaiseTo(s, slot, to, type, from)
<1>1. u.abort = "no" => /\ s.abort = "no" /\ u.sess = s.sess /\ u.sock = s.sock /\ u.ep = s.ep
                        /\ u.events = s.events
  BY RaiseToGives DEF Good
<1> HIDE DEF u
<1>2. ASSUME u.abort = "no", Led(s, o) PROVE Led(u, o)
  <2>1. Links(u) /\ Heard(u) /\ Local(u, o) /\ Kin(u)
    BY <1>1, <1>2 DEF Led, Links, Heard, Local, OwnHome, Kin
  <2>3. ASSUME NEW x \in Socket PROVE Wired(u, x) /\ nn_xpair_events(u, x) = nn_xpair_events(s, x)
    <3>1. \A y : /\ Signals(u, y, "IN") <=> Signals(s, y, "IN")
                 /\ Signals(u, y, "OUT") <=> Signals(s, y, "OUT")
      BY <1>1, <1>2 DEF Signals
    <3> QED
      <4>1. Wired(s, x) /\ SameSock(u.sock[x], s.sock[x])
        BY <1>1, <1>2 DEF Led, Wires, SameSock
      <4>2. PipeKept(s, u, s.sock[x].excl.pipe)
        BY <1>1, <1>2, <3>1 DEF PipeKept, SamePipe
      <4> QED
        BY ONLY <4>1, <4>2, WiredKept
  <2>2. Wires(u) /\ Rested(u, o)
    BY <1>1, <1>2, <2>3 DEF Led, Wires, Rested
  <2> QED
    BY <2>1, <2>2 DEF Led
<1>3. u.abort = "no" => Stays(s, u)
  BY <1>1 DEF Stays
<1> QED
  BY <1>1, <1>2, <1>3 DEF Turn, u

(* A session changes, but neither its pipe nor its owner.                   *)
LEMMA SessTurn ==
  ASSUME NEW s, Good(s), NEW q \in Session, NEW r \in SessType, CalmSess(r, s.sess[q]), NEW o
  PROVE  Turn(s, [s EXCEPT !.sess[q] = r], o)
<1> DEFINE u == [s EXCEPT !.sess[q] = r]
<1>1. s \in ProcType /\ s.sess \in [Session -> SessType]
  BY DEF Good, ProcType
<1>2. /\ u.abort = s.abort /\ u.sock = s.sock /\ u.ep = s.ep /\ u.events = s.events
      /\ u.sess = [s.sess EXCEPT ![q] = r] /\ u \in ProcType
  BY <1>1 DEF ProcType
<1> HIDE DEF u
<1>3. ASSUME NEW x \in Session PROVE CalmSess(u.sess[x], s.sess[x])
  BY <1>1, <1>2 DEF CalmSess, SamePipe
<1>4. Calm(s, u, o)
  BY <1>2, <1>3 DEF Calm, CalmSocks, CalmEps, CalmEvents
<1> QED
  BY <1>2, <1>4, CalmTurn DEF u

(* A session that changes its state alone, and does not become early       *)
(* again, makes a turn.                                                    *)
LEMMA SessStateTurn ==
  ASSUME NEW s, Good(s), NEW q \in Session, NEW x \in SessState \ {"NONE"}, s.sess[q].st # "NONE",
         x \in Early => s.sess[q].st \in Early, NEW o
  PROVE  Turn(s, [s EXCEPT !.sess[q].st = x], o)
<1> DEFINE r == [s.sess[q] EXCEPT !.st = x]
<1>1. s.sess[q] \in SessType
  BY SessOf
<1>2. r \in SessType /\ CalmSess(r, s.sess[q])
  BY <1>1 DEF SessType, CalmSess, SamePipe
<1> HIDE DEF r
<1>3. Turn(s, [s EXCEPT !.sess[q] = r], o)
  BY <1>2, SessTurn
<1> QED
  BY <1>3 DEF r

(* The own home of a session's base, of its endpoint and of its socket.     *)
HomeOf(s, q) == s.ep[s.sess[q].ep].sock

(* One more event is raised.                                                *)
LEMMA SignalsMore ==
  ASSUME NEW s, s \in ProcType, NEW u, NEW v, u.events = Append(s.events, v), NEW q, NEW way
  PROVE  Signals(u, q, way) <=> Signals(s, q, way) \/ (v.from = q /\ v.type = way)
<1>1. s.events \in Seq(OwnEvent)
  BY DEF ProcType
<1>2. /\ DOMAIN u.events = DOMAIN s.events \cup {Len(s.events) + 1}
      /\ \A i \in DOMAIN s.events : u.events[i] = s.events[i]
      /\ u.events[Len(s.events) + 1] = v
  BY <1>1
<1> QED
  BY <1>2 DEF Signals

(* A change of the pipe of session q, of its socket o, and of other          *)
(* sessions in what has nothing to do with their pipes; of the events one   *)
(* more from q may be raised.                                               *)
OneMore(s, u, q, o) ==
  \E v : u.events = Append(s.events, v) /\ v.from = q /\ OwnHome(s, v.to) = o
PipeChange(s, u, q, o) ==
  /\ u.ep = s.ep
  /\ \A y \in Session \ {q} : CalmSess(u.sess[y], s.sess[y])
  /\ u.sess[q].ep = s.sess[q].ep /\ u.sess[q].st \notin Early /\ Link(u.sess[q])
  /\ \A x \in Socket \ {o} : u.sock[x] = s.sock[x]
  /\ o \in Socket => u.sock[o].eps = s.sock[o].eps /\ Wired(u, o)
  /\ u.events = s.events \/ OneMore(s, u, q, o)

(* Such a change of a pipe and its socket is a turn.                       *)
LEMMA PipeTurn ==
  ASSUME NEW s, Good(s), NEW u, NEW q \in Session, NEW o, o = HomeOf(s, q),
         u.abort = "no" => s.abort = "no" /\ (Led(s, o) => PipeChange(s, u, q, o))
  PROVE  Turn(s, u, o)
<1> SUFFICES ASSUME u.abort = "no", Led(s, o) PROVE Led(u, o) /\ Stays(s, u)
  BY DEF Turn
<1>1. PipeChange(s, u, q, o) /\ s \in ProcType /\ s.events \in Seq(OwnEvent)
  BY DEF Good, ProcType
<1>2. u.sess[q].st # "NONE"
  BY <1>1 DEF PipeChange, Early
<1>3. Stays(s, u)
  BY <1>1, <1>2 DEF Stays, PipeChange, CalmSess
<1>4. Links(u)
  <2>1. ASSUME NEW y \in Session PROVE Link(u.sess[y])
    BY <1>1 DEF Led, Links, Link, PipeChange, CalmSess, SamePipe
  <2> QED
    BY <2>1 DEF Links
<1>5. ASSUME NEW y, y # q, NEW way PROVE Signals(u, y, way) <=> Signals(s, y, way)
  <2>1. CASE u.events = s.events
    BY <2>1 DEF Signals
  <2>2. CASE OneMore(s, u, q, o)
    BY <1>1, <1>5, <2>2, SignalsMore DEF OneMore
  <2> QED
    BY <1>1, <2>1, <2>2 DEF PipeChange
<1>6. ASSUME NEW x \in Socket, x # o
      PROVE  Wired(u, x) /\ nn_xpair_events(u, x) = nn_xpair_events(s, x) /\ u.sock[x] = s.sock[x]
  <2>1. u.sock[x] = s.sock[x] /\ Wired(s, x)
    BY <1>1, <1>6 DEF PipeChange, Led, Wires
  <2> DEFINE y == s.sock[x].excl.pipe
  <2>2. y \in Session \cup {None} /\ y # q
    <3>1. s.sock[x].excl \in ExclType
      BY <1>1, ExclOf
    <3> QED
      BY <1>6, <2>1, <3>1, Names DEF ExclType, PipeName, Wired, HomeOf
  <2> HIDE DEF y
  <2>3. SameSock(u.sock[x], s.sock[x])
    BY <2>1 DEF SameSock
  <2>4. y # None => /\ SamePipe(u.sess[y], s.sess[y]) /\ u.sess[y].ep = s.sess[y].ep /\ u.ep = s.ep
                    /\ Signals(u, y, "IN") <=> Signals(s, y, "IN")
                    /\ Signals(u, y, "OUT") <=> Signals(s, y, "OUT")
    BY <1>1, <1>5, <2>2 DEF PipeChange, CalmSess
  <2>5. PipeKept(s, u, y)
    BY <2>4 DEF PipeKept
  <2>6. PipeKept(s, u, s.sock[x].excl.pipe)
    BY ONLY <2>5 DEF y
  <2>7. Wired(u, x) /\ nn_xpair_events(u, x) = nn_xpair_events(s, x)
    BY ONLY <2>1, <2>3, <2>6, WiredKept
  <2> QED
    BY <2>1, <2>7
<1>7. ASSUME NEW i \in DOMAIN u.events
      PROVE  \/ i \in DOMAIN s.events /\ u.events[i] = s.events[i]
             \/ u.events[i].from = q /\ OwnHome(s, u.events[i].to) = o
  <2>1. CASE u.events = s.events
    BY <2>1
  <2>2. CASE OneMore(s, u, q, o)
    <3>1. PICK v : u.events = Append(s.events, v) /\ v.from = q /\ OwnHome(s, v.to) = o
      BY <2>2 DEF OneMore
    <3>2. \/ i \in DOMAIN s.events /\ u.events[i] = s.events[i]
          \/ u.events[i] = v
      BY <1>1, <3>1
    <3> QED
      BY <3>1, <3>2
  <2> QED
    BY <1>1, <2>1, <2>2 DEF PipeChange
<1>8. Heard(u)
  <2> SUFFICES ASSUME NEW i \in DOMAIN u.events, u.events[i].type \in Way, u.events[i].from # q
               PROVE  u.sess[u.events[i].from].st \notin Early
    BY <1>1 DEF Heard, PipeChange
  <2>1. i \in DOMAIN s.events /\ u.events[i] = s.events[i] /\ s.events[i] \in OwnEvent
    BY <1>1, <1>7
  <2>2. u.events[i].from \in Session
    BY <2>1 DEF OwnEvent, EventOf, Way
  <2> QED
    BY <1>1, <2>1, <2>2 DEF Led, Heard, PipeChange, CalmSess
<1>9. Rested(u, o)
  BY <1>6 DEF Led, Rested
<1>10. Local(u, o)
  BY <1>1, <1>7 DEF Led, Local, OwnHome, PipeChange
<1>11. Kin(u)
  <2>1. ASSUME NEW e \in Endpoint, NEW y \in u.ep[e].sessions PROVE u.sess[y].ep = e /\ u.sess[y].st # "NONE"
    <3>1. y \in Session /\ y \in s.ep[e].sessions
      <4>1. s.ep[e] \in EpType
        BY <1>1 DEF ProcType
      <4> QED
        BY <1>1, <2>1, <4>1 DEF EpType, Session, PipeChange
    <3> QED
      BY <1>1, <1>2, <3>1 DEF Led, Kin, PipeChange, CalmSess
  <2>2. ASSUME NEW x \in Socket PROVE u.sock[x].eps = s.sock[x].eps
    BY <1>1, <1>6 DEF PipeChange
  <2> QED
    BY <1>1, <2>1, <2>2 DEF Led, Kin, PipeChange
<1>12. Wires(u)
  BY <1>1, <1>6 DEF Wires, PipeChange
<1> QED
  BY <1>3, <1>4, <1>8, <1>9, <1>10, <1>11, <1>12 DEF Led

(* A session's pipe is added to its socket, that can now send.              *)
LEMMA StartTurn ==
  ASSUME NEW s, Good(s), NEW q \in Session, s.sess[q].st \in {"CONNECTING", "READY"}
  PROVE  Turn(s, [nn_pipebase_start(s, q) EXCEPT !.sess[q].st = "ACTIVE"], HomeOf(s, q))
<1> DEFINE o == HomeOf(s, q)
           r == [s.sess[q] EXCEPT !.pipe = "ACTIVE", !.in = "ASYNC", !.out = "IDLE"]
           w == [s EXCEPT !.sess[q] = r]
           d == nn_excl_add(w, o, q)
           v == [slot |-> <<q, "out">>, to |-> <<"sock", o>>, type |-> "OUT", from |-> q]
           n == nn_pipebase_start(s, q)
           u == [n EXCEPT !.sess[q].st = "ACTIVE"]
<1>1. o = SocketOf(s, q) /\ o \in Socket \cup {0}
  BY SocketOfSession DEF Good, HomeOf
<1>2. n = Raise(d, <<q, "out">>, <<"sock", o>>, "OUT", q)
  BY <1>1 DEF nn_pipebase_start
<1>3. s.sess[q] \in SessType /\ s \in ProcType /\ s.sess \in [Session -> SessType]
  BY SessOf DEF Good, ProcType
<1>4. r \in SessType /\ r.st = s.sess[q].st /\ r.ep = s.sess[q].ep /\ r.queue = s.sess[q].queue
      /\ r.sending = s.sess[q].sending /\ r.pipe = "ACTIVE" /\ r.in = "ASYNC" /\ r.out = "IDLE"
      /\ PeerFits(r, q) /\ Continues(r, s.sess[q])
  <2>1. PeerFits(s.sess[q], q)
    BY SessOf
  <2> QED
    BY <1>3, <2>1 DEF SessType, PeerFits, Blank, Continues, SameData
<1>5. Good(w)
  BY <1>4, SessStep DEF Step
<1>6. w.sock = s.sock /\ w.ep = s.ep /\ w.events = s.events /\ w.abort = s.abort
      /\ w.sess = [s.sess EXCEPT ![q] = r]
  BY <1>3 DEF ProcType
<1>7. Good(d)
  BY <1>1, <1>5, ExclAddStep DEF Step
<1>8. d.abort = "no" =>
        /\ s.abort = "no" /\ d.sess = w.sess /\ d.ep = s.ep /\ d.events = s.events
        /\ s.sock[o].excl.pipe = None
        /\ d.sock = [s.sock EXCEPT ![o] = [s.sock[o] EXCEPT !.excl = [s.sock[o].excl EXCEPT !.pipe = q]]]
  <2> HIDE DEF w
  <2>1. Abort(w, "second_pair_connection").abort # "no"
    BY <1>5, AbortParts DEF Good, Why
  <2>2. w \in ProcType
    BY <1>5 DEF Good
  <2> QED
    BY <1>6, <2>1, <2>2 DEF nn_excl_add, ProcType
<1>9. n.abort = "no" =>
        d.abort = "no" /\ n.sess = d.sess /\ n.sock = d.sock /\ n.ep = d.ep /\ n.events = Append(d.events, v)
  <2> HIDE DEF d, n, o
  <2> QED
    BY <1>2, <1>7, RaiseGives DEF Good
<1> DEFINE z == [r EXCEPT !.st = "ACTIVE"]
<1>10. /\ z.st = "ACTIVE" /\ z.ep = s.sess[q].ep /\ z.queue = s.sess[q].queue
       /\ z.sending = s.sess[q].sending /\ z.pipe = "ACTIVE" /\ z.in = "ASYNC" /\ z.out = "IDLE"
  <2> HIDE DEF r
  <2> QED
    BY <1>4 DEF SessType
<1>11. n \in ProcType
  BY PipeStartStep DEF Step, Good
<1>12. u.abort = n.abort /\ u.sock = n.sock /\ u.ep = n.ep /\ u.events = n.events
       /\ u.sess = [n.sess EXCEPT ![q].st = "ACTIVE"]
  BY <1>11 DEF ProcType
<1>13. v.from = q /\ v.type = "OUT" /\ v.to = <<"sock", o>>
  OBVIOUS
<1> HIDE DEF r, w, d, n, u, o, v
<1> SUFFICES ASSUME u.abort = "no" PROVE s.abort = "no" /\ (Led(s, o) => PipeChange(s, u, q, o))
  BY PipeTurn DEF o, u, n
<1>14. /\ s.abort = "no" /\ u.ep = s.ep /\ u.events = Append(s.events, v)
       /\ u.sock = [s.sock EXCEPT ![o] = [s.sock[o] EXCEPT !.excl = [s.sock[o].excl EXCEPT !.pipe = q]]]
       /\ s.sock[o].excl.pipe = None
  BY <1>8, <1>9, <1>12
<1>15. u.sess = [s.sess EXCEPT ![q] = z]
  <2>1. n.sess = [s.sess EXCEPT ![q] = r]
    BY <1>6, <1>8, <1>9, <1>12
  <2> QED
    BY <1>3, <1>12, <2>1
<1> HIDE DEF z
<1>16. u.sess[q] = z /\ \A y \in Session \ {q} : u.sess[y] = s.sess[y]
  BY <1>3, <1>15
<1> SUFFICES ASSUME Led(s, o) PROVE PipeChange(s, u, q, o)
  BY <1>14
<1>18. Link(s.sess[q]) /\ s.sess[q].pipe = "IDLE" /\ s.sess[q].queue = <<>> /\ ~s.sess[q].sending
       /\ s.sess[q].st \in Early
  BY DEF Led, Links, Link, Early
<1>19. Link(u.sess[q]) /\ u.sess[q].st \notin Early /\ u.sess[q].ep = s.sess[q].ep
  BY <1>10, <1>16, <1>18 DEF Link, Early
<1>20. ASSUME NEW y, NEW way PROVE Signals(u, y, way) <=> Signals(s, y, way) \/ (y = q /\ way = "OUT")
  BY <1>3, <1>13, <1>14, SignalsMore, SMTT(30)
<1>21. ~Signals(s, q, "IN")
  <2>1. "IN" \in Way
    BY DEF Way
  <2> QED
    BY <1>18, <2>1 DEF Signals, Led, Heard
<1>22. \A x \in Socket \ {o} : u.sock[x] = s.sock[x]
  BY <1>3, <1>14 DEF ProcType
<1>23. ASSUME o \in Socket PROVE Wired(u, o) /\ u.sock[o].eps = s.sock[o].eps
  <2> DEFINE k == [s.sock[o] EXCEPT !.excl = [s.sock[o].excl EXCEPT !.pipe = q]]
  <2>1. s.sock[o] \in SockType /\ s.sock[o].excl \in ExclType
    BY <1>3, <1>23 DEF ProcType, SockType
  <2>2. /\ k.st = s.sock[o].st /\ k.flags = s.sock[o].flags /\ k.efd = s.sock[o].efd
        /\ k.eps = s.sock[o].eps /\ k.excl.pipe = q /\ k.excl.inpipe = s.sock[o].excl.inpipe
        /\ k.excl.outpipe = s.sock[o].excl.outpipe
    BY <2>1 DEF SockType, ExclType
  <2>3. u.sock[o] = k
    BY <1>3, <1>14, <1>23 DEF ProcType
  <2>4. Wired(s, o)
    BY <1>23 DEF Led, Wires
  <2> HIDE DEF k
  <2>5. s.sock[o].excl.inpipe = None /\ s.sock[o].excl.outpipe = None /\ q # None
    BY <1>14, <2>4, Names DEF Wired
  <2>6. u.sess[q].pipe = "ACTIVE" /\ u.ep[u.sess[q].ep].sock = o
        /\ u.sess[q].queue = <<>> /\ ~u.sess[q].sending
    BY <1>10, <1>14, <1>16, <1>18 DEF o, HomeOf
  <2>7. Signals(u, q, "OUT") /\ ~Signals(u, q, "IN")
    BY <1>20, <1>21
  <2> QED
    BY <2>2, <2>3, <2>4, <2>5, <2>6, <2>7 DEF Wired
<1>24. OneMore(s, u, q, o)
  BY <1>13, <1>14 DEF OneMore, OwnHome
<1> QED
  BY <1>14, <1>16, <1>19, <1>22, <1>23, <1>24 DEF PipeChange, CalmSess, SamePipe

(* An update of a socket's nn_excl.                                         *)
LEMMA SetExcl ==
  ASSUME NEW S \in [Socket -> SockType], NEW o, NEW x, NEW T, T = [S EXCEPT ![o].excl = x]
  PROVE  /\ \A y \in Socket \ {o} : T[y] = S[y]
         /\ o \in Socket => /\ T[o].excl = x /\ T[o].st = S[o].st /\ T[o].flags = S[o].flags
                            /\ T[o].efd = S[o].efd /\ T[o].eps = S[o].eps
BY DEF SockType

(* nn_pipebase_stop is a turn: the socket has no pipe any more.             *)
LEMMA PipeStopTurn ==
  ASSUME NEW s, Good(s), NEW q \in Session
  PROVE  Turn(s, nn_pipebase_stop(s, q), HomeOf(s, q))
<1> DEFINE o == HomeOf(s, q)
           r == [s.sess[q] EXCEPT !.pipe = "IDLE"]
           u == nn_pipebase_stop(s, q)
<1>1. CASE s.sess[q].pipe # "ACTIVE"
  BY <1>1, TurnNot DEF nn_pipebase_stop
<1>2. CASE s.sess[q].pipe = "ACTIVE"
  <2>1. SocketOf(s, q) = o
    BY SocketOfSession DEF Good, HomeOf
  <2>2. u = [[s EXCEPT !.sess[q] = r] EXCEPT !.sock[o].excl = nn_excl_init]
    BY <1>2, <2>1 DEF nn_pipebase_stop, nn_excl_rm
  <2>3. s \in ProcType /\ s.sess \in [Session -> SessType] /\ s.sock \in [Socket -> SockType]
    BY DEF Good, ProcType
  <2>4. r.ep = s.sess[q].ep /\ r.st = s.sess[q].st /\ r.pipe = "IDLE" /\ r.queue = s.sess[q].queue
        /\ r.sending = s.sess[q].sending
    BY <2>3 DEF SessType
  <2> HIDE DEF o, r, u
  <2>5. /\ u.abort = s.abort /\ u.ep = s.ep /\ u.events = s.events
        /\ u.sess = [s.sess EXCEPT ![q] = r] /\ u.sock = [s.sock EXCEPT ![o].excl = nn_excl_init]
    BY <2>2, <2>3 DEF ProcType
  <2>6. u.sess[q] = r /\ \A y \in Session \ {q} : u.sess[y] = s.sess[y]
    BY <2>3, <2>5
  <2> SUFFICES ASSUME Led(s, o) PROVE PipeChange(s, u, q, o)
    BY <2>5, PipeTurn DEF o, u
  <2>7. Link(s.sess[q])
    BY DEF Led, Links
  <2>8. Link(r) /\ r.st \notin Early
    BY <1>2, <2>4, <2>7 DEF Link
  <2>9. /\ \A x \in Socket \ {o} : u.sock[x] = s.sock[x]
        /\ o \in Socket => /\ u.sock[o].excl = nn_excl_init /\ u.sock[o].st = s.sock[o].st
                           /\ u.sock[o].flags = s.sock[o].flags /\ u.sock[o].efd = s.sock[o].efd
                           /\ u.sock[o].eps = s.sock[o].eps
    BY <2>3, <2>5, SetExcl
  <2>10. o \in Socket => Wired(s, o)
    BY DEF Led, Wires
  <2>11. o \in Socket => Wired(u, o)
    <3>1. nn_excl_init.pipe = None /\ nn_excl_init.inpipe = None /\ nn_excl_init.outpipe = None
      BY DEF nn_excl_init
    <3> QED
      BY <2>9, <2>10, <3>1 DEF Wired
  <2> QED
    BY <2>4, <2>5, <2>6, <2>8, <2>9, <2>11 DEF PipeChange, CalmSess, SamePipe
<1>3. s.sess[q].pipe \in {"IDLE", "ACTIVE"}
  BY SessOf DEF SessType
<1> QED
  BY <1>1, <1>2

(* What nn_pipebase_received and nn_pipebase_sent give.                     *)
LEMMA PipeReceivedGives ==
  ASSUME NEW s, Good(s), NEW q \in Session
  PROVE  LET u == nn_pipebase_received(s, q) IN
         u.abort = "no" =>
           /\ s.abort = "no" /\ u.sock = s.sock /\ u.ep = s.ep
           /\ u.sess[q] = [s.sess[q] EXCEPT !.in = "IDLE"]
           /\ \A y \in Session \ {q} : u.sess[y] = s.sess[y]
           /\ u.events = Append(s.events, [slot |-> <<q, "in">>, to |-> <<"sock", HomeOf(s, q)>>,
                                           type |-> "IN", from |-> q])
<1> DEFINE o == HomeOf(s, q)
           r == [s.sess[q] EXCEPT !.in = "IDLE"]
           w == [s EXCEPT !.sess[q] = r]
           u == nn_pipebase_received(s, q)
<1>1. SocketOf(s, q) = o
  BY SocketOfSession DEF Good, HomeOf
<1>2. u = IF s.sess[q].in # "ASYNC" THEN Bad(s) ELSE Raise(w, <<q, "in">>, <<"sock", o>>, "IN", q)
  BY <1>1 DEF nn_pipebase_received
<1>3. Bad(s).abort # "no"
  BY BadStep
<1>4. s \in ProcType /\ s.sess \in [Session -> SessType] /\ r \in SessType
  <2>1. s \in ProcType /\ s.sess \in [Session -> SessType]
    BY DEF Good, ProcType
  <2>2. s.sess[q] \in SessType
    BY <2>1
  <2> QED
    BY <2>1, <2>2 DEF SessType
<1> HIDE DEF r
<1>5. w \in ProcType /\ w.sess = [s.sess EXCEPT ![q] = r] /\ w.sock = s.sock /\ w.ep = s.ep
      /\ w.events = s.events /\ w.abort = s.abort
  BY <1>4 DEF ProcType
<1> HIDE DEF w, u, o
<1>6. ASSUME u.abort = "no"
      PROVE  /\ w.abort = "no" /\ u.sess = w.sess /\ u.sock = w.sock /\ u.ep = w.ep
             /\ u.events = Append(w.events, [slot |-> <<q, "in">>, to |-> <<"sock", o>>, type |-> "IN", from |-> q])
  BY <1>2, <1>3, <1>5, <1>6, RaiseGives
<1>7. [s.sess EXCEPT ![q] = r][q] = r /\ \A y \in Session \ {q} : [s.sess EXCEPT ![q] = r][y] = s.sess[y]
  BY <1>4
<1> QED
  BY <1>5, <1>6, <1>7, ZenonT(60) DEF r, u, o

(* What nn_pipebase_sent gives: OUT is raised by the pipe.                 *)
LEMMA PipeSentGives ==
  ASSUME NEW s, Good(s), NEW q \in Session
  PROVE  LET u == nn_pipebase_sent(s, q) IN
         u.abort = "no" =>
           /\ s.abort = "no" /\ u.sock = s.sock /\ u.ep = s.ep
           /\ u.sess[q] = [s.sess[q] EXCEPT !.out = "IDLE"]
           /\ \A y \in Session \ {q} : u.sess[y] = s.sess[y]
           /\ u.events = Append(s.events, [slot |-> <<q, "out">>, to |-> <<"sock", HomeOf(s, q)>>,
                                           type |-> "OUT", from |-> q])
<1> DEFINE o == HomeOf(s, q)
           r == [s.sess[q] EXCEPT !.out = "IDLE"]
           w == [s EXCEPT !.sess[q] = r]
           u == nn_pipebase_sent(s, q)
<1>1. SocketOf(s, q) = o
  BY SocketOfSession DEF Good, HomeOf
<1>2. u = IF s.sess[q].out # "ASYNC" THEN Bad(s) ELSE Raise(w, <<q, "out">>, <<"sock", o>>, "OUT", q)
  BY <1>1 DEF nn_pipebase_sent
<1>3. Bad(s).abort # "no"
  BY BadStep
<1>4. s \in ProcType /\ s.sess \in [Session -> SessType] /\ r \in SessType
  <2>1. s \in ProcType /\ s.sess \in [Session -> SessType]
    BY DEF Good, ProcType
  <2>2. s.sess[q] \in SessType
    BY <2>1
  <2> QED
    BY <2>1, <2>2 DEF SessType
<1> HIDE DEF r
<1>5. w \in ProcType /\ w.sess = [s.sess EXCEPT ![q] = r] /\ w.sock = s.sock /\ w.ep = s.ep
      /\ w.events = s.events /\ w.abort = s.abort
  BY <1>4 DEF ProcType
<1> HIDE DEF w, u, o
<1>6. ASSUME u.abort = "no"
      PROVE  /\ w.abort = "no" /\ u.sess = w.sess /\ u.sock = w.sock /\ u.ep = w.ep
             /\ u.events = Append(w.events, [slot |-> <<q, "out">>, to |-> <<"sock", o>>, type |-> "OUT", from |-> q])
  BY <1>2, <1>3, <1>5, <1>6, RaiseGives
<1>7. [s.sess EXCEPT ![q] = r][q] = r /\ \A y \in Session \ {q} : [s.sess EXCEPT ![q] = r][y] = s.sess[y]
  BY <1>4
<1> QED
  BY <1>5, <1>6, <1>7, ZenonT(60) DEF r, u, o

(* A message that is sent and taken makes the pipe one that can be sent to. *)
LEMMA SentTurn ==
  ASSUME NEW s, Good(s), NEW q \in Session, s.sess[q].st = "ACTIVE"
  PROVE  Turn(s, [nn_pipebase_sent(s, q) EXCEPT !.sess[q].sending = FALSE], HomeOf(s, q))
<1> DEFINE o == HomeOf(s, q)
           n == nn_pipebase_sent(s, q)
           v == [slot |-> <<q, "out">>, to |-> <<"sock", o>>, type |-> "OUT", from |-> q]
           r == [s.sess[q] EXCEPT !.out = "IDLE"]
           z == [r EXCEPT !.sending = FALSE]
           u == [n EXCEPT !.sess[q].sending = FALSE]
<1>1. s \in ProcType /\ s.sess \in [Session -> SessType]
  BY DEF Good, ProcType
<1>2. n \in ProcType /\ n.sess \in [Session -> SessType]
  BY PipeSentStep DEF Step, Good, ProcType
<1>3. n.abort = "no" =>
        /\ s.abort = "no" /\ n.sock = s.sock /\ n.ep = s.ep /\ n.sess[q] = r
        /\ \A y \in Session \ {q} : n.sess[y] = s.sess[y]
        /\ n.events = Append(s.events, v)
  BY PipeSentGives
<1>4. /\ z.st = "ACTIVE" /\ z.ep = s.sess[q].ep /\ z.pipe = s.sess[q].pipe /\ z.in = s.sess[q].in
      /\ z.out = "IDLE" /\ z.queue = s.sess[q].queue /\ z.sending = FALSE
  <2>1. s.sess[q] \in SessType
    BY <1>1
  <2> QED
    BY <2>1 DEF SessType
<1>5. v.from = q /\ v.type = "OUT" /\ v.to = <<"sock", o>>
  OBVIOUS
<1> HIDE DEF n, v, o
<1>6. /\ u.abort = n.abort /\ u.sock = n.sock /\ u.ep = n.ep /\ u.events = n.events
      /\ u.sess = [n.sess EXCEPT ![q].sending = FALSE]
  BY <1>2 DEF ProcType
<1> HIDE DEF u
<1>7. u.sess[q] = [n.sess[q] EXCEPT !.sending = FALSE] /\ \A y \in Session \ {q} : u.sess[y] = n.sess[y]
  BY <1>2, <1>6
<1> SUFFICES ASSUME u.abort = "no", Led(s, o) PROVE PipeChange(s, u, q, o)
  BY <1>3, <1>6, PipeTurn DEF o, n, u
<1>8. u.sess[q] = z
  BY <1>3, <1>6, <1>7
<1> HIDE DEF z, r
<1>9. Link(s.sess[q])
  BY DEF Led, Links
<1>10. Link(u.sess[q]) /\ u.sess[q].st \notin Early
  BY <1>4, <1>8, <1>9 DEF Link, Early
<1>11. OneMore(s, u, q, o)
  BY <1>3, <1>5, <1>6 DEF OneMore, OwnHome
<1>12. ASSUME o \in Socket PROVE Wired(u, o)
  <2>1. Wired(s, o) /\ u.sock[o] = s.sock[o] /\ u.ep = s.ep
    BY <1>3, <1>6, <1>12 DEF Led, Wires
  <2> DEFINE y == s.sock[o].excl.pipe
  <2>2. y \in Session \cup {None}
    BY <1>1, <1>12, ExclOf DEF ExclType, PipeName
  <2>3. ASSUME NEW x, NEW way
        PROVE  Signals(u, x, way) <=> Signals(s, x, way) \/ (x = q /\ way = "OUT")
    <3>1. u.events = Append(s.events, v)
      BY <1>3, <1>6
    <3>2. Signals(u, x, way) <=> Signals(s, x, way) \/ (v.from = x /\ v.type = way)
      BY <1>1, <3>1, SignalsMore
    <3> QED
      BY <1>5, <3>2
  <2>4. CASE y = q
    <3>1. Signals(u, q, "OUT") /\ (Signals(u, q, "IN") <=> Signals(s, q, "IN"))
      BY <2>3
    <3> QED
      BY <1>4, <1>8, <2>1, <2>4, <3>1 DEF Wired
  <2>5. CASE y # q
    <3>1. y # None => u.sess[y] = s.sess[y]
      BY <1>3, <1>6, <1>7, <2>2, <2>5
    <3>2. (Signals(u, y, "OUT") <=> Signals(s, y, "OUT")) /\ (Signals(u, y, "IN") <=> Signals(s, y, "IN"))
      BY <2>3, <2>5
    <3> QED
      BY <2>1, <2>5, <3>1, <3>2 DEF Wired
  <2> QED
    BY <2>4, <2>5
<1>13. \A y \in Session \ {q} : CalmSess(u.sess[y], s.sess[y])
  BY <1>3, <1>6, <1>7 DEF CalmSess, SamePipe
<1>14. u.ep = s.ep /\ u.sock = s.sock /\ u.sess[q].ep = s.sess[q].ep
  BY <1>3, <1>4, <1>6, <1>8
<1> QED
  BY <1>10, <1>11, <1>12, <1>13, <1>14 DEF PipeChange

(* What a session's fetching its peer's message gives.                      *)
LEMMA FetchGives ==
  ASSUME NEW s, s \in ProcType, NEW q \in Session, s.sess[q].peer = Twin(q)
  PROVE  LET u == Fetch(s, q)
             z == Twin(q) IN
         u.abort = "no" =>
           /\ s.abort = "no" /\ u.sock = s.sock /\ u.ep = s.ep /\ u.events = s.events
           /\ s.sess[z].st # "FREED"
           /\ u.sess[q] = [s.sess[q] EXCEPT !.queue = @ \o s.sess[z].msg]
           /\ \A y \in Session \ {q} : CalmSess(u.sess[y], s.sess[y])
<1> DEFINE z == Twin(q)
           a == s.sess[q]
           b == s.sess[z]
           r == [a EXCEPT !.queue = @ \o b.msg]
           k == [b EXCEPT !.msg = <<>>]
           w == [s EXCEPT !.sess = [s.sess EXCEPT ![q] = r, ![z] = k]]
           x == [s EXCEPT !.sess[q] = r]
           u == Fetch(s, q)
<1>1. z \in Session /\ Twin(z) = q /\ z # q
  BY Twins
<1>2. s.sess \in [Session -> SessType]
  BY DEF ProcType
<1>3. a \in SessType /\ b \in SessType
  BY <1>1, <1>2
<1>4. r \in SessType /\ k \in SessType
  <2>1. b.msg \in Seq(Nat)
    BY <1>3, Unpacked
  <2> HIDE DEF a, b
  <2> QED
    BY <1>3, <2>1, QueueAppend, MsgTaken
<1>5. CalmSess(k, b) /\ k.st = b.st
  <2> HIDE DEF b
  <2> QED
    BY <1>3 DEF SessType, CalmSess, SamePipe
<1>6. u = RaiseTo([x EXCEPT !.sess[z].msg = <<>>], <<z, "received">>, z, "RECEIVED", q)
  BY DEF Fetch, nn_msgqueue_send
<1>7. [x EXCEPT !.sess[z].msg = <<>>] = w
  <2>1. x.sess = [s.sess EXCEPT ![q] = r] /\ x.sess[z] = b
    BY <1>1, <1>2 DEF ProcType
  <2> HIDE DEF r
  <2>2. [x EXCEPT !.sess[z].msg = <<>>] = [x EXCEPT !.sess = [x.sess EXCEPT ![z] = k]]
    BY <2>1
  <2>3. [x.sess EXCEPT ![z] = k] = [s.sess EXCEPT ![q] = r, ![z] = k]
    BY <2>1
  <2> HIDE DEF k
  <2>4. [x EXCEPT !.sess = [s.sess EXCEPT ![q] = r, ![z] = k]] = w
    BY <1>2 DEF ProcType
  <2> QED
    BY <2>2, <2>3, <2>4
<1> HIDE DEF r, k, u
<1>8. /\ w \in ProcType /\ w.abort = s.abort /\ w.sock = s.sock /\ w.ep = s.ep /\ w.events = s.events
      /\ w.sess = [s.sess EXCEPT ![q] = r, ![z] = k]
  BY <1>2, <1>4 DEF ProcType
<1>9. w.sess[q] = r /\ w.sess[z] = k /\ \A y \in Session \ {q, z} : w.sess[y] = s.sess[y]
  BY <1>1, <1>2, <1>8
<1> HIDE DEF w
<1> HIDE DEF x
<1>13. u = RaiseTo(w, <<z, "received">>, z, "RECEIVED", q)
  BY <1>6, <1>7
<1>10. ASSUME u.abort = "no"
       PROVE  /\ w.abort = "no" /\ u.sess = w.sess /\ u.sock = w.sock /\ u.ep = w.ep
              /\ u.events = w.events /\ ~IsFreed(w, z)
  BY <1>8, <1>10, <1>13, RaiseToGives
<1>11. IsFreed(w, z) <=> b.st = "FREED"
  BY <1>1, <1>5, <1>9, Names DEF IsFreed
<1>12. u.abort = "no" => \A y \in Session \ {q} : CalmSess(u.sess[y], s.sess[y])
  <2>1. \A y \in Session \ {q, z} : CalmSess(s.sess[y], s.sess[y])
    BY DEF CalmSess, SamePipe
  <2> QED
    BY <1>5, <1>9, <1>10, <2>1
<1> QED
  BY <1>8, <1>9, <1>10, <1>11, <1>12 DEF u, r

(* Two queues that are not both empty have a message.                      *)
LEMMA Longer ==
  ASSUME NEW A \in Seq(Nat), NEW B \in Seq(Nat), A # <<>> \/ B # <<>>
  PROVE  A \o B # <<>>
<1>1. Len(A \o B) = Len(A) + Len(B) /\ Len(A) \in Nat /\ Len(B) \in Nat
  OBVIOUS
<1>2. Len(A) # 0 \/ Len(B) # 0
  OBVIOUS
<1>3. Len(A \o B) # Len(<<>>)
  BY <1>1, <1>2
<1> QED
  BY <1>3, Zenon

(* A session that fetches a message into a queue that has one: its pipe can *)
(* be received from, as before.                                             *)
LEMMA FetchTurn ==
  ASSUME NEW s, Good(s), NEW q \in Session, s.sess[q].st \in {"ACTIVE", "DISCONNECTED"},
         s.sess[q].peer = Twin(q), s.sess[q].queue # <<>>
  PROVE  Turn(s, Fetch(s, q), HomeOf(s, q))
<1> DEFINE o == HomeOf(s, q)
           u == Fetch(s, q)
           z == Twin(q)
           r == [s.sess[q] EXCEPT !.queue = @ \o s.sess[z].msg]
<1>1. s \in ProcType /\ s.sess[q] \in SessType /\ s.sess[z] \in SessType
  BY SessOf, Twins DEF Good
<1>2. u.abort = "no" =>
        /\ s.abort = "no" /\ u.sock = s.sock /\ u.ep = s.ep /\ u.events = s.events
        /\ u.sess[q] = r /\ \A y \in Session \ {q} : CalmSess(u.sess[y], s.sess[y])
  BY <1>1, FetchGives
<1>3. r.st = s.sess[q].st /\ r.ep = s.sess[q].ep /\ r.pipe = s.sess[q].pipe /\ r.in = s.sess[q].in
      /\ r.out = s.sess[q].out /\ r.sending = s.sess[q].sending /\ r.queue # <<>>
  <2>1. s.sess[q].queue \in Seq(Nat) /\ s.sess[z].msg \in Seq(Nat)
    BY <1>1, Unpacked
  <2>2. s.sess[q].queue \o s.sess[z].msg # <<>>
    BY <2>1, Longer
  <2> QED
    BY <1>1, <2>2 DEF SessType
<1> HIDE DEF u, r, z, o
<1> SUFFICES ASSUME u.abort = "no", Led(s, o) PROVE PipeChange(s, u, q, o)
  BY <1>2, PipeTurn DEF o, u
<1>4. Link(u.sess[q]) /\ u.sess[q].st \notin Early
  BY <1>2, <1>3 DEF Led, Links, Link, Early
<1>5. ASSUME o \in Socket PROVE Wired(u, o)
  <2>1. Wired(s, o) /\ u.sock[o] = s.sock[o] /\ u.ep = s.ep
    BY <1>2, <1>5 DEF Led, Wires
  <2> DEFINE y == s.sock[o].excl.pipe
  <2>2. y \in Session \cup {None}
    BY <1>1, <1>5, ExclOf DEF ExclType, PipeName
  <2>3. \A x, way : Signals(u, x, way) <=> Signals(s, x, way)
    BY <1>2 DEF Signals
  <2>4. y # None => /\ u.sess[y].pipe = s.sess[y].pipe /\ u.sess[y].ep = s.sess[y].ep
                    /\ (u.sess[y].queue # <<>> <=> s.sess[y].queue # <<>>)
                    /\ u.sess[y].sending = s.sess[y].sending
    BY <1>2, <1>3, <2>2, SMTT(30) DEF CalmSess, SamePipe
  <2> QED
    BY <2>1, <2>3, <2>4 DEF Wired
<1> QED
  BY <1>2, <1>3, <1>4, <1>5 DEF PipeChange

(* A session that fetches a message into an empty queue: its socket is told. *)
LEMMA ReceivedTurn ==
  ASSUME NEW s, Good(s), NEW q \in Session, s.sess[q].st = "ACTIVE", FetchDue(s, q)
  PROVE  Turn(s, Fetch(nn_pipebase_received(s, q), q), HomeOf(s, q))
<1> DEFINE o == HomeOf(s, q)
           n == nn_pipebase_received(s, q)
           v == [slot |-> <<q, "in">>, to |-> <<"sock", o>>, type |-> "IN", from |-> q]
           u == Fetch(n, q)
           z == Twin(q)
           a == [s.sess[q] EXCEPT !.in = "IDLE"]
           r == [a EXCEPT !.queue = @ \o s.sess[z].msg]
<1>1. s \in ProcType /\ s.sess[q] \in SessType /\ s.sess[z] \in SessType /\ z \in Session /\ z # q
      /\ s.sess[q].peer = z
  BY SessOf, Twins DEF Good, PeerFits
<1>2. Good(n) /\ n \in ProcType /\ n.sess[q].peer = z /\ FetchDue(n, q)
  BY <1>1, PipeReceivedStep, PipeReceivedSess, ReceivedKeepsDue DEF Step, Good
<1>3. n.abort = "no" =>
        /\ s.abort = "no" /\ n.sock = s.sock /\ n.ep = s.ep /\ n.sess[q] = a
        /\ \A y \in Session \ {q} : n.sess[y] = s.sess[y]
        /\ n.events = Append(s.events, v)
  BY PipeReceivedGives
<1> HIDE DEF n
<1>4. u.abort = "no" =>
        /\ n.abort = "no" /\ u.sock = n.sock /\ u.ep = n.ep /\ u.events = n.events
        /\ n.sess[z].st # "FREED" /\ u.sess[q] = [n.sess[q] EXCEPT !.queue = @ \o n.sess[z].msg]
        /\ \A y \in Session \ {q} : CalmSess(u.sess[y], n.sess[y])
  BY <1>2, FetchGives
<1>5. v.from = q /\ v.type = "IN" /\ v.to = <<"sock", o>>
  OBVIOUS
<1>6. a.st = "ACTIVE" /\ a.in = "IDLE" /\ a.ep = s.sess[q].ep /\ a.pipe = s.sess[q].pipe
      /\ a.out = s.sess[q].out /\ a.sending = s.sess[q].sending /\ a.queue = s.sess[q].queue
      /\ a \in SessType
  BY <1>1 DEF SessType
<1>7. /\ r.st = a.st /\ r.in = a.in /\ r.ep = a.ep /\ r.pipe = a.pipe /\ r.out = a.out
      /\ r.sending = a.sending /\ r.queue = a.queue \o s.sess[z].msg
  <2> HIDE DEF a
  <2> QED
    BY <1>6 DEF SessType
<1>8. u.abort = "no" => u.sess[q] = r
  BY <1>1, <1>3, <1>4, ZenonT(60)
<1> HIDE DEF u, r, z, o, a, v
<1> SUFFICES ASSUME u.abort = "no", Led(s, o) PROVE PipeChange(s, u, q, o)
  BY <1>3, <1>4, PipeTurn DEF o, u, n
<1>9. r.queue # <<>>
  <2>1. Paired(n, q)
    BY <1>3, <1>4, <1>6 DEF Paired, z
  <2>2. n.sess[z] = s.sess[z] /\ n.sess[z].msg # <<>>
    BY <1>1, <1>2, <1>3, <1>4, <2>1 DEF FetchDue, Offered, z
  <2>3. a.queue \in Seq(Nat) /\ s.sess[z].msg \in Seq(Nat)
    BY <1>1, <1>6, Unpacked
  <2> QED
    BY <1>7, <2>2, <2>3, Longer
<1>10. Link(u.sess[q]) /\ u.sess[q].st \notin Early
  <2>1. Link(s.sess[q])
    BY DEF Led, Links
  <2> QED
    BY <1>6, <1>7, <1>8, <1>9, <2>1 DEF Link, Early
<1>11. u.events = Append(s.events, v) /\ u.ep = s.ep /\ u.sock = s.sock
  BY <1>3, <1>4
<1>12. OneMore(s, u, q, o)
  BY <1>5, <1>11 DEF OneMore, OwnHome
<1>13. ASSUME NEW y \in Session \ {q} PROVE CalmSess(u.sess[y], s.sess[y])
  BY <1>3, <1>4
<1>14. ASSUME o \in Socket PROVE Wired(u, o)
  <2>1. Wired(s, o) /\ u.sock[o] = s.sock[o]
    BY <1>11, <1>14 DEF Led, Wires
  <2> DEFINE y == s.sock[o].excl.pipe
  <2>2. y \in Session \cup {None}
    BY <1>1, <1>14, ExclOf DEF ExclType, PipeName
  <2>3. ASSUME NEW x, NEW way
        PROVE  Signals(u, x, way) <=> Signals(s, x, way) \/ (x = q /\ way = "IN")
    <3>1. Signals(u, x, way) <=> Signals(s, x, way) \/ (v.from = x /\ v.type = way)
      BY <1>1, <1>11, SignalsMore
    <3> QED
      BY <1>5, <3>1
  <2>4. CASE y = q
    <3>1. Signals(u, q, "IN") /\ (Signals(u, q, "OUT") <=> Signals(s, q, "OUT"))
      BY <2>3
    <3> QED
      BY <1>6, <1>7, <1>8, <1>9, <1>11, <2>1, <2>4, <3>1, ZenonT(60) DEF Wired
  <2>5. CASE y # q
    <3>1. y # None => CalmSess(u.sess[y], s.sess[y])
      BY <1>13, <2>2, <2>5
    <3>2. (Signals(u, y, "OUT") <=> Signals(s, y, "OUT")) /\ (Signals(u, y, "IN") <=> Signals(s, y, "IN"))
      BY <2>3, <2>5
    <3> QED
      BY <1>11, <2>1, <2>5, <3>1, <3>2 DEF Wired, CalmSess, SamePipe
  <2> QED
    BY <2>4, <2>5
<1> QED
  BY <1>6, <1>7, <1>8, <1>10, <1>11, <1>12, <1>13, <1>14 DEF PipeChange

(* What receiving from a session gives.                                     *)
SameEnds(r, z) ==
  /\ r.st = z.st /\ r.ep = z.ep /\ r.pipe = z.pipe /\ r.in = z.in /\ r.out = z.out
  /\ r.sending = z.sending

(* What receiving from a session gives: its pipe stays as it is, and its   *)
(* queue was not empty.                                                    *)
LEMMA SinprocRecvGives ==
  ASSUME NEW s, Good(s), NEW q \in Session
  PROVE  LET u == nn_sinproc_recv(s, q) IN
         u.abort = "no" =>
           /\ s.abort = "no" /\ u.sock = s.sock /\ u.ep = s.ep /\ u.events = s.events
           /\ s.sess[q].st \in {"ACTIVE", "DISCONNECTED"} /\ s.sess[q].queue # <<>>
           /\ SameEnds(u.sess[q], s.sess[q])
           /\ \A y \in Session \ {q} : CalmSess(u.sess[y], s.sess[y])
<1> DEFINE z == Twin(q)
           a == s.sess[q]
           r == [a EXCEPT !.queue = Tail(@), !.got = Head(a.queue)]
           k == [r EXCEPT !.receiving = FALSE]
           n == nn_msgqueue_recv(s, q)
           w == [n EXCEPT !.sess[q].receiving = FALSE]
           u == nn_sinproc_recv(s, q)
<1>1. s \in ProcType /\ s.sess \in [Session -> SessType] /\ a \in SessType /\ PeerFits(a, q)
  BY SessOf DEF Good, ProcType
<1>2. Bad(s).abort # "no"
  BY BadStep
<1> SUFFICES ASSUME u.abort = "no", a.st \in {"ACTIVE", "DISCONNECTED"}, a.queue # <<>>
             PROVE  /\ s.abort = "no" /\ u.sock = s.sock /\ u.ep = s.ep /\ u.events = s.events
                    /\ SameEnds(u.sess[q], a)
                    /\ \A y \in Session \ {q} : CalmSess(u.sess[y], s.sess[y])
  BY <1>2 DEF nn_sinproc_recv
<1>3. u = IF a.st = "ACTIVE" /\ a.receiving /\ ~Full(n.sess[q].queue) THEN Fetch(w, q) ELSE n
  BY DEF nn_sinproc_recv
<1>4. r \in SessType /\ SameEnds(r, a) /\ r.peer = a.peer
  <2>1. a.queue \in Seq(Nat) /\ Tail(a.queue) \in Seq(Nat) /\ Head(a.queue) \in Nat
    BY <1>1, Unpacked
  <2> HIDE DEF a
  <2> QED
    BY <1>1, <2>1 DEF SessType, SameEnds
<1>5. k \in SessType /\ SameEnds(k, a) /\ k.peer = a.peer
  <2> HIDE DEF r, a
  <2> QED
    BY <1>4 DEF SessType, SameEnds
<1>6. /\ n \in ProcType /\ n.abort = s.abort /\ n.sock = s.sock /\ n.ep = s.ep /\ n.events = s.events
      /\ n.sess = [s.sess EXCEPT ![q] = r]
  <2>1. n = [s EXCEPT !.sess[q] = r]
    BY DEF nn_msgqueue_recv
  <2> HIDE DEF n, r
  <2> QED
    BY <1>1, <1>4, <2>1 DEF ProcType
<1> HIDE DEF n, r
<1>7. n.sess[q] = r /\ \A y \in Session \ {q} : n.sess[y] = s.sess[y]
  BY <1>1, <1>6
<1>8. /\ w \in ProcType /\ w.abort = s.abort /\ w.sock = s.sock /\ w.ep = s.ep /\ w.events = s.events
      /\ w.sess = [n.sess EXCEPT ![q] = k]
  <2>1. w = [n EXCEPT !.sess[q] = k]
    BY <1>7
  <2> HIDE DEF w, k
  <2> QED
    BY <1>5, <1>6, <2>1 DEF ProcType
<1> HIDE DEF w, k
<1>9. w.sess[q] = k /\ \A y \in Session \ {q} : w.sess[y] = s.sess[y]
  BY <1>1, <1>6, <1>7, <1>8
<1>10. \A y \in Session \ {q} : CalmSess(s.sess[y], s.sess[y])
  BY DEF CalmSess, SamePipe
<1>11. CASE u = n
  BY <1>4, <1>6, <1>7, <1>10, <1>11
<1>12. CASE u = Fetch(w, q) /\ a.st = "ACTIVE"
  <2> HIDE DEF u
  <2>1. w.sess[q].peer = z
    BY <1>1, <1>5, <1>9, <1>12 DEF PeerFits
  <2>2. /\ w.abort = "no" /\ u.sock = w.sock /\ u.ep = w.ep /\ u.events = w.events
        /\ u.sess[q] = [w.sess[q] EXCEPT !.queue = @ \o w.sess[z].msg]
        /\ \A y \in Session \ {q} : CalmSess(u.sess[y], w.sess[y])
    BY <1>8, <1>12, <2>1, FetchGives, ZenonT(60)
  <2>3. SameEnds(u.sess[q], k)
    BY <1>5, <1>9, <2>2 DEF SessType, SameEnds
  <2> QED
    BY <1>5, <1>8, <1>9, <2>2, <2>3 DEF SameEnds
<1> QED
  BY <1>3, <1>11, <1>12

(* The socket of a pipe that it can receive from or send to is the pipe's.  *)
LEMMA ExclPipe ==
  ASSUME NEW s, Good(s), NEW o \in Socket, Led(s, o), NEW q \in Session,
         q \in {s.sock[o].excl.inpipe, s.sock[o].excl.outpipe}
  PROVE  /\ s.sock[o].excl.pipe = q /\ s.sess[q].pipe = "ACTIVE" /\ HomeOf(s, q) = o /\ Link(s.sess[q])
         /\ s.sess[q].st \notin Early
<1>1. Wired(s, o) /\ Link(s.sess[q]) /\ q # None
  BY Names DEF Led, Wires, Links
<1>2. s.sock[o].excl.pipe = q
  <2> DEFINE k == s.sock[o].excl
  <2>1. k.inpipe \in {None, k.pipe} /\ k.outpipe \in {None, k.pipe}
    BY ONLY <1>1 DEF Wired
  <2>2. q \in {k.inpipe, k.outpipe}
    OBVIOUS
  <2> HIDE DEF k
  <2>3. k.pipe = q
    BY ONLY <1>1, <2>1, <2>2
  <2> QED
    BY ONLY <2>3 DEF k
<1>3. s.sess[q].pipe = "ACTIVE" /\ s.ep[s.sess[q].ep].sock = o
  BY <1>1, <1>2 DEF Wired
<1>4. s.sess[q].st \notin Early
  BY <1>1, <1>3 DEF Link
<1> QED
  BY <1>1, <1>2, <1>3, <1>4 DEF HomeOf

(* nn_pair_recv is a turn, when the context has no events: the pipe can be  *)
(* received from as long as there are messages.                             *)
LEMMA ExclRecvTurn ==
  ASSUME NEW s, Good(s), NEW o \in Socket, s.sock[o].excl.inpipe # None, s.events = <<>>
  PROVE  Turn(s, nn_excl_recv(s, o), o)
<1> DEFINE q == s.sock[o].excl.inpipe
           n == nn_sinproc_recv(s, q)
           x == IF n.sess[q].queue # <<>> THEN "IDLE" ELSE "ASYNC"
           m == nn_pipe_recv(s, q)
           u == nn_excl_recv(s, o)
           r == [n.sess[q] EXCEPT !.in = x]
<1> SUFFICES ASSUME u.abort = "no" PROVE s.abort = "no" /\ (Led(s, o) => Led(u, o) /\ Stays(s, u))
  BY DEF Turn
<1>1. q \in Session /\ s \in ProcType
  BY ExclOf DEF Good, ExclType, PipeName
<1>2. Good(n) /\ n \in ProcType /\ n.sess \in [Session -> SessType] /\ n.sock \in [Socket -> SockType]
  BY <1>1, SinprocRecvStep DEF Step, Good, ProcType
<1>3. m = IF s.sess[q].in # "IDLE" THEN Bad(s) ELSE [n EXCEPT !.sess[q].in = x]
  BY DEF nn_pipe_recv
<1>4. u = IF m.sess[q].in = "IDLE" THEN m ELSE [m EXCEPT !.sock[o].excl.inpipe = None]
  BY DEF nn_excl_recv
<1>5. m \in ProcType /\ m.sock \in [Socket -> SockType]
  BY <1>1, PipeRecvStep DEF Step, Good, ProcType
<1>6. m.abort = u.abort
  <2> HIDE DEF m, u
  <2> QED
    BY <1>4, <1>5 DEF ProcType
<1>7. m = [n EXCEPT !.sess[q].in = x]
  BY <1>3, <1>6, BadStep
<1> HIDE DEF m, u, n, x
<1>8. /\ m.abort = n.abort /\ m.sock = n.sock /\ m.ep = n.ep /\ m.events = n.events
      /\ m.sess = [n.sess EXCEPT ![q].in = x]
  BY <1>2, <1>7 DEF ProcType
<1>9. m.sess[q] = r /\ \A y \in Session \ {q} : m.sess[y] = n.sess[y]
  BY <1>1, <1>2, <1>8
<1>10. r.st = n.sess[q].st /\ r.ep = n.sess[q].ep /\ r.pipe = n.sess[q].pipe /\ r.in = x
       /\ r.out = n.sess[q].out /\ r.sending = n.sess[q].sending /\ r.queue = n.sess[q].queue
  BY <1>1, <1>2 DEF SessType
<1>11. /\ s.abort = "no" /\ n.sock = s.sock /\ n.ep = s.ep /\ n.events = s.events
       /\ s.sess[q].st \in {"ACTIVE", "DISCONNECTED"} /\ s.sess[q].queue # <<>>
       /\ SameEnds(n.sess[q], s.sess[q])
       /\ \A y \in Session \ {q} : CalmSess(n.sess[y], s.sess[y])
  BY <1>1, <1>6, <1>8, SinprocRecvGives DEF n
<1> HIDE DEF r
<1> SUFFICES ASSUME Led(s, o) PROVE Turn(s, u, o)
  BY <1>11 DEF Turn
<1>12. /\ s.sock[o].excl.pipe = q /\ s.sess[q].pipe = "ACTIVE" /\ HomeOf(s, q) = o /\ Link(s.sess[q])
       /\ s.sess[q].st \notin Early
  BY <1>1, ExclPipe
<1>13. u.sess = m.sess /\ u.ep = s.ep /\ u.events = s.events
  BY <1>4, <1>5, <1>8, <1>11 DEF ProcType
<1>14. u.sess[q] = r /\ \A y \in Session \ {q} : CalmSess(u.sess[y], s.sess[y])
  BY <1>9, <1>11, <1>13
<1>15. Link(r) /\ r.st \notin Early /\ r.ep = s.sess[q].ep
  BY <1>10, <1>11, <1>12 DEF Link, SameEnds, x
<1>16. /\ \A y \in Socket \ {o} : u.sock[y] = s.sock[y]
       /\ u.sock[o].excl.pipe = s.sock[o].excl.pipe /\ u.sock[o].excl.outpipe = s.sock[o].excl.outpipe
       /\ u.sock[o].st = s.sock[o].st /\ u.sock[o].flags = s.sock[o].flags
       /\ u.sock[o].efd = s.sock[o].efd /\ u.sock[o].eps = s.sock[o].eps
       /\ u.sock[o].excl.inpipe = IF r.in = "IDLE" THEN q ELSE None
  <2>1. CASE r.in = "IDLE"
    <3>1. u.sock = s.sock
      BY <1>4, <1>8, <1>9, <1>11, <2>1
    <3> QED
      BY <2>1, <3>1
  <2>2. CASE r.in # "IDLE"
    <3> DEFINE e == [s.sock[o].excl EXCEPT !.inpipe = None]
    <3>1. e.pipe = s.sock[o].excl.pipe /\ e.outpipe = s.sock[o].excl.outpipe /\ e.inpipe = None
      BY <1>1, ExclOf DEF ExclType
    <3>2. u = [m EXCEPT !.sock[o].excl = e]
      BY <1>4, <1>8, <1>9, <1>11, <2>2
    <3> HIDE DEF e
    <3>3. u.sock = [m.sock EXCEPT ![o].excl = e] /\ m.sock = s.sock
      BY <1>5, <1>8, <1>11, <3>2 DEF ProcType
    <3>4. /\ \A y \in Socket \ {o} : u.sock[y] = s.sock[y]
          /\ u.sock[o].excl = e /\ u.sock[o].st = s.sock[o].st /\ u.sock[o].flags = s.sock[o].flags
          /\ u.sock[o].efd = s.sock[o].efd /\ u.sock[o].eps = s.sock[o].eps
      BY <1>5, <3>3, SetExcl
    <3> QED
      BY <2>2, <3>1, <3>4
  <2> QED
    BY <2>1, <2>2
<1>17. Wired(u, o)
  <2>1. Wired(s, o)
    BY DEF Led, Wires
  <2>2. \A y, way : ~Signals(u, y, way) /\ ~Signals(s, y, way)
    BY <1>13 DEF Signals
  <2>3. q # None /\ r.pipe = "ACTIVE" /\ r.sending = s.sess[q].sending
        /\ (r.in = "IDLE" <=> r.queue # <<>>)
    BY <1>1, <1>10, <1>11, <1>12, Names DEF SameEnds, x
  <2> QED
    <3>1. /\ s.sock[o].st = "ACTIVE" => s.sock[o].flags = s.sock[o].efd
          /\ s.sock[o].excl.outpipe \in {None, q}
          /\ ~s.sess[q].sending <=> s.sock[o].excl.outpipe = q
      BY <1>12, <2>1, <2>2, <2>3 DEF Wired
    <3>2. u.ep[u.sess[q].ep].sock = o
      BY <1>12, <1>13, <1>14, <1>15 DEF HomeOf
    <3>3. u.sess[q].queue # <<>> <=> u.sock[o].excl.inpipe = q
      BY <1>14, <1>16, <2>3
    <3>4. u.sock[o].excl.pipe = q /\ u.sock[o].excl.inpipe \in {None, q}
      BY <1>12, <1>16
    <3> QED
      BY <1>14, <1>16, <2>2, <2>3, <3>1, <3>2, <3>3, <3>4 DEF Wired
<1>18. PipeChange(s, u, q, o)
  BY <1>13, <1>14, <1>15, <1>16, <1>17 DEF PipeChange
<1> QED
  BY <1>1, <1>11, <1>12, <1>18, PipeTurn

(* What sending on a session gives.                                         *)
LEMMA SinprocSendGives ==
  ASSUME NEW s, Good(s), NEW q \in Session
  PROVE  LET u == nn_sinproc_send(s, q) IN
         u.abort = "no" =>
           /\ s.abort = "no" /\ u.sock = s.sock /\ u.ep = s.ep /\ u.events = s.events
           /\ s.sess[q].st = "ACTIVE"
           /\ u.sess[q].st = s.sess[q].st /\ u.sess[q].ep = s.sess[q].ep
           /\ u.sess[q].pipe = s.sess[q].pipe /\ u.sess[q].in = s.sess[q].in
           /\ u.sess[q].queue = s.sess[q].queue /\ u.sess[q].sending
           /\ \A y \in Session \ {q} : u.sess[y] = s.sess[y]
<1> DEFINE a == s.sess[q]
           n == a.sent + 1
           peer == a.peer
           r == [a EXCEPT !.msg = <<n>>, !.sent = n, !.sending = TRUE]
           w == [s EXCEPT !.sess[q] = r]
           u == nn_sinproc_send(s, q)
<1>1. s \in ProcType /\ s.sess \in [Session -> SessType] /\ a \in SessType
  BY SessOf DEF Good, ProcType
<1>2. Bad(s).abort # "no"
  BY BadStep
<1> SUFFICES ASSUME u.abort = "no"
             PROVE  /\ s.abort = "no" /\ u.sock = s.sock /\ u.ep = s.ep /\ u.events = s.events
                    /\ a.st = "ACTIVE"
                    /\ u.sess[q].st = a.st /\ u.sess[q].ep = a.ep /\ u.sess[q].pipe = a.pipe
                    /\ u.sess[q].in = a.in /\ u.sess[q].queue = a.queue /\ u.sess[q].sending
                    /\ \A y \in Session \ {q} : u.sess[y] = s.sess[y]
  OBVIOUS
<1>3. a.st = "ACTIVE" /\ u = RaiseTo(w, <<peer, "sent">>, peer, "SENT", q)
  BY <1>2 DEF nn_sinproc_send
<1>4. /\ r \in SessType /\ r.st = a.st /\ r.ep = a.ep /\ r.pipe = a.pipe /\ r.in = a.in /\ r.queue = a.queue
      /\ r.sending = TRUE
  <2>1. n \in Nat /\ <<n>> \in Seq(Nat)
    BY <1>1 DEF SessType
  <2> HIDE DEF a, n
  <2> QED
    BY <1>1, <2>1 DEF SessType
<1> HIDE DEF r, u
<1>5. /\ w \in ProcType /\ w.abort = s.abort /\ w.sock = s.sock /\ w.ep = s.ep /\ w.events = s.events
      /\ w.sess = [s.sess EXCEPT ![q] = r]
  BY <1>1, <1>4 DEF ProcType
<1> HIDE DEF w
<1>6. w.sess[q] = r /\ \A y \in Session \ {q} : w.sess[y] = s.sess[y]
  BY <1>1, <1>5
<1>7. w.abort = "no" /\ u.sess = w.sess /\ u.sock = w.sock /\ u.ep = w.ep /\ u.events = w.events
  BY <1>3, <1>5, RaiseToGives
<1> QED
  BY <1>3, <1>4, <1>5, <1>6, <1>7, ZenonT(60)

(* nn_pair_send is a turn, when the context has no events: the pipe cannot  *)
(* be sent to until the message is taken.                                   *)
LEMMA ExclSendTurn ==
  ASSUME NEW s, Good(s), NEW o \in Socket, s.sock[o].excl.outpipe # None, s.events = <<>>
  PROVE  Turn(s, nn_excl_send(s, o), o)
<1> DEFINE q == s.sock[o].excl.outpipe
           e == [s.sock[o].excl EXCEPT !.outpipe = None]
           w == [s EXCEPT !.sock[o].excl = e]
           n == nn_sinproc_send(w, q)
           u == nn_excl_send(s, o)
           r == [n.sess[q] EXCEPT !.out = "ASYNC"]
<1> SUFFICES ASSUME u.abort = "no" PROVE s.abort = "no" /\ (Led(s, o) => Led(u, o) /\ Stays(s, u))
  BY DEF Turn
<1>1. q \in Session /\ s \in ProcType /\ s.sock \in [Socket -> SockType] /\ s.sock[o].excl \in ExclType
  BY ExclOf DEF Good, ProcType, ExclType, PipeName
<1>2. e \in ExclType /\ e.pipe = s.sock[o].excl.pipe /\ e.inpipe = s.sock[o].excl.inpipe /\ e.outpipe = None
  BY <1>1 DEF ExclType, PipeName
<1> HIDE DEF e
<1>3. Good(w)
  BY <1>2, ExclStep DEF Step
<1>4. /\ w.abort = s.abort /\ w.ep = s.ep /\ w.events = s.events /\ w.sess = s.sess
      /\ w.sock = [s.sock EXCEPT ![o].excl = e]
  BY <1>1 DEF ProcType
<1>5. u = IF w.sess[q].out # "IDLE" THEN Bad(w) ELSE [n EXCEPT !.sess[q].out = "ASYNC"]
  BY DEF nn_excl_send, nn_pipe_send, e
<1> HIDE DEF w, u, q
<1>6. u = [n EXCEPT !.sess[q].out = "ASYNC"]
  BY <1>3, <1>5, BadStep
<1>7. n \in ProcType /\ n.sess \in [Session -> SessType]
  BY <1>1, <1>3, SinprocSendStep DEF Step, Good, ProcType
<1>8. /\ u.abort = n.abort /\ u.sock = n.sock /\ u.ep = n.ep /\ u.events = n.events
      /\ u.sess = [n.sess EXCEPT ![q].out = "ASYNC"]
  BY <1>6, <1>7 DEF ProcType
<1>9. /\ w.abort = "no" /\ n.sock = w.sock /\ n.ep = w.ep /\ n.events = w.events
      /\ w.sess[q].st = "ACTIVE"
      /\ n.sess[q].st = w.sess[q].st /\ n.sess[q].ep = w.sess[q].ep
      /\ n.sess[q].pipe = w.sess[q].pipe /\ n.sess[q].in = w.sess[q].in
      /\ n.sess[q].queue = w.sess[q].queue /\ n.sess[q].sending
      /\ \A y \in Session \ {q} : n.sess[y] = w.sess[y]
  BY <1>1, <1>3, <1>8, SinprocSendGives
<1>10. u.sess[q] = r /\ \A y \in Session \ {q} : u.sess[y] = s.sess[y]
  BY <1>1, <1>4, <1>7, <1>8, <1>9
<1>11. r.st = "ACTIVE" /\ r.ep = s.sess[q].ep /\ r.pipe = s.sess[q].pipe /\ r.in = s.sess[q].in
       /\ r.queue = s.sess[q].queue /\ r.sending = TRUE /\ r.out = "ASYNC"
  BY <1>1, <1>4, <1>7, <1>9 DEF SessType
<1> HIDE DEF r, n
<1> SUFFICES ASSUME Led(s, o) PROVE Turn(s, u, o)
  BY <1>4, <1>9 DEF Turn
<1>12. /\ s.sock[o].excl.pipe = q /\ s.sess[q].pipe = "ACTIVE" /\ HomeOf(s, q) = o /\ Link(s.sess[q])
       /\ s.sess[q].st \notin Early
  BY <1>1, ExclPipe DEF q
<1>13. u.ep = s.ep /\ u.events = s.events /\ u.sock = [s.sock EXCEPT ![o].excl = e]
  BY <1>4, <1>8, <1>9
<1>14. /\ \A y \in Socket \ {o} : u.sock[y] = s.sock[y]
       /\ u.sock[o].excl = e /\ u.sock[o].st = s.sock[o].st /\ u.sock[o].flags = s.sock[o].flags
       /\ u.sock[o].efd = s.sock[o].efd /\ u.sock[o].eps = s.sock[o].eps
  BY <1>1, <1>13, SetExcl
<1>15. Link(r) /\ r.st \notin Early
  BY <1>11, <1>12 DEF Link, Early
<1>16. Wired(u, o)
  <2>1. Wired(s, o)
    BY DEF Led, Wires
  <2>2. \A y, way : ~Signals(u, y, way) /\ ~Signals(s, y, way)
    BY <1>13 DEF Signals
  <2>3. q # None
    BY <1>1, Names
  <2>4. /\ s.sock[o].st = "ACTIVE" => s.sock[o].flags = s.sock[o].efd
        /\ s.sock[o].excl.inpipe \in {None, q}
        /\ s.sess[q].queue # <<>> <=> s.sock[o].excl.inpipe = q
    BY <1>12, <2>1, <2>2, <2>3 DEF Wired
  <2>5. u.ep[u.sess[q].ep].sock = o
    BY <1>10, <1>11, <1>12, <1>13 DEF HomeOf
  <2> QED
    BY <1>2, <1>10, <1>11, <1>12, <1>14, <2>2, <2>3, <2>4, <2>5 DEF Wired
<1>17. \A y \in Session \ {q} : CalmSess(u.sess[y], s.sess[y])
  BY <1>10 DEF CalmSess, SamePipe
<1>18. PipeChange(s, u, q, o)
  BY <1>10, <1>11, <1>13, <1>14, <1>15, <1>16, <1>17 DEF PipeChange
<1>19. s.abort = "no" /\ o = HomeOf(s, q) /\ q \in Session
  BY <1>1, <1>4, <1>9, <1>12
<1> QED
  BY <1>18, <1>19, PipeTurn

(* A turn need only be one in a process that is well led.                   *)
LEMMA TurnThen ==
  ASSUME NEW s, NEW u, NEW w, NEW o, Turn(s, u, o), w.abort = "no" => u.abort = "no",
         s.abort = "no" /\ u.abort = "no" /\ Led(s, o) /\ Led(u, o) /\ Stays(s, u) => Turn(u, w, o)
  PROVE  Turn(s, w, o)
<1>1. CASE Led(s, o) /\ w.abort = "no"
  BY <1>1, TurnTwice DEF Turn
<1>2. CASE ~(Led(s, o) /\ w.abort = "no")
  BY <1>2 DEF Turn
<1> QED
  BY <1>1, <1>2

(* A turn need only be shown where the invariant holds.                    *)
LEMMA TurnIf ==
  ASSUME NEW s, NEW u, NEW o, u.abort = "no" => s.abort = "no",
         s.abort = "no" /\ Led(s, o) => Turn(s, u, o)
  PROVE  Turn(s, u, o)
BY DEF Turn

(* A session's socket stays its socket.                                     *)
LEMMA HomeKept ==
  ASSUME NEW s, Good(s), NEW q \in Session, s.sess[q].st # "NONE", NEW u, Stays(s, u)
  PROVE  HomeOf(u, q) = HomeOf(s, q) /\ u.sess[q].st # "NONE" /\ u.sess[q].ep = s.sess[q].ep
<1>1. s.sess[q].ep \in Endpoint
  BY SessOf DEF SessType
<1> QED
  BY <1>1 DEF Stays, HomeOf

(* A mark of the session that no efd depends on is a turn.                 *)
LEMMA SetReceivingTurn ==
  ASSUME NEW s, Good(s), NEW q \in Session, NEW o
  PROVE  Turn(s, [s EXCEPT !.sess[q].receiving = TRUE], o)
<1> DEFINE r == [s.sess[q] EXCEPT !.receiving = TRUE]
<1>1. s.sess[q] \in SessType
  BY SessOf
<1>2. r \in SessType /\ CalmSess(r, s.sess[q])
  BY <1>1 DEF SessType, CalmSess, SamePipe
<1> HIDE DEF r
<1>3. Turn(s, [s EXCEPT !.sess[q] = r], o)
  BY <1>2, SessTurn
<1> QED
  BY <1>3 DEF r

(* nn_sinproc_connect and nn_sinproc_accept are turns of any context.       *)
LEMMA SinprocConnectTurn ==
  ASSUME NEW s, Good(s), NEW q \in Session, s.sess[q].st = "IDLE", NEW to, NEW o
  PROVE  Turn(s, nn_sinproc_connect(s, q, to), o)
<1> DEFINE u == [s EXCEPT !.sess[q].st = "CONNECTING"]
<1>1. Good(u)
  BY SessStateStep DEF Step, SessState, Blank
<1>2. Turn(s, u, o)
  BY SessStateTurn DEF SessState, Early
<1>3. nn_sinproc_connect(s, q, to) = RaiseTo(u, <<q, "connect">>, to, "CONNECT", q)
  BY DEF nn_sinproc_connect
<1> HIDE DEF u
<1> QED
  BY <1>1, <1>2, <1>3, RaiseToTurn, TurnTwice

(* nn_sinproc_accept is a turn of any context.                             *)
LEMMA SinprocAcceptTurn ==
  ASSUME NEW s, Good(s), NEW q \in Session, NEW o
  PROVE  Turn(s, nn_sinproc_accept(s, q, Twin(q)), o)
<1> SUFFICES ASSUME s.sess[q].st = "IDLE"
             PROVE  Turn(s, nn_sinproc_accept(s, q, Twin(q)), o)
  BY BadTurn DEF nn_sinproc_accept
<1> DEFINE r == [s.sess[q] EXCEPT !.peer = Twin(q), !.st = "READY"]
           u == [s EXCEPT !.sess[q] = r]
<1>1. s.sess[q] \in SessType
  BY SessOf
<1>2. r \in SessType /\ r.peer = Twin(q) /\ r.st = "READY" /\ r.ep = s.sess[q].ep
  BY <1>1, Names DEF SessType, SessState, PipeName
<1>3. SameData(r, s.sess[q]) /\ SamePipe(r, s.sess[q])
  BY <1>1 DEF SessType, SameData, SamePipe
<1>4. PeerFits(r, q) /\ Continues(r, s.sess[q]) /\ CalmSess(r, s.sess[q])
  BY <1>2, <1>3 DEF PeerFits, Blank, Continues, CalmSess, Early
<1>5. nn_sinproc_accept(s, q, Twin(q))
      = IF s.sess[q].peer # None \/ s.sess[q].st # "IDLE" THEN Bad(s)
        ELSE RaiseTo(u, <<q, "connect">>, Twin(q), "READY", q)
  BY DEF nn_sinproc_accept
<1> HIDE DEF r
<1>6. Good(u) /\ Turn(s, u, o)
  BY <1>2, <1>4, SessStep, SessTurn DEF Step
<1> HIDE DEF u
<1>7. Turn(s, RaiseTo(u, <<q, "connect">>, Twin(q), "READY", q), o)
  BY <1>6, RaiseToTurn, TurnTwice
<1> QED
  BY <1>5, <1>7, BadTurn

(* The end of nn_sinproc_shutdown is a turn.                                *)
LEMMA StoppedIfDoneTurn ==
  ASSUME NEW s, Good(s), NEW q \in Session
  PROVE  Turn(s, StoppedIfDone(s, q), HomeOf(s, q))
<1> DEFINE o == HomeOf(s, q)
<1>0. Turn(s, Abort(s, "stops_before_its_events"), o) /\ Turn(s, s, o)
  BY AbortTurn, TurnNot DEF Why
<1> SUFFICES ASSUME s.sess[q].st = "STOPPING"
             PROVE  Turn(s, StoppedIfDone(s, q), o)
  BY <1>0 DEF StoppedIfDone
<1> DEFINE e == s.sess[q].ep
           u == [s EXCEPT !.sess[q].st = "STOPPED"]
           w == Raise(u, <<q, "stopped">>, <<"base", e>>, "STOPPED", q)
<1>1. e \in Endpoint
  BY SessOf DEF SessType
<1>2. StoppedIfDone(s, q) \in {s, Abort(s, "stops_before_its_events"), w}
  BY DEF StoppedIfDone
<1>3. Good(u) /\ Turn(s, u, o)
  BY SessStateStep, SessStateTurn DEF Step, SessState, Blank, Early
<1>4. u.ep = s.ep
  BY DEF Good, ProcType
<1> HIDE DEF u
<1>5. Turn(u, w, OwnHome(u, <<"base", e>>))
  BY <1>1, <1>3, StoppedEvent, RaiseTurn DEF Way
<1>6. OwnHome(u, <<"base", e>>) = o
  BY <1>4 DEF OwnHome, HomeOf
<1> HIDE DEF w, e, o
<1>7. Turn(s, w, o)
  BY <1>3, <1>5, <1>6, TurnTwice
<1> QED
  BY <1>0, <1>2, <1>7

(* A session that leaves its connection and tells its peer makes a turn.    *)
LEMMA DisconnectTurn ==
  ASSUME NEW s, Good(s), NEW q \in Session, ~Blank(s.sess[q]), s.sess[q].peer = Twin(q),
         NEW x \in {"DISCONNECTED", "STOPPING_PEER"}
  PROVE  Turn(s, RaiseTo([nn_pipebase_stop(s, q) EXCEPT !.sess[q].st = x],
                         <<Twin(q), "disconnect">>, Twin(q), "DISCONNECT", q), HomeOf(s, q))
<1> DEFINE u == nn_pipebase_stop(s, q)
           w == [u EXCEPT !.sess[q].st = x]
           o == HomeOf(s, q)
<1>1. Good(u) /\ ~Blank(u.sess[q]) /\ Turn(s, u, o)
  BY PipeStopStep, PipeStopSess, PipeStopTurn DEF Blank, Step
<1> HIDE DEF u, o
<1>2. Good(w) /\ Turn(u, w, o)
  BY <1>1, SessStateStep, SessStateTurn DEF SessState, Step, Early, Blank
<1> HIDE DEF w
<1>3. Turn(w, RaiseTo(w, <<Twin(q), "disconnect">>, Twin(q), "DISCONNECT", q), o)
  BY <1>2, RaiseToTurn
<1>4. Turn(s, RaiseTo(w, <<Twin(q), "disconnect">>, Twin(q), "DISCONNECT", q), o)
  BY <1>1, <1>2, <1>3, TurnTwice
<1> QED
  BY <1>4 DEF u, w, o

(* nn_sinproc_stop is a turn.                                               *)
LEMMA StoppingTurn ==
  ASSUME NEW s, Good(s), NEW q \in Session, s.sess[q].st \in {"DISCONNECTED", "STOPPING_PEER"}
  PROVE  Turn(s, StoppedIfDone([s EXCEPT !.sess[q].st = "STOPPING"], q), HomeOf(s, q))
<1> DEFINE w == [s EXCEPT !.sess[q].st = "STOPPING"]
           o == HomeOf(s, q)
<1>1. Good(w) /\ Turn(s, w, o)
  BY SessStateStep, SessStateTurn DEF Step, SessState, Blank, Early
<1>2. HomeOf(w, q) = o
  <2>1. s.sess[q] \in SessType /\ s.sess \in [Session -> SessType]
    BY DEF Good, ProcType
  <2>2. w.ep = s.ep /\ w.sess[q].ep = s.sess[q].ep
    BY <2>1 DEF Good, ProcType, SessType
  <2> QED
    BY <2>2 DEF HomeOf
<1> HIDE DEF w, o
<1>3. Turn(s, StoppedIfDone(w, q), o)
  BY <1>1, <1>2, StoppedIfDoneTurn, TurnTwice
<1> QED
  BY <1>3 DEF w, o

(* nn_sinproc_stop is a turn of its socket's context.                      *)
LEMMA SinprocStopTurn ==
  ASSUME NEW s, Good(s), NEW q \in Session
  PROVE  Turn(s, nn_sinproc_stop(s, q), HomeOf(s, q))
<1> DEFINE x == s.sess[q].peer
           o == HomeOf(s, q)
           silent == nn_pipebase_stop(s, q)
           d == RaiseTo([silent EXCEPT !.sess[q].st = "STOPPING_PEER"],
                        <<x, "disconnect">>, x, "DISCONNECT", q)
<1>1. PeerFits(s.sess[q], q)
  BY SessOf
<1>2. Turn(s, s, o) /\ Turn(s, Abort(s, "stops_without_peer"), o)
  BY AbortTurn, TurnNot DEF Why
<1>3. CASE s.sess[q].st = "DISCONNECTED"
  BY <1>3, StoppingTurn DEF nn_sinproc_stop
<1>4. CASE s.sess[q].st \in {"IDLE", "STOPPING_PEER", "STOPPING", "STOPPED"}
  BY <1>2, <1>4 DEF nn_sinproc_stop
<1>5. CASE s.sess[q].st \notin {"IDLE", "STOPPING_PEER", "STOPPING", "STOPPED", "DISCONNECTED"}
  <2>1. nn_sinproc_stop(s, q) = IF x = None THEN Abort(s, "stops_without_peer") ELSE d
    BY <1>5 DEF nn_sinproc_stop
  <2>2. ASSUME x # None PROVE Turn(s, d, o)
    <3>1. x = Twin(q) /\ ~Blank(s.sess[q])
      BY <1>1, <2>2 DEF PeerFits
    <3> QED
      BY <3>1, DisconnectTurn
  <2> HIDE DEF x, d, o
  <2> QED
    BY <1>2, <2>1, <2>2 DEF o
<1> QED
  BY <1>3, <1>4, <1>5

(* What a stopping session is told is handled in a turn.                   *)
LEMMA SinprocShutdownTurn ==
  ASSUME NEW s, Good(s), NEW q \in Session, NEW told
  PROVE  Turn(s, nn_sinproc_shutdown(s, q, told), HomeOf(s, q))
<1> DEFINE o == HomeOf(s, q)
<1>1. Turn(s, Abort(s, "sent_to_stopping"), o) /\ Turn(s, Bad(s), o) /\ Turn(s, StoppedIfDone(s, q), o)
  BY AbortTurn, BadTurn, StoppedIfDoneTurn DEF Why
<1>3. CASE told = "RECEIVED"
  BY <1>1, <1>3 DEF nn_sinproc_shutdown
<1>4. CASE told = "DISCONNECT" /\ s.sess[q].st = "STOPPING_PEER"
  BY <1>4, StoppingTurn DEF nn_sinproc_shutdown
<1>5. CASE told = "SENT" /\ s.sess[q].st = "STOPPING_PEER"
  BY <1>1, <1>5 DEF nn_sinproc_shutdown
<1>6. CASE told # "RECEIVED" /\ ~(told \in {"DISCONNECT", "SENT"} /\ s.sess[q].st = "STOPPING_PEER")
  BY <1>1, <1>6 DEF nn_sinproc_shutdown
<1> QED
  BY <1>3, <1>4, <1>5, <1>6

(* The state ACTIVE of nn_sinproc_handler                                   *)
LEMMA ActiveSessionTurn ==
  ASSUME NEW s, Good(s), NEW q \in Session, s.sess[q].st = "ACTIVE",
         NEW v, v.to = q, v.slot = SlotOf(v), Handed(s, v), NEW told, told = v.type
  PROVE  Turn(s, ActiveSession(s, q, told), HomeOf(s, q))
<1> DEFINE o == HomeOf(s, q)
<1>0. s.sess[q].peer = Twin(q) /\ ~Blank(s.sess[q])
  BY SessOf DEF PeerFits, Blank
<1>1. Turn(s, Bad(s), o)
  BY BadTurn
<1>2. CASE told = "SENT" /\ Full(s.sess[q].queue)
  BY <1>2, SetReceivingTurn DEF ActiveSession
<1>3. CASE told = "SENT" /\ ~Full(s.sess[q].queue)
  <2>0. FetchDue(s, q)
    BY <1>3 DEF FetchDue, Handed, EvFits, SlotOf
  <2>1. Turn(s, Fetch(nn_pipebase_received(s, q), q), o)
    BY <2>0, ReceivedTurn
  <2>2. s.sess[q].queue # <<>> => Turn(s, Fetch(s, q), o)
    BY <1>0, FetchTurn
  <2>3. ActiveSession(s, q, told)
        = IF s.sess[q].queue = <<>> THEN Fetch(nn_pipebase_received(s, q), q) ELSE Fetch(s, q)
    BY <1>3 DEF ActiveSession
  <2> HIDE DEF o
  <2> QED
    BY <2>1, <2>2, <2>3 DEF o
<1>4. CASE told = "RECEIVED" /\ s.sess[q].sending
  <2>1. ActiveSession(s, q, told) = [nn_pipebase_sent(s, q) EXCEPT !.sess[q].sending = FALSE]
    BY <1>4 DEF ActiveSession
  <2> QED
    BY <2>1, SentTurn
<1>5. CASE told = "DISCONNECT"
  <2>1. ActiveSession(s, q, told)
        = RaiseTo([nn_pipebase_stop(s, q) EXCEPT !.sess[q].st = "DISCONNECTED"],
                  <<Twin(q), "disconnect">>, Twin(q), "DISCONNECT", q)
    BY <1>5, <1>0 DEF ActiveSession
  <2> QED
    BY <1>0, <2>1, DisconnectTurn
<1>6. CASE told \notin {"SENT", "RECEIVED", "DISCONNECT"} \/ (told = "RECEIVED" /\ ~s.sess[q].sending)
  <2>1. ActiveSession(s, q, told) = Bad(s)
    BY <1>6 DEF ActiveSession
  <2> QED
    BY <1>1, <2>1
<1> QED
  BY <1>2, <1>3, <1>4, <1>5, <1>6

(* nn_sinproc_handler is a turn of the session's socket.                    *)
LEMMA SinprocHandlerTurn ==
  ASSUME NEW s, Good(s), NEW q \in Session, NEW v \in SessEvent, v.to = q, Handed(s, v)
  PROVE  Turn(s, nn_sinproc_handler(s, q, v), HomeOf(s, q))
<1> DEFINE at == s.sess[q].st
           told == v.type
           o == HomeOf(s, q)
<1>0. v.from = Twin(q) /\ v.slot = SlotOf(v)
  BY DEF SessEvent, EventOf
<1>1. /\ Turn(s, Bad(s), o) /\ Turn(s, s, o) /\ Turn(s, Abort(s, "sent_before_accepted"), o)
  BY BadTurn, AbortTurn, TurnNot DEF Why
<1>2. CASE at \in {"STOPPING_PEER", "STOPPING"}
  <2>1. nn_sinproc_handler(s, q, v) = nn_sinproc_shutdown(s, q, told)
    BY <1>2 DEF nn_sinproc_handler
  <2> QED
    BY <2>1, SinprocShutdownTurn
<1>3. CASE at = "ACTIVE"
  <2>1. nn_sinproc_handler(s, q, v) = ActiveSession(s, q, told)
    BY <1>3 DEF nn_sinproc_handler
  <2> QED
    BY <1>0, <1>3, <2>1, ActiveSessionTurn
<1>4. CASE at = "CONNECTING" /\ told = "READY"
  <2> DEFINE r == [s.sess[q] EXCEPT !.peer = v.from]
             s1 == [s EXCEPT !.sess[q] = r]
             u == [nn_pipebase_start(s1, q) EXCEPT !.sess[q].st = "ACTIVE"]
             w == RaiseTo(u, <<q, "connect">>, Twin(q), "ACCEPTED", q)
  <2>1. s.sess[q] \in SessType
    BY SessOf
  <2>2. r \in SessType /\ r.st = s.sess[q].st /\ r.peer = Twin(q) /\ r.ep = s.sess[q].ep
    BY <2>1, <1>0, Names, ZenonT(30) DEF SessType
  <2>9. SameData(r, s.sess[q]) /\ SamePipe(r, s.sess[q])
    BY <2>1 DEF SessType, SameData, SamePipe
  <2>3. PeerFits(r, q) /\ ~Blank(r) /\ Continues(r, s.sess[q]) /\ CalmSess(r, s.sess[q])
    BY <2>2, <2>9, <1>4 DEF PeerFits, Blank, Continues, CalmSess
  <2>4. nn_sinproc_handler(s, q, v) = w
    BY <1>4, <1>0 DEF nn_sinproc_handler
  <2>5. s1.sess[q] = r /\ s1.ep = s.ep
    BY DEF Good, ProcType
  <2> HIDE DEF r
  <2>6. Good(s1) /\ Turn(s, s1, o)
    BY <2>2, <2>3, SessStep, SessTurn DEF Step
  <2>10. HomeOf(s1, q) = o
    BY <2>2, <2>5 DEF HomeOf
  <2> HIDE DEF s1, o
  <2>7. Good(u) /\ Turn(s1, u, o)
    BY <1>4, <2>2, <2>3, <2>5, <2>6, <2>10, ToActiveStep, StartTurn DEF Step
  <2> HIDE DEF u
  <2>8. Turn(u, w, o)
    BY <2>7, RaiseToTurn
  <2> QED
    BY <2>4, <2>6, <2>7, <2>8, TurnTwice DEF o
<1>5. CASE at = "READY" /\ told \in {"READY", "ACCEPTED"}
  <2>1. nn_sinproc_handler(s, q, v) = [nn_pipebase_start(s, q) EXCEPT !.sess[q].st = "ACTIVE"]
    BY <1>5 DEF nn_sinproc_handler
  <2> QED
    BY <1>5, <2>1, StartTurn
<1>6. CASE at = "READY" /\ told = "SENT"
  BY <1>6, <1>1 DEF nn_sinproc_handler
<1>7. CASE at = "DISCONNECTED" /\ told = "RECEIVED"
  BY <1>7, <1>1 DEF nn_sinproc_handler
<1>8. CASE /\ at \notin {"STOPPING_PEER", "STOPPING", "ACTIVE"}
           /\ ~(at = "CONNECTING" /\ told = "READY")
           /\ ~(at = "READY" /\ told \in {"READY", "ACCEPTED", "SENT"})
           /\ ~(at = "DISCONNECTED" /\ told = "RECEIVED")
  <2>1. nn_sinproc_handler(s, q, v) = Bad(s)
    BY <1>8 DEF nn_sinproc_handler
  <2> QED
    BY <1>1, <2>1
<1> QED
  BY <1>2, <1>3, <1>4, <1>5, <1>6, <1>7, <1>8
=============================================================================
