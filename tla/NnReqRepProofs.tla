--------------------------- MODULE NnReqRepProofs ---------------------------
(***************************************************************************)
(* For any number of clients, connections, endpoints, requests and faults: *)
(* the state machine of nanomsg's REQ sockets takes no event it does not   *)
(* expect, replies travel to the clients that asked, and the sockets       *)
(* implement AtLeastOnce.                                                  *)
(***************************************************************************)
EXTENDS NnReqRepProperties, QueueLemmas

(* The struct nn_req of a socket with the pipes P.                          *)
Record == [state : ReqStates, id : Nat, reply : Nat,
           sent_to : {NoPipe} \cup Conn, timer : {"idle", "active", "stopping"}]

Good(r, P) ==
  /\ r \in Record /\ r.state # "bad" /\ r.reply <= r.id
  /\ r.id = 0 => r.state \in {"PASSIVE", "STOPPING", "IDLE"}
  /\ r.state = "ACTIVE" <=> r.timer = "active"
  /\ IF r.state = "ACTIVE" THEN r.sent_to \in P ELSE r.sent_to = NoPipe
  /\ r.state \in {"TIMED_OUT", "CANCELLING", "STOPPING_TIMER", "STOPPING"}
       <=> r.timer = "stopping"

ReqInv ==
  /\ req \in [Client -> Record]
  /\ \A c \in Client : Good(req[c], Conns(c)) /\ req[c].id <= MaxRequests[c]

(* Types of the rest.                                                       *)
Pipe == [client : Client \cup {NoClient}, atReq : BOOLEAN, atRep : BOOLEAN,
         out : BOOLEAN, up : Seq(Message), down : Seq(Message)]

NetTypes ==
  /\ conn \in [Conn -> Pipe]
  /\ faults \in 0 .. MaxFaults
  /\ lb \in [Client -> Seq(Conn)]
  /\ fq \in Seq(Conn)
  /\ serving = None \/ serving \in Conn \X Message
  /\ ran \subseteq Message

(* A pipe in the load balancer is there and has room, and is there once; so *)
(* is a pipe in the fair queue, which has a request.                        *)
QueuesOk ==
  /\ \A c \in Client :
       /\ Distinct(lb[c])
       /\ \A k \in Queued(lb[c]) : k \in Conns(c) /\ Len(conn[k].up) < MaxFlight
  /\ Distinct(fq) /\ \A k \in Queued(fq) : conn[k].up # <<>>
  /\ \A k \in Conn :
       /\ Len(conn[k].up) <= MaxFlight /\ Len(conn[k].down) <= MaxFlight
       /\ conn[k].out => Len(conn[k].down) < MaxFlight

(* Message m may be under way on a connection of client c.                  *)
Asked(c, m) == m[1] = c /\ m[2] <= req[c].id

MessagesOk ==
  /\ \A k \in Conn :
       /\ \A m \in Queued(conn[k].up) : Asked(conn[k].client, m)
       /\ \A m \in Queued(conn[k].down) : Asked(conn[k].client, m) /\ m \in ran
  /\ \A m \in ran : Asked(m[1], m)
  /\ serving # None => Asked(conn[serving[1]].client, serving[2]) /\ serving[2] \in ran

NnInv == ReqInv /\ NetTypes /\ QueuesOk /\ MessagesOk

-----------------------------------------------------------------------------
(* Sequences of pipes and of messages                                       *)

LEMMA AppendItems ==
  ASSUME NEW T, NEW q \in Seq(T), NEW x \in T
  PROVE  /\ Append(q, x) \in Seq(T) /\ Len(Append(q, x)) = Len(q) + 1
         /\ Queued(Append(q, x)) = Queued(q) \cup {x}
         /\ Distinct(q) /\ x \notin Queued(q) => Distinct(Append(q, x))
BY PushBackProperties, AppendProperties DEF PushBack

LEMMA TailItems ==
  ASSUME NEW T, NEW q \in Seq(T), q # <<>>
  PROVE  /\ Head(q) \in T /\ Head(q) \in Queued(q)
         /\ Tail(q) \in Seq(T) /\ Len(Tail(q)) = Len(q) - 1
         /\ Queued(Tail(q)) \subseteq Queued(q)
         /\ Distinct(q) => Distinct(Tail(q)) /\ Head(q) \notin Queued(Tail(q))
<1>1. /\ Len(q) \in Nat /\ Len(q) # 0 /\ DOMAIN q = 1 .. Len(q)
      /\ Head(q) = q[1] /\ q[1] \in T
  BY EmptySeq, ElementOfSeq, LenProperties
<1>2. /\ Tail(q) \in Seq(T) /\ Len(Tail(q)) = Len(q) - 1
      /\ \A i \in 1 .. Len(Tail(q)) : Tail(q)[i] = q[i + 1]
  BY <1>1, HeadTailProperties
<1>3. DOMAIN Tail(q) = 1 .. Len(q) - 1
  BY <1>2, LenProperties
<1>4. \A i \in DOMAIN Tail(q) : i + 1 \in DOMAIN q /\ Tail(q)[i] = q[i + 1] /\ i + 1 # 1
  BY <1>1, <1>2, <1>3
<1>5. Queued(Tail(q)) \subseteq Queued(q)
  BY <1>4 DEF Queued
<1>6. 1 \in DOMAIN q /\ Head(q) \in Queued(q)
  BY <1>1 DEF Queued
<1>7. ASSUME Distinct(q) PROVE Distinct(Tail(q)) /\ Head(q) \notin Queued(Tail(q))
  <2>1. ASSUME NEW i \in DOMAIN Tail(q), NEW j \in DOMAIN Tail(q),
               Tail(q)[i] = Tail(q)[j]
        PROVE  i = j
    <3>1. i + 1 = j + 1
      BY <1>4, <1>7, <2>1 DEF Distinct
    <3> QED BY <1>1, <1>3, <3>1
  <2>2. \A i \in DOMAIN Tail(q) : Tail(q)[i] # q[1]
    BY <1>4, <1>6, <1>7 DEF Distinct
  <2> QED BY <1>1, <2>1, <2>2 DEF Distinct, Queued
<1> QED BY <1>1, <1>2, <1>5, <1>6, <1>7

LEMMA WithoutItems ==
  ASSUME NEW T, NEW q \in Seq(T), NEW x
  PROVE  /\ Without(q, x) \in Seq(T)
         /\ Queued(Without(q, x)) = Queued(q) \ {x}
         /\ Distinct(q) => Distinct(Without(q, x))
<1>1. {i \in DOMAIN q : q[i] # x} \in SUBSET DOMAIN q
  OBVIOUS
<1>2. {q[i] : i \in {j \in DOMAIN q : q[j] # x}} = Queued(q) \ {x}
  BY DEF Queued
<1> QED BY <1>1, <1>2, KeepProperties DEF Without

LEMMA NoItems == Queued(<<>>) = {} /\ Distinct(<<>>) /\ Len(<<>>) = 0
BY DEF Queued, Distinct

(* The streams of a pipe. *)
LEMMA PipeFields ==
  ASSUME NetTypes, NEW k \in Conn
  PROVE  /\ conn[k] \in Pipe
         /\ conn[k].up \in Seq(Message) /\ conn[k].down \in Seq(Message)
         /\ Len(conn[k].up) \in Nat /\ Len(conn[k].down) \in Nat
BY LenProperties DEF NetTypes, Pipe

LEMMA FairPipes == ASSUME NetTypes PROVE \A k \in Queued(fq) : k \in Conn
BY ElementOfSeq, LenProperties DEF NetTypes, Queued

LEMMA UnderWay ==
  ASSUME NetTypes
  PROVE  \A k \in Conn : Queued(conn[k].up) \cup Queued(conn[k].down) \subseteq Message
BY ElementOfSeq, LenProperties DEF NetTypes, Pipe, Queued

(* Pipe k becomes p. *)
LEMMA PipeSet ==
  ASSUME NetTypes, NEW k \in Conn, NEW p \in Pipe, conn' = [conn EXCEPT ![k] = p]
  PROVE  /\ conn' \in [Conn -> Pipe] /\ conn'[k] = p
         /\ \A j \in Conn \ {k} : conn'[j] = conn[j]
BY DEF NetTypes

-----------------------------------------------------------------------------
(* The transitions of one nn_req                                            *)

LEMMA StopGood ==
  ASSUME NEW r, NEW P, NEW Q, Good(r, P), r.state = "ACTIVE",
         NEW s \in {"TIMED_OUT", "CANCELLING", "STOPPING_TIMER"}
  PROVE  /\ Good(Become(StopTimer(r), s), Q)
         /\ Become(StopTimer(r), s).id = r.id
         /\ Become(StopTimer(r), s).reply = r.reply
         /\ Become(StopTimer(r), s).state = s
BY DEF Good, Record, Become, StopTimer, nn_timer_stop, ReqStates, NoPipe

LEMMA SentGood ==
  ASSUME NEW r \in Record, NEW P, NEW to \in Conn, to \in P,
         r.timer = "idle", r.reply <= r.id, r.id # 0
  PROVE  /\ Good(Sent(r, to), P)
         /\ Sent(r, to).id = r.id /\ Sent(r, to).reply = r.reply
         /\ Sent(r, to).state = "ACTIVE"
BY DEF Good, Record, Become, Sent, ReqStates, NoPipe

(* States in which neither a timer nor a pipe is in use. *)
LEMMA RestGood ==
  ASSUME NEW r \in Record, NEW P, r.timer = "idle", r.sent_to = NoPipe,
         r.reply <= r.id, NEW s \in {"PASSIVE", "DELAYED", "DONE", "IDLE"},
         r.id = 0 => s \in {"PASSIVE", "IDLE"}
  PROVE  /\ Good(Become(r, s), P)
         /\ Become(r, s).id = r.id /\ Become(r, s).reply = r.reply
         /\ Become(r, s).state = s
BY DEF Good, Record, Become, ReqStates, NoPipe

(* States that wait for the timer to stop. *)
LEMMA StoppingGood ==
  ASSUME NEW r \in Record, NEW P, r.timer = "stopping", r.sent_to = NoPipe,
         r.reply <= r.id,
         NEW s \in {"TIMED_OUT", "CANCELLING", "STOPPING_TIMER", "STOPPING"},
         r.id = 0 => s = "STOPPING"
  PROVE  /\ Good(Become(r, s), P)
         /\ Become(r, s).id = r.id /\ Become(r, s).reply = r.reply
         /\ Become(r, s).state = s
BY DEF Good, Record, Become, ReqStates, NoPipe

-----------------------------------------------------------------------------
(* What the actions of a REQ socket do                                      *)

Waiting  == {"DELAYED", "ACTIVE", "TIMED_OUT", "CANCELLING"}
Answered == {"DONE", "STOPPING_TIMER"}
Closed   == {"STOPPING", "IDLE"}

SamePhase(s, t) ==
  /\ s = "PASSIVE" <=> t = "PASSIVE"
  /\ s \in Answered <=> t \in Answered
  /\ s \in Closed <=> t \in Closed

(* The record r may follow the record of c, in the terms of AtLeastOnce.    *)
Legal(c, r) ==
  \/ r.id = req[c].id + 1 /\ r.state \in Waiting /\ req[c].state \notin Closed
  \/ /\ r.id = req[c].id
     /\ \/ SamePhase(req[c].state, r.state)
        \/ req[c].state \in Answered /\ r.state = "PASSIVE"
        \/ req[c].state \notin Closed /\ r.state \in Closed
        \/ req[c].state \in Waiting /\ r.state \in Answered /\ <<c, r.id>> \in ran

(* Only the record of c changes, to one that fits the pipes P.              *)
Moves(c, P) ==
  \E r \in Record :
    /\ req' = [req EXCEPT ![c] = r]
    /\ Good(r, P) /\ r.id <= MaxRequests[c] /\ Legal(c, r)

(* Message m is sent on pipe k, which the load balancer then does not hold. *)
Sends(c, k, m) ==
  /\ k \in Conns(c) /\ Len(conn[k].up) < MaxFlight
  /\ conn' = SentUp(k, m)
  /\ \/ lb[c] # <<>> /\ k = Head(lb[c]) /\ lb' = [lb EXCEPT ![c] = Tail(@)]
     \/ k \notin Queued(lb[c]) /\ lb' = lb

MaySend(c) ==
  \/ UNCHANGED <<conn, lb>>
  \/ \E k \in Conn : Sends(c, k, <<c, req'[c].id>>) /\ req'[c].id # 0

LEMMA ActionSendMoves ==
  ASSUME NnInv, NEW c \in Client, NEW r \in Record,
         r.timer = "idle", r.sent_to = NoPipe, r.reply <= r.id, r.id # 0,
         r.id <= MaxRequests[c], ActionSend(c, r, TRUE),
         \A s \in {"DELAYED", "ACTIVE"} : Legal(c, Become(r, s))
  PROVE  Moves(c, Conns(c)) /\ MaySend(c)
<1>1. \A t \in Record : t.id = r.id /\ t.state \in {"DELAYED", "ACTIVE"} => Legal(c, t)
  <2>1. \A s \in {"DELAYED", "ACTIVE"} :
          Become(r, s).id = r.id /\ Become(r, s).state = s
    BY DEF Become, Record
  <2> QED BY <2>1 DEF Legal
<1>2. CASE /\ req' = [req EXCEPT ![c] = Become(r, "DELAYED")]
           /\ UNCHANGED <<conn, lb>>
  <2>1. Good(Become(r, "DELAYED"), Conns(c)) /\ Become(r, "DELAYED").id = r.id
    BY RestGood
  <2> QED BY <1>2, <2>1 DEF Moves, MaySend, Good
<1>3. ASSUME lb[c] # <<>>, conn' = SentUp(Head(lb[c]), <<c, r.id>>),
             req' = [req EXCEPT ![c] = Sent(r, Head(lb[c]))],
             lb' = [lb EXCEPT ![c] = Tail(@)]
      PROVE  Moves(c, Conns(c)) /\ MaySend(c)
  <2> DEFINE to == Head(lb[c])
  <2>1. to \in Conn /\ to \in Conns(c) /\ Len(conn[to].up) < MaxFlight
    BY <1>3, TailItems DEF NnInv, NetTypes, QueuesOk
  <2>2. /\ Good(Sent(r, to), Conns(c)) /\ Sent(r, to).id = r.id
        /\ Sent(r, to).state = "ACTIVE"
    BY <2>1, SentGood
  <2>3. Sent(r, to) \in Record /\ req'[c] = Sent(r, to)
    BY <1>3, <2>2 DEF Good, NnInv, ReqInv
  <2> HIDE DEF to
  <2>4. Moves(c, Conns(c))
    BY <1>1, <1>3, <2>2, <2>3 DEF Moves, to
  <2>5. Sends(c, to, <<c, req'[c].id>>)
    BY <1>3, <2>1, <2>2, <2>3 DEF Sends, to
  <2> QED BY <2>1, <2>2, <2>3, <2>4, <2>5 DEF MaySend
<1> QED BY <1>2, <1>3 DEF ActionSend

LEMMA UserMoves ==
  ASSUME NnInv, NEW c \in Client,
         nn_req_csend(c) \/ nn_req_crecv(c) \/ nn_req_stop(c)
  PROVE  Moves(c, Conns(c)) /\ MaySend(c) /\ faults' = faults
<1>1. /\ req[c] \in Record /\ Good(req[c], Conns(c)) /\ MaxRequests[c] \in Nat
      /\ req[c].id <= MaxRequests[c]
  BY PipeBounds DEF NnInv, ReqInv
<1>2. ASSUME nn_req_csend(c) PROVE Moves(c, Conns(c)) /\ MaySend(c)
  <2> DEFINE r == [req[c] EXCEPT !.id = @ + 1]
  <2>1. /\ req[c].state \notin Closed /\ req[c].id < MaxRequests[c]
        /\ ActionSent(c, r)
    BY <1>2 DEF nn_req_csend, Is, Closed
  <2>2. /\ r \in Record /\ r.id = req[c].id + 1 /\ r.id # 0 /\ r.id <= MaxRequests[c]
        /\ r.state = req[c].state /\ r.timer = req[c].timer
        /\ r.sent_to = req[c].sent_to /\ r.reply = req[c].reply /\ r.reply <= r.id
    BY <1>1, <2>1 DEF Record, Good
  <2>3. \A t \in Record : t.id = r.id /\ t.state \in Waiting => Legal(c, t)
    BY <2>1, <2>2 DEF Legal
  <2>4. Good(r, Conns(c)) \/ r.state \in {"PASSIVE", "STOPPING", "IDLE"}
    BY <1>1, <2>2 DEF Good
  <2> HIDE DEF r
  <2>5. CASE r.state \in {"PASSIVE", "DONE"}
    <3>1. ActionSend(c, r, TRUE) /\ r.timer = "idle" /\ r.sent_to = NoPipe
      BY <1>1, <2>1, <2>2, <2>5 DEF ActionSent, Good, Record
    <3>2. \A s \in {"DELAYED", "ACTIVE"} : Legal(c, Become(r, s))
      <4>1. \A s \in {"DELAYED", "ACTIVE"} :
              /\ Become(r, s) \in Record
              /\ Become(r, s).id = r.id /\ Become(r, s).state \in Waiting
        BY <2>2 DEF Become, Record, ReqStates, Waiting
      <4> QED BY <2>3, <4>1
    <3> QED BY <2>2, <3>1, <3>2, ActionSendMoves
  <2>6. CASE /\ r.state \in {"DELAYED", "CANCELLING"}
             /\ req' = [req EXCEPT ![c] = r] /\ UNCHANGED <<conn, lb>>
    BY <2>2, <2>3, <2>4, <2>6 DEF Moves, MaySend, Waiting
  <2>7. CASE /\ r.state = "ACTIVE"
             /\ req' = [req EXCEPT ![c] = Become(StopTimer(r), "CANCELLING")]
             /\ UNCHANGED <<conn, lb>>
    <3>1. /\ Good(Become(StopTimer(r), "CANCELLING"), Conns(c))
          /\ Become(StopTimer(r), "CANCELLING").id = r.id
          /\ Become(StopTimer(r), "CANCELLING").state = "CANCELLING"
      BY <2>4, <2>7, StopGood
    <3> QED BY <2>2, <2>3, <2>7, <3>1 DEF Moves, MaySend, Waiting, Good
  <2>8. CASE /\ r.state \in {"TIMED_OUT", "STOPPING_TIMER"}
             /\ req' = [req EXCEPT ![c] = Become(r, "CANCELLING")]
             /\ UNCHANGED <<conn, lb>>
    <3>1. r.timer = "stopping" /\ r.sent_to = NoPipe
      BY <1>1, <2>2, <2>8 DEF Good
    <3>2. /\ Good(Become(r, "CANCELLING"), Conns(c))
          /\ Become(r, "CANCELLING").id = r.id
          /\ Become(r, "CANCELLING").state = "CANCELLING"
      BY <2>2, <3>1, StoppingGood
    <3> QED BY <2>2, <2>3, <2>8, <3>2 DEF Moves, MaySend, Waiting, Good
  <2> QED BY <2>1, <2>5, <2>6, <2>7, <2>8 DEF ActionSent
<1>3. ASSUME nn_req_crecv(c) PROVE Moves(c, Conns(c)) /\ MaySend(c)
  <2> DEFINE r == [req[c] EXCEPT !.reply = NoReply, !.state = "PASSIVE"]
  <2>1. req[c].state = "DONE" /\ req' = [req EXCEPT ![c] = r] /\ UNCHANGED <<conn, lb>>
    BY <1>1, <1>3 DEF nn_req_crecv, Is, NnInv, ReqInv
  <2>2. Good(r, Conns(c)) /\ r.id = req[c].id /\ r.state = "PASSIVE" /\ r \in Record
    <3>1. /\ req[c].timer = "idle" /\ req[c].sent_to = NoPipe
      BY <1>1, <2>1 DEF Good, Record
    <3>2. /\ r \in Record /\ r.id = req[c].id /\ r.state = "PASSIVE"
          /\ r.reply = 0 /\ r.timer = "idle" /\ r.sent_to = NoPipe
      BY <1>1, <3>1 DEF Record, ReqStates, NoReply
    <3> HIDE DEF r
    <3>3. r.reply <= r.id
      <4>1. r.id \in Nat
        BY <3>2 DEF Record
      <4> QED BY <3>2, <4>1
    <3> QED BY <3>2, <3>3 DEF Good
  <2> HIDE DEF r
  <2>3. Legal(c, r)
    BY <2>1, <2>2 DEF Legal, Answered
  <2> QED BY <1>1, <2>1, <2>2, <2>3 DEF Moves, MaySend
<1>4. ASSUME nn_req_stop(c) PROVE Moves(c, Conns(c)) /\ MaySend(c)
  <2> DEFINE r == Become(nn_timer_stop(req[c]),
                         IF req[c].timer = "idle" THEN "IDLE" ELSE "STOPPING")
  <2>1. /\ req[c].state \notin Closed /\ Conns(c) = {}
        /\ req' = [req EXCEPT ![c] = r] /\ UNCHANGED <<conn, lb>>
    BY <1>4 DEF nn_req_stop, Is, Closed
  <2>2. /\ req[c].state # "ACTIVE" /\ req[c].timer \in {"idle", "stopping"}
        /\ nn_timer_stop(req[c]) = req[c]
    BY <1>1, <2>1 DEF Good, Record, nn_timer_stop
  <2>3. Good(r, Conns(c)) /\ r.id = req[c].id /\ r.state \in Closed /\ r \in Record
    <3>1. CASE req[c].timer = "idle"
      BY <1>1, <2>2, <3>1, RestGood DEF Good, Closed
    <3>2. CASE req[c].timer = "stopping"
      BY <1>1, <2>2, <3>2, StoppingGood DEF Good, Closed
    <3> QED BY <2>2, <3>1, <3>2
  <2> HIDE DEF r
  <2>4. Legal(c, r)
    BY <2>1, <2>3 DEF Legal
  <2> QED BY <1>1, <2>1, <2>3, <2>4 DEF Moves, MaySend
<1>5. faults' = faults
  BY DEF nn_req_csend, nn_req_crecv, nn_req_stop
<1> QED BY <1>2, <1>3, <1>4, <1>5

LEMMA WorkerMoves ==
  ASSUME NnInv, NEW c \in Client, Timeout(c, Quiet(c)) \/ TimerStopped(c)
  PROVE  Moves(c, Conns(c)) /\ MaySend(c) /\ faults' \in 0 .. MaxFaults
<1>1. /\ req[c] \in Record /\ Good(req[c], Conns(c)) /\ MaxRequests[c] \in Nat
      /\ req[c].id <= MaxRequests[c] /\ faults \in 0 .. MaxFaults /\ MaxFaults \in Nat
  BY PipeBounds DEF NnInv, ReqInv, NetTypes
<1>2. ASSUME Timeout(c, Quiet(c)) PROVE Moves(c, Conns(c)) /\ MaySend(c)
  <2> DEFINE r == Become(StopTimer(req[c]), "TIMED_OUT")
  <2>1. /\ req[c].state = "ACTIVE" /\ UNCHANGED <<conn, lb>>
        /\ req' = [req EXCEPT ![c] = r]
    BY <1>2 DEF Timeout, Is
  <2>2. Good(r, Conns(c)) /\ r.id = req[c].id /\ r.state = "TIMED_OUT"
    BY <1>1, <2>1, StopGood
  <2> HIDE DEF r
  <2>3. Legal(c, r)
    BY <2>1, <2>2 DEF Legal, SamePhase, Answered, Closed
  <2> QED BY <1>1, <2>1, <2>2, <2>3 DEF Moves, MaySend, Good
<1>3. ASSUME TimerStopped(c) PROVE Moves(c, Conns(c)) /\ MaySend(c)
  <2> DEFINE r == [req[c] EXCEPT !.timer = "idle"]
  <2>1. req[c].timer = "stopping"
    BY <1>3 DEF TimerStopped
  <2>2. req[c].state \in {"TIMED_OUT", "CANCELLING", "STOPPING_TIMER", "STOPPING"}
    BY <1>1, <2>1 DEF Good
  <2>3. /\ r \in Record /\ r.timer = "idle" /\ r.state = req[c].state
        /\ r.id = req[c].id /\ r.reply = req[c].reply /\ r.reply <= r.id
        /\ r.sent_to = NoPipe /\ (r.id = 0 => r.state = "STOPPING")
    BY <1>1, <2>2 DEF Good, Record
  <2>4. \/ r.state \in {"TIMED_OUT", "CANCELLING"} /\ ActionSend(c, r, TRUE)
        \/ /\ r.state \notin {"TIMED_OUT", "CANCELLING"}
           /\ req' = [req EXCEPT ![c] =
                Become(r, CASE r.state = "STOPPING_TIMER" -> "DONE"
                            [] r.state = "STOPPING"       -> "IDLE"
                            [] OTHER                      -> "bad")]
           /\ UNCHANGED <<conn, lb>>
    BY <1>3 DEF TimerStopped
  <2> HIDE DEF r
  <2>5. CASE r.state \in {"TIMED_OUT", "CANCELLING"}
    <3>1. \A s \in {"DELAYED", "ACTIVE"} : Legal(c, Become(r, s))
      <4>1. \A s \in {"DELAYED", "ACTIVE"} :
              Become(r, s).id = r.id /\ Become(r, s).state = s
        BY <2>3 DEF Become, Record
      <4> QED BY <2>3, <2>5, <4>1 DEF Legal, SamePhase, Answered, Closed
    <3> QED BY <1>1, <2>3, <2>4, <2>5, <3>1, ActionSendMoves
  <2>6. CASE r.state = "STOPPING_TIMER"
    <3>1. req' = [req EXCEPT ![c] = Become(r, "DONE")] /\ UNCHANGED <<conn, lb>>
      BY <2>4, <2>6
    <3>2. /\ Good(Become(r, "DONE"), Conns(c))
          /\ Become(r, "DONE").id = r.id /\ Become(r, "DONE").state = "DONE"
      BY <2>3, <2>6, RestGood
    <3>3. Legal(c, Become(r, "DONE"))
      BY <2>3, <2>6, <3>2 DEF Legal, SamePhase, Answered, Closed
    <3> QED BY <1>1, <2>3, <3>1, <3>2, <3>3 DEF Moves, MaySend, Good
  <2>7. CASE r.state = "STOPPING"
    <3>1. req' = [req EXCEPT ![c] = Become(r, "IDLE")] /\ UNCHANGED <<conn, lb>>
      BY <2>4, <2>7
    <3>2. /\ Good(Become(r, "IDLE"), Conns(c))
          /\ Become(r, "IDLE").id = r.id /\ Become(r, "IDLE").state = "IDLE"
      BY <2>3, <2>7, RestGood
    <3>3. Legal(c, Become(r, "IDLE"))
      BY <2>3, <2>7, <3>2 DEF Legal, SamePhase, Answered, Closed
    <3> QED BY <1>1, <2>3, <3>1, <3>2, <3>3 DEF Moves, MaySend, Good
  <2> QED BY <2>2, <2>3, <2>5, <2>6, <2>7
<1>4. faults' \in 0 .. MaxFaults
  <2>1. TimerStopped(c) => faults' = faults
    BY DEF TimerStopped
  <2>2. Timeout(c, Quiet(c)) => faults' = faults \/ (faults < MaxFaults /\ faults' = faults + 1)
    BY DEF Timeout, Fault
  <2> QED BY <1>1, <2>1, <2>2
<1> QED BY <1>2, <1>3, <1>4

LEMMA OutMoves ==
  ASSUME NnInv, NEW c \in Client, NEW k \in Conn, nn_req_out(c, k)
  PROVE  /\ faults' = faults
         /\ \/ Moves(c, Conns(c)) /\ MaySend(c)
            \/ /\ k \in Conns(c) /\ k \notin Queued(lb[c])
               /\ Len(conn[k].up) < MaxFlight
               /\ lb' = [lb EXCEPT ![c] = Append(@, k)]
               /\ UNCHANGED <<conn, req>>
<1>1. /\ req[c] \in Record /\ Good(req[c], Conns(c)) /\ req[c].id <= MaxRequests[c]
  BY DEF NnInv, ReqInv
<1>2. CASE /\ req[c].state = "DELAYED"
           /\ conn' = SentUp(k, <<c, req[c].id>>)
           /\ req' = [req EXCEPT ![c] = Sent(@, k)]
           /\ UNCHANGED lb
  <2>1. /\ k \in Conns(c) /\ k \notin Queued(lb[c]) /\ Len(conn[k].up) < MaxFlight
        /\ faults' = faults
    BY DEF nn_req_out
  <2>2. req[c].timer = "idle" /\ req[c].id # 0 /\ req[c].reply <= req[c].id
    BY <1>1, <1>2 DEF Good, Record
  <2>3. /\ Good(Sent(req[c], k), Conns(c)) /\ Sent(req[c], k).id = req[c].id
        /\ Sent(req[c], k).state = "ACTIVE"
    BY <1>1, <2>1, <2>2, SentGood
  <2>4. Legal(c, Sent(req[c], k))
    BY <1>2, <2>3 DEF Legal, SamePhase, Answered, Closed
  <2>5. req' = [req EXCEPT ![c] = Sent(req[c], k)] /\ req'[c] = Sent(req[c], k)
    BY <1>2 DEF NnInv, ReqInv
  <2>6. Moves(c, Conns(c))
    BY <1>1, <2>3, <2>4, <2>5 DEF Moves, Good
  <2>7. Sends(c, k, <<c, req'[c].id>>) /\ req'[c].id # 0
    BY <1>2, <2>1, <2>2, <2>3, <2>5 DEF Sends
  <2> QED BY <2>1, <2>6, <2>7 DEF MaySend
<1> QED BY <1>2 DEF nn_req_out, Is

LEMMA InMoves ==
  ASSUME NnInv, NEW c \in Client, NEW k \in Conn, nn_req_in(c, k)
  PROVE  /\ Moves(c, Conns(c)) /\ conn[k].down # <<>>
         /\ conn' = [conn EXCEPT ![k].down = Tail(@)]
         /\ UNCHANGED <<lb, faults>>
<1>1. /\ req[c] \in Record /\ Good(req[c], Conns(c)) /\ req[c].id <= MaxRequests[c]
  BY DEF NnInv, ReqInv
<1> DEFINE m == Head(conn[k].down)
<1>2. k \in Conns(c) /\ conn[k].client = c /\ conn[k].down # <<>>
  BY DEF nn_req_in, Conns
<1>3. conn[k].down \in Seq(Message)
  BY DEF NnInv, NetTypes, Pipe
<1>4. m \in Message /\ m \in Queued(conn[k].down)
  BY <1>2, <1>3, TailItems
<1>5. m[1] = c /\ m \in ran /\ m = <<m[1], m[2]>> /\ m[2] \in Nat \ {0}
  BY <1>2, <1>4, PipeBounds DEF NnInv, MessagesOk, Asked, Message
<1> PICK id \in Nat \ {0} : id = m[2]
  BY <1>5
<1> DEFINE r == [req[c] EXCEPT !.reply = IF Accepts(req[c], id) THEN id ELSE NoReply]
<1>6. req' = [req EXCEPT ![c] =
                IF r.reply # NoReply /\ r.state = "ACTIVE"
                THEN Become(StopTimer(r), "STOPPING_TIMER") ELSE r]
  BY DEF nn_req_in
<1>7. /\ Good(r, Conns(c)) /\ r.id = req[c].id /\ r.state = req[c].state
      /\ r \in Record /\ (r.reply # NoReply => id = req[c].id)
  <2>1. r.reply = IF Accepts(req[c], id) THEN id ELSE 0
    BY <1>1 DEF Record, NoReply
  <2>2. /\ r \in Record /\ r.id = req[c].id /\ r.state = req[c].state
        /\ r.timer = req[c].timer /\ r.sent_to = req[c].sent_to
    BY <1>1 DEF Record, NoReply
  <2>3. r.id \in Nat /\ r.reply <= r.id /\ (r.reply # NoReply => id = req[c].id)
    BY <1>1, <2>1, <2>2 DEF Accepts, Record, NoReply
  <2> HIDE DEF r
  <2> QED BY <1>1, <2>2, <2>3 DEF Good
<1> HIDE DEF r
<1>8. CASE r.reply # NoReply /\ r.state = "ACTIVE"
  <2>1. /\ Good(Become(StopTimer(r), "STOPPING_TIMER"), Conns(c))
        /\ Become(StopTimer(r), "STOPPING_TIMER").id = r.id
        /\ Become(StopTimer(r), "STOPPING_TIMER").state = "STOPPING_TIMER"
    BY <1>7, <1>8, StopGood
  <2>2. <<c, r.id>> \in ran
    BY <1>5, <1>7, <1>8
  <2>3. Legal(c, Become(StopTimer(r), "STOPPING_TIMER"))
    BY <1>7, <1>8, <2>1, <2>2 DEF Legal, Waiting, Answered
  <2> QED BY <1>1, <1>6, <1>7, <1>8, <2>1, <2>3 DEF Moves, Good, nn_req_in
<1>9. CASE ~(r.reply # NoReply /\ r.state = "ACTIVE")
  <2>1. Legal(c, r)
    BY <1>7 DEF Legal, SamePhase
  <2> QED BY <1>1, <1>6, <1>7, <1>9, <2>1 DEF Moves, nn_req_in
<1> QED BY <1>8, <1>9

(* The removal of a pipe reaches the state machine only in ACTIVE. *)
LEMMA RemoveMoves ==
  ASSUME NnInv, NEW c \in Client, NEW k \in Conns(c), RemovePipe(c, k)
  PROVE  Moves(c, Conns(c) \ {k}) /\ lb' = [lb EXCEPT ![c] = Without(@, k)]
<1>1. /\ req[c] \in Record /\ Good(req[c], Conns(c)) /\ req[c].id <= MaxRequests[c]
      /\ req \in [Client -> Record] /\ k \in Conn /\ k # NoPipe
  BY PipeBounds DEF NnInv, ReqInv, Conns, Conn, NoPipe
<1>2. CASE req[c].sent_to # k
  <2>1. req' = [req EXCEPT ![c] = req[c]]
    BY <1>2 DEF RemovePipe
  <2>2. Good(req[c], Conns(c) \ {k})
    BY <1>1, <1>2 DEF Good
  <2>3. Legal(c, req[c])
    BY DEF Legal, SamePhase
  <2> QED BY <1>1, <2>1, <2>2, <2>3 DEF Moves, RemovePipe
<1>3. CASE req[c].sent_to = k
  <2>1. req[c].state = "ACTIVE"
    BY <1>1, <1>3 DEF Good
  <2> DEFINE r == Become(StopTimer(req[c]), "TIMED_OUT")
  <2>2. req' = [req EXCEPT ![c] = r]
    BY <1>1, <1>3, <2>1 DEF RemovePipe
  <2>3. Good(r, Conns(c) \ {k}) /\ r.id = req[c].id /\ r.state = "TIMED_OUT"
    BY <1>1, <2>1, StopGood
  <2> HIDE DEF r
  <2>4. Legal(c, r)
    BY <2>1, <2>3 DEF Legal, SamePhase, Answered, Closed
  <2> QED BY <1>1, <2>2, <2>3, <2>4 DEF Moves, RemovePipe, Good
<1> QED BY <1>2, <1>3

-----------------------------------------------------------------------------
(* What is under way                                                        *)

(* The ids of a step in which only c's record changes.                      *)
LEMMA MovesReq ==
  ASSUME NnInv, NEW c \in Client, NEW P, Moves(c, P), Conns(c)' = P,
         \A d \in Client \ {c} : Conns(d)' = Conns(d)
  PROVE  /\ ReqInv'
         /\ \A d \in Client : req'[d].id \in Nat /\ req[d].id <= req'[d].id
<1>1. PICK r \in Record :
        /\ req' = [req EXCEPT ![c] = r]
        /\ Good(r, P) /\ r.id <= MaxRequests[c] /\ Legal(c, r)
  BY DEF Moves
<1>2. req \in [Client -> Record] /\ req' \in [Client -> Record]
  BY <1>1 DEF NnInv, ReqInv
<1>3. /\ req'[c] = r /\ \A d \in Client \ {c} : req'[d] = req[d]
      /\ \A d \in Client : req[d].id \in Nat /\ req'[d].id \in Nat
  BY <1>1, <1>2 DEF Record
<1>4. req[c].id <= r.id
  BY <1>1, <1>3 DEF Legal
<1>5. \A d \in Client : Good(req'[d], Conns(d)') /\ req'[d].id <= MaxRequests[d]
  BY <1>1, <1>3 DEF NnInv, ReqInv
<1> QED BY <1>2, <1>3, <1>4, <1>5 DEF ReqInv

LEMMA SameReq ==
  ASSUME NnInv, req' = req, \A d \in Client : Conns(d) \subseteq Conns(d)'
  PROVE  /\ ReqInv'
         /\ \A d \in Client : req'[d].id \in Nat /\ req[d].id <= req'[d].id
<1>1. \A d \in Client : req[d] \in Record /\ req[d].id \in Nat
  BY DEF NnInv, ReqInv, Record
<1>2. \A d \in Client : Good(req[d], Conns(d)')
  BY DEF NnInv, ReqInv, Good
<1> QED BY <1>1, <1>2 DEF NnInv, ReqInv

(* Messages stay Asked while ids grow and no connection changes hands.      *)
NoHandover ==
  /\ \A d \in Client : req'[d].id \in Nat /\ req[d].id <= req'[d].id
  /\ \A k \in Conn : conn[k].client # NoClient => conn'[k].client = conn[k].client

LEMMA StillAsked ==
  ASSUME NnInv, NoHandover, NEW m \in Message
  PROVE  /\ \A k \in Conn : Asked(conn[k].client, m) => Asked(conn[k].client, m)'
         /\ Asked(m[1], m) => Asked(m[1], m)'
<1>1. m[1] \in Client /\ m[2] \in Nat /\ m[1] # NoClient
  BY NoClientIsNone, PipeBounds DEF Message
<1>2. req[m[1]].id \in Nat
  BY <1>1 DEF NnInv, ReqInv, Record
<1> QED BY <1>1, <1>2 DEF NoHandover, Asked

(* A step that leaves the messages, apart from one that is taken away, but  *)
(* brings none.                                                             *)
LEMMA MessagesKept ==
  ASSUME NnInv, NoHandover, NetTypes', ran' = ran,
         serving' = serving \/ serving' = None,
         \A k \in Conn : /\ Queued(conn'[k].up) \subseteq Queued(conn[k].up)
                         /\ Queued(conn'[k].down) \subseteq Queued(conn[k].down)
  PROVE  MessagesOk'
<1>1. \A k \in Conn : Queued(conn[k].up) \cup Queued(conn[k].down) \subseteq Message
  BY UnderWay DEF NnInv
<1>2. ASSUME NEW k \in Conn, NEW m \in Queued(conn'[k].up)
      PROVE  Asked(conn[k].client, m)'
  BY <1>1, StillAsked DEF NnInv, MessagesOk
<1>3. ASSUME NEW k \in Conn, NEW m \in Queued(conn'[k].down)
      PROVE  Asked(conn[k].client, m)' /\ m \in ran'
  BY <1>1, StillAsked DEF NnInv, MessagesOk
<1>4. ASSUME NEW m \in ran' PROVE Asked(m[1], m)'
  BY StillAsked DEF NnInv, MessagesOk, NetTypes
<1>5. ASSUME serving' # None
      PROVE  Asked(conn[serving[1]].client, serving[2])' /\ serving'[2] \in ran'
  <2>1. serving' = serving /\ serving[1] \in Conn /\ serving[2] \in Message
    BY <1>5 DEF NnInv, NetTypes
  <2> QED BY <1>5, <2>1, StillAsked DEF NnInv, MessagesOk
<1> QED BY <1>2, <1>3, <1>4, <1>5 DEF MessagesOk

-----------------------------------------------------------------------------
(* The steps of a REQ socket                                                *)

RepSame == UNCHANGED <<fq, serving, ran>>

LEMMA SendsKept ==
  ASSUME NnInv, NoHandover, NEW c \in Client, NEW k \in Conn,
         NEW m \in Message, Sends(c, k, m), Asked(c, m)',
         faults' \in 0 .. MaxFaults, RepSame
  PROVE  /\ NetTypes' /\ QueuesOk' /\ MessagesOk'
         /\ \A d \in Client : Conns(d)' = Conns(d)
<1>1. /\ conn \in [Conn -> Pipe] /\ conn[k] \in Pipe /\ conn[k].up \in Seq(Message)
      /\ conn[k].client = c /\ conn[k].atReq /\ Len(conn[k].up) < MaxFlight
      /\ Len(conn[k].up) \in Nat /\ MaxFlight \in Nat
      /\ k \in Conns(c) /\ lb \in [Client -> Seq(Conn)] /\ c # NoClient
  BY PipeBounds, NoClientIsNone, LenProperties
  DEF Sends, Conns, NnInv, NetTypes, Pipe
<1>2. PICK u \in Seq(Message) :
        /\ conn' = [conn EXCEPT ![k].up = u]
        /\ Len(u) <= MaxFlight /\ Queued(u) \subseteq Queued(conn[k].up) \cup {m}
        /\ conn[k].up # <<>> => u # <<>>
  <2>1. PICK v \in Seq(Message) :
          /\ v = Append(conn[k].up, m)
          /\ Len(v) = Len(conn[k].up) + 1 /\ Queued(v) = Queued(conn[k].up) \cup {m}
    <3>1. conn[k].up \in Seq(Message)
      BY <1>1
    <3> QED BY <3>1, AppendItems, ZenonT(30)
  <2>2. v # <<>>
    BY <2>1, NoItems
  <2>3. Len(v) <= MaxFlight
    BY <1>1, <2>1
  <2>4. conn' = [conn EXCEPT ![k].up = v] \/ conn' = [conn EXCEPT ![k].up = conn[k].up]
    BY <2>1 DEF Sends, SentUp
  <2>5. Len(conn[k].up) <= MaxFlight
    BY <1>1
  <2> QED BY <1>1, <2>1, <2>2, <2>3, <2>4, <2>5
<1>3. /\ conn'[k] = [conn[k] EXCEPT !.up = u]
      /\ \A j \in Conn \ {k} : conn'[j] = conn[j]
      /\ conn' \in [Conn -> Pipe]
  BY <1>1, <1>2 DEF Pipe
<1>4. /\ \A j \in Conn : /\ conn'[j].client = conn[j].client
                         /\ conn'[j].atReq = conn[j].atReq
                         /\ conn'[j].out = conn[j].out
                         /\ conn'[j].down = conn[j].down
                         /\ j # k => conn'[j].up = conn[j].up
      /\ conn'[k].up = u
  BY <1>1, <1>3 DEF Pipe
<1>5. \A d \in Client : Conns(d)' = Conns(d)
  BY <1>4 DEF Conns
<1>6. /\ lb' \in [Client -> Seq(Conn)]
      /\ \A d \in Client \ {c} : lb'[d] = lb[d]
      /\ Distinct(lb'[c]) /\ Queued(lb'[c]) \subseteq Queued(lb[c]) \ {k}
  <2>1. Distinct(lb[c]) /\ lb[c] \in Seq(Conn)
    BY <1>1 DEF NnInv, QueuesOk
  <2>2. CASE lb[c] # <<>> /\ k = Head(lb[c]) /\ lb' = [lb EXCEPT ![c] = Tail(@)]
    <3>1. /\ Tail(lb[c]) \in Seq(Conn) /\ Distinct(Tail(lb[c]))
          /\ Queued(Tail(lb[c])) \subseteq Queued(lb[c])
          /\ k \notin Queued(Tail(lb[c]))
      BY <2>1, <2>2, TailItems
    <3> QED BY <1>1, <2>2, <3>1
  <2>3. CASE k \notin Queued(lb[c]) /\ lb' = lb
    BY <1>1, <2>1, <2>3
  <2> QED BY <2>2, <2>3 DEF Sends
<1>7. NetTypes'
  BY <1>3, <1>6 DEF NnInv, NetTypes, RepSame
<1>8. QueuesOk'
  <2>1. ASSUME NEW d \in Client, NEW j \in Queued(lb'[d])
        PROVE  j \in Conns(d)' /\ Len(conn'[j].up) < MaxFlight
    <3>1. j \in Queued(lb[d]) /\ (d = c => j # k)
      BY <1>6, <2>1
    <3>2. j \in Conns(d) /\ Len(conn[j].up) < MaxFlight /\ j \in Conn
      BY <3>1 DEF NnInv, QueuesOk, Conns
    <3>3. j # k
      BY <1>1, <3>1, <3>2 DEF Conns
    <3> QED BY <1>4, <1>5, <3>2, <3>3
  <2>2. \A d \in Client : Distinct(lb'[d])
    BY <1>6 DEF NnInv, QueuesOk
  <2>3. Distinct(fq') /\ \A j \in Queued(fq') : conn'[j].up # <<>>
    <3>1. \A j \in Queued(fq) : j \in Conn
      BY FairPipes DEF NnInv
    <3> QED BY <1>2, <1>4, <3>1 DEF NnInv, QueuesOk, RepSame
  <2>4. \A j \in Conn :
          /\ Len(conn'[j].up) <= MaxFlight /\ Len(conn'[j].down) <= MaxFlight
          /\ conn'[j].out => Len(conn'[j].down) < MaxFlight
    BY <1>2, <1>4 DEF NnInv, QueuesOk
  <2> QED BY <2>1, <2>2, <2>3, <2>4 DEF QueuesOk
<1>9. MessagesOk'
  <2>1. \A j \in Conn : Queued(conn[j].up) \cup Queued(conn[j].down) \subseteq Message
    BY UnderWay DEF NnInv
  <2>2. ASSUME NEW j \in Conn, NEW n \in Queued(conn'[j].up)
        PROVE  Asked(conn[j].client, n)'
    <3>1. CASE j = k /\ n = m
      BY <1>1, <1>4, <3>1 DEF Asked
    <3>2. CASE ~(j = k /\ n = m)
      <4>1. n \in Queued(conn[j].up)
        BY <1>2, <1>4, <2>2, <3>2
      <4> QED BY <2>1, <4>1, StillAsked DEF NnInv, MessagesOk
    <3> QED BY <3>1, <3>2
  <2>3. ASSUME NEW j \in Conn, NEW n \in Queued(conn'[j].down)
        PROVE  Asked(conn[j].client, n)' /\ n \in ran'
    BY <1>4, <2>1, StillAsked DEF NnInv, MessagesOk, RepSame
  <2>4. ASSUME NEW n \in ran' PROVE Asked(n[1], n)'
    BY StillAsked DEF NnInv, MessagesOk, NetTypes, RepSame
  <2>5. ASSUME serving' # None
        PROVE  Asked(conn[serving[1]].client, serving[2])' /\ serving'[2] \in ran'
    <3>1. serving' = serving /\ serving[1] \in Conn /\ serving[2] \in Message
      BY <2>5 DEF NnInv, NetTypes, RepSame
    <3> QED BY <2>5, <3>1, StillAsked DEF NnInv, MessagesOk, RepSame
  <2> QED BY <2>2, <2>3, <2>4, <2>5 DEF MessagesOk
<1> QED BY <1>5, <1>7, <1>8, <1>9

(* The user's calls and the timer's events. *)
LEMMA ReqStep ==
  ASSUME NnInv, NEW c \in Client, Moves(c, Conns(c)), MaySend(c),
         faults' \in 0 .. MaxFaults, RepSame
  PROVE  NnInv'
<1>1. PICK r \in Record :
        /\ req' = [req EXCEPT ![c] = r]
        /\ Good(r, Conns(c)) /\ r.id <= MaxRequests[c] /\ Legal(c, r)
  BY DEF Moves
<1>2. req'[c] = r /\ r.id \in Nat
  BY <1>1 DEF NnInv, ReqInv, Record
<1>3. ASSUME \A d \in Client : Conns(d)' = Conns(d)
      PROVE  ReqInv' /\ \A d \in Client : req'[d].id \in Nat /\ req[d].id <= req'[d].id
  BY <1>3, MovesReq
<1>4. \A d \in Client : req'[d].id \in Nat /\ req[d].id <= req'[d].id
  BY <1>1 DEF NnInv, ReqInv, Record, Legal
<1>5. CASE UNCHANGED <<conn, lb>>
  <2>1. NoHandover
    BY <1>4, <1>5 DEF NoHandover
  <2>2. NetTypes'
    BY <1>5 DEF NnInv, NetTypes, RepSame
  <2>3. QueuesOk'
    BY <1>5 DEF NnInv, QueuesOk, RepSame, Conns
  <2>4. MessagesOk'
    BY <1>5, <2>1, <2>2, MessagesKept DEF RepSame
  <2>5. \A d \in Client : Conns(d)' = Conns(d)
    BY <1>5 DEF Conns
  <2> QED BY <1>3, <2>2, <2>3, <2>4, <2>5 DEF NnInv
<1>6. ASSUME NEW k \in Conn, Sends(c, k, <<c, req'[c].id>>), req'[c].id # 0
      PROVE  NnInv'
  <2>1. /\ r.id \in 1 .. MaxRequests[c] /\ MaxRequests[c] \in Nat
    BY <1>1, <1>2, <1>6, PipeBounds
  <2>2. <<c, r.id>> \in Message
    BY <2>1 DEF Message
  <2>3. NoHandover
    <3>1. \A j \in Conn : conn'[j].client = conn[j].client
      BY <1>6 DEF Sends, SentUp, NnInv, NetTypes, Pipe
    <3> QED BY <1>4, <3>1 DEF NoHandover
  <2>4. Asked(c, <<c, r.id>>)'
    BY <1>2 DEF Asked
  <2>5. Sends(c, k, <<c, r.id>>)
    BY <1>2, <1>6
  <2>6. /\ NetTypes' /\ QueuesOk' /\ MessagesOk'
        /\ \A d \in Client : Conns(d)' = Conns(d)
    BY <2>2, <2>3, <2>4, <2>5, SendsKept
  <2> QED BY <1>3, <2>6 DEF NnInv
<1> QED BY <1>5, <1>6 DEF MaySend

-----------------------------------------------------------------------------
(* The steps of pipes                                                       *)

(* A step that takes messages and pipes away, but brings none.              *)
LEMMA QueuesKept ==
  ASSUME NnInv, NetTypes',
         \A d \in Client : Distinct(lb'[d]) /\ Queued(lb'[d]) \subseteq Queued(lb[d]),
         \A d \in Client : \A k \in Queued(lb'[d]) : k \in Conns(d)',
         Distinct(fq'),
         \A k \in Queued(fq') : k \in Queued(fq) /\ conn'[k].up = conn[k].up,
         \A k \in Conn : /\ Len(conn'[k].up) <= Len(conn[k].up)
                         /\ Len(conn'[k].down) <= Len(conn[k].down),
         \A k \in Conn : (conn'[k].out = conn[k].out) \/ (conn'[k].out = FALSE)
  PROVE  QueuesOk'
<1>1. /\ MaxFlight \in Nat /\ conn \in [Conn -> Pipe] /\ conn' \in [Conn -> Pipe]
      /\ \A k \in Conn : /\ Len(conn[k].up) \in Nat /\ Len(conn[k].down) \in Nat
                         /\ Len(conn'[k].up) \in Nat /\ Len(conn'[k].down) \in Nat
  BY PipeBounds, LenProperties DEF NnInv, NetTypes, Pipe
<1>2. ASSUME NEW d \in Client, NEW k \in Queued(lb'[d])
      PROVE  k \in Conns(d)' /\ Len(conn'[k].up) < MaxFlight
  <2>1. k \in Queued(lb[d]) /\ k \in Conns(d)'
    BY <1>2
  <2>2. Len(conn[k].up) < MaxFlight /\ k \in Conn
    BY <2>1 DEF NnInv, QueuesOk, Conns
  <2> QED BY <1>1, <2>1, <2>2
<1>3. \A k \in Queued(fq') : conn'[k].up # <<>>
  BY DEF NnInv, QueuesOk
<1>4. ASSUME NEW k \in Conn
      PROVE  /\ Len(conn'[k].up) <= MaxFlight /\ Len(conn'[k].down) <= MaxFlight
             /\ conn'[k].out => Len(conn'[k].down) < MaxFlight
  <2>1. /\ Len(conn[k].up) <= MaxFlight /\ Len(conn[k].down) <= MaxFlight
        /\ conn[k].out => Len(conn[k].down) < MaxFlight
    BY DEF NnInv, QueuesOk
  <2>2. (conn'[k].out = conn[k].out) \/ (conn'[k].out = FALSE)
    OBVIOUS
  <2>3. /\ Len(conn'[k].up) <= Len(conn[k].up)
        /\ Len(conn'[k].down) <= Len(conn[k].down)
    OBVIOUS
  <2> QED BY <1>1, <2>1, <2>2, <2>3
<1> QED BY <1>2, <1>3, <1>4 DEF QueuesOk

LEMMA InStep ==
  ASSUME NnInv, NEW c \in Client, NEW k \in Conn, nn_req_in(c, k), RepSame
  PROVE  NnInv'
<1>1. /\ Moves(c, Conns(c)) /\ conn[k].down # <<>>
      /\ conn' = [conn EXCEPT ![k].down = Tail(@)]
      /\ UNCHANGED <<lb, faults>>
  BY InMoves
<1>2. conn \in [Conn -> Pipe] /\ conn[k].down \in Seq(Message)
  BY DEF NnInv, NetTypes, Pipe
<1>3. PICK t \in Seq(Message) :
        /\ t = Tail(conn[k].down) /\ Len(t) = Len(conn[k].down) - 1
        /\ Queued(t) \subseteq Queued(conn[k].down)
  BY <1>1, <1>2, TailItems
<1>4. /\ \A j \in Conn : /\ conn'[j].client = conn[j].client
                         /\ conn'[j].atReq = conn[j].atReq
                         /\ conn'[j].up = conn[j].up
                         /\ conn'[j].out = conn[j].out
                         /\ j # k => conn'[j].down = conn[j].down
      /\ conn'[k].down = t /\ conn' \in [Conn -> Pipe]
  BY <1>1, <1>2, <1>3 DEF Pipe
<1>5. NetTypes'
  BY <1>1, <1>4 DEF NnInv, NetTypes, RepSame
<1>6. \A d \in Client : Conns(d)' = Conns(d)
  BY <1>4 DEF Conns
<1>7. ReqInv' /\ \A d \in Client : req'[d].id \in Nat /\ req[d].id <= req'[d].id
  BY <1>1, <1>6, MovesReq
<1>8. \A j \in Conn : /\ Len(conn'[j].up) <= Len(conn[j].up)
                       /\ Len(conn'[j].down) <= Len(conn[j].down)
  <2>1. Len(t) <= Len(conn[k].down)
    BY <1>3, PipeFields DEF NnInv
  <2>2. \A j \in Conn : Len(conn[j].up) \in Nat /\ Len(conn[j].down) \in Nat
    BY PipeFields DEF NnInv
  <2> QED BY <1>4, <2>1, <2>2
<1>9. QueuesOk'
  <2>1. \A d \in Client : /\ Distinct(lb'[d]) /\ Queued(lb'[d]) \subseteq Queued(lb[d])
                           /\ \A j \in Queued(lb'[d]) : j \in Conns(d)'
    BY <1>1, <1>6 DEF NnInv, QueuesOk
  <2>2. Distinct(fq') /\ \A j \in Queued(fq') : j \in Queued(fq) /\ conn'[j].up = conn[j].up
    <3>1. \A j \in Queued(fq) : j \in Conn
      BY FairPipes DEF NnInv
    <3> QED BY <1>4, <3>1 DEF NnInv, QueuesOk, RepSame
  <2> QED BY <1>4, <1>5, <1>8, <2>1, <2>2, QueuesKept
<1>10. MessagesOk'
  <2>1. NoHandover
    BY <1>4, <1>7 DEF NoHandover
  <2> QED BY <1>3, <1>4, <1>5, <2>1, MessagesKept DEF RepSame
<1> QED BY <1>5, <1>7, <1>9, <1>10 DEF NnInv

(* A pipe joins the load balancer. *)
LEMMA OutStep ==
  ASSUME NnInv, NEW c \in Client, NEW k \in Conn, nn_req_out(c, k), RepSame
  PROVE  NnInv'
<1>1. CASE /\ k \in Conns(c) /\ k \notin Queued(lb[c]) /\ Len(conn[k].up) < MaxFlight
           /\ lb' = [lb EXCEPT ![c] = Append(@, k)]
           /\ UNCHANGED <<conn, req, faults>>
  <2>1. /\ Append(lb[c], k) \in Seq(Conn) /\ Distinct(Append(lb[c], k))
        /\ Queued(Append(lb[c], k)) = Queued(lb[c]) \cup {k}
    BY <1>1, AppendItems DEF NnInv, NetTypes, QueuesOk
  <2>2. /\ lb' \in [Client -> Seq(Conn)] /\ lb'[c] = Append(lb[c], k)
        /\ \A d \in Client \ {c} : lb'[d] = lb[d]
    BY <1>1, <2>1 DEF NnInv, NetTypes
  <2>3. NetTypes'
    BY <1>1, <2>2 DEF NnInv, NetTypes, RepSame
  <2>4. \A d \in Client : Conns(d)' = Conns(d)
    BY <1>1 DEF Conns
  <2>5. ReqInv' /\ MessagesOk'
    BY <1>1, <2>4 DEF NnInv, ReqInv, MessagesOk, Asked, RepSame
  <2>6. QueuesOk'
    <3>1. ASSUME NEW d \in Client
          PROVE  /\ Distinct(lb'[d])
                 /\ \A j \in Queued(lb'[d]) : j \in Conns(d) /\ Len(conn[j].up) < MaxFlight
      BY <1>1, <2>1, <2>2 DEF NnInv, QueuesOk
    <3> QED BY <1>1, <2>4, <3>1 DEF NnInv, QueuesOk, RepSame
  <2> QED BY <2>3, <2>5, <2>6 DEF NnInv
<1>2. CASE Moves(c, Conns(c)) /\ MaySend(c) /\ faults' = faults
  BY <1>2, ReqStep DEF NnInv, NetTypes
<1> QED BY <1>1, <1>2, OutMoves

LEMMA ConnectStep ==
  ASSUME NnInv, NEW c \in Client, Connect(c)
  PROVE  NnInv'
<1>1. PICK k \in Conn :
        /\ conn[k] = Unused
        /\ conn' = [conn EXCEPT ![k] = [@ EXCEPT !.client = c, !.atReq = TRUE,
                                                 !.atRep = TRUE]]
  BY DEF Connect
<1>2. UNCHANGED <<faults, req, lb, fq, serving, ran>>
  BY DEF Connect
<1>3. conn \in [Conn -> Pipe] /\ c # NoClient
  BY NoClientIsNone DEF NnInv, NetTypes
<1>4. /\ conn' \in [Conn -> Pipe]
      /\ \A j \in Conn : /\ conn'[j].up = conn[j].up
                         /\ conn'[j].down = conn[j].down
                         /\ conn'[j].out = conn[j].out
                         /\ conn[j].client # NoClient => conn'[j] = conn[j]
                         /\ conn[j].atReq => conn'[j] = conn[j]
  <2>1. PICK p : p = [conn[k] EXCEPT !.client = c, !.atReq = TRUE, !.atRep = TRUE]
    OBVIOUS
  <2>2. /\ p.up = conn[k].up /\ p.down = conn[k].down /\ p.out = conn[k].out
        /\ p \in Pipe
    BY <2>1, PipeFields DEF NnInv, Pipe
  <2>3. conn' = [conn EXCEPT ![k] = p]
    BY <1>1, <2>1
  <2>4. conn[k].client = NoClient /\ ~conn[k].atReq
    BY <1>1 DEF Unused
  <2> QED BY <2>2, <2>3, <2>4, PipeSet DEF NnInv
<1>5. NetTypes'
  BY <1>2, <1>4 DEF NnInv, NetTypes
<1>6. \A d \in Client : Conns(d) \subseteq Conns(d)'
  BY <1>4 DEF Conns
<1>7. ReqInv' /\ \A d \in Client : req'[d].id \in Nat /\ req[d].id <= req'[d].id
  BY <1>2, <1>6, SameReq
<1>8. QueuesOk'
  <2>1. \A j \in Queued(fq) : j \in Conn
    BY FairPipes DEF NnInv
  <2>2. \A d \in Client : \A j \in Queued(lb[d]) :
          j \in Conns(d) /\ j \in Conn /\ Len(conn[j].up) < MaxFlight
    BY DEF NnInv, QueuesOk, Conns
  <2> QED BY <1>2, <1>4, <1>6, <2>1, <2>2 DEF NnInv, QueuesOk
<1>9. MessagesOk'
  <2>1. NoHandover
    BY <1>4, <1>7 DEF NoHandover
  <2> QED BY <1>2, <1>4, <1>5, <2>1, MessagesKept
<1> QED BY <1>5, <1>7, <1>8, <1>9 DEF NnInv

LEMMA FaultCounted ==
  ASSUME NnInv, Fault \/ UNCHANGED faults PROVE faults' \in 0 .. MaxFaults
BY PipeBounds DEF NnInv, NetTypes, Fault

LEMMA ReqEndStep ==
  ASSUME NnInv, NEW c \in Client, NEW k \in Conn, ReqEnd(c, k)
  PROVE  NnInv'
<1>1. /\ k \in Conns(c) /\ RemovePipe(c, k) /\ UNCHANGED <<fq, serving, ran>>
      /\ conn' = [conn EXCEPT ![k].atReq = FALSE, ![k].down = <<>>]
      /\ faults' \in 0 .. MaxFaults
  BY FaultCounted DEF ReqEnd
<1>2. Moves(c, Conns(c) \ {k}) /\ lb' = [lb EXCEPT ![c] = Without(@, k)]
  BY <1>1, RemoveMoves
<1>3. conn \in [Conn -> Pipe] /\ lb \in [Client -> Seq(Conn)]
  BY DEF NnInv, NetTypes
<1>4. /\ conn' \in [Conn -> Pipe]
      /\ \A j \in Conn : /\ conn'[j].client = conn[j].client
                         /\ conn'[j].up = conn[j].up
                         /\ conn'[j].out = conn[j].out
                         /\ j # k => conn'[j] = conn[j]
      /\ conn'[k].down = <<>> /\ ~conn'[k].atReq
  <2>1. k \in Conn
    BY <1>1 DEF Conns
  <2>2. PICK p : p = [conn[k] EXCEPT !.atReq = FALSE, !.down = <<>>]
    OBVIOUS
  <2>3. /\ p.client = conn[k].client /\ p.up = conn[k].up /\ p.out = conn[k].out
        /\ p.down = <<>> /\ ~p.atReq /\ p \in Pipe
    BY <2>1, <2>2, PipeFields, EmptySeq DEF NnInv, Pipe
  <2>4. conn' = [conn EXCEPT ![k] = p]
    BY <1>1, <2>2
  <2> QED BY <2>1, <2>3, <2>4, PipeSet DEF NnInv
<1>5. Conns(c)' = Conns(c) \ {k} /\ \A d \in Client \ {c} : Conns(d)' = Conns(d)
  BY <1>1, <1>4 DEF Conns
<1>6. ReqInv' /\ \A d \in Client : req'[d].id \in Nat /\ req[d].id <= req'[d].id
  BY <1>2, <1>5, MovesReq
<1>7. /\ Without(lb[c], k) \in Seq(Conn) /\ Distinct(Without(lb[c], k))
      /\ Queued(Without(lb[c], k)) = Queued(lb[c]) \ {k}
  BY <1>3, WithoutItems DEF NnInv, QueuesOk
<1>8. /\ lb' \in [Client -> Seq(Conn)] /\ lb'[c] = Without(lb[c], k)
      /\ \A d \in Client \ {c} : lb'[d] = lb[d]
  BY <1>2, <1>3, <1>7
<1>9. NetTypes'
  BY <1>1, <1>4, <1>8 DEF NnInv, NetTypes
<1>10. \A j \in Conn : /\ Len(conn'[j].up) <= Len(conn[j].up)
                        /\ Len(conn'[j].down) <= Len(conn[j].down)
                        /\ Queued(conn'[j].down) \subseteq Queued(conn[j].down)
  <2>1. \A j \in Conn : Len(conn[j].up) \in Nat /\ Len(conn[j].down) \in Nat
    BY PipeFields DEF NnInv
  <2> QED BY <1>4, <2>1, NoItems
<1>11. QueuesOk'
  <2>1. ASSUME NEW d \in Client
        PROVE  /\ Distinct(lb'[d]) /\ Queued(lb'[d]) \subseteq Queued(lb[d])
               /\ \A j \in Queued(lb'[d]) : j \in Conns(d)'
    <3>1. Distinct(lb[d]) /\ Queued(lb[d]) \subseteq Conns(d)
      BY DEF NnInv, QueuesOk
    <3> QED BY <1>5, <1>7, <1>8, <3>1
  <2>2. Distinct(fq') /\ \A j \in Queued(fq') : j \in Queued(fq) /\ conn'[j].up = conn[j].up
    <3>1. \A j \in Queued(fq) : j \in Conn
      BY FairPipes DEF NnInv
    <3> QED BY <1>1, <1>4, <3>1 DEF NnInv, QueuesOk
  <2> QED BY <1>4, <1>9, <1>10, <2>1, <2>2, QueuesKept
<1>12. MessagesOk'
  <2>1. NoHandover
    BY <1>4, <1>6 DEF NoHandover
  <2> QED BY <1>1, <1>4, <1>9, <1>10, <2>1, MessagesKept
<1> QED BY <1>6, <1>9, <1>11, <1>12 DEF NnInv

-----------------------------------------------------------------------------
(* The steps of the REP socket                                              *)

(* The REQ sockets' side of a pipe is left alone.                           *)
LEMMA ReqSide ==
  ASSUME NnInv, UNCHANGED <<req, lb>>, conn' \in [Conn -> Pipe],
         \A j \in Conn : /\ conn'[j].client = conn[j].client
                         /\ conn'[j].atReq = conn[j].atReq
  PROVE  /\ ReqInv' /\ NoHandover
         /\ \A d \in Client : Conns(d)' = Conns(d)
         /\ \A d \in Client : /\ Distinct(lb'[d]) /\ Queued(lb'[d]) \subseteq Queued(lb[d])
                               /\ \A j \in Queued(lb'[d]) : j \in Conns(d)'
<1>1. \A d \in Client : Conns(d)' = Conns(d)
  BY DEF Conns
<1>2. ReqInv' /\ NoHandover
  BY <1>1, SameReq DEF NoHandover
<1>3. \A d \in Client : Distinct(lb[d]) /\ Queued(lb[d]) \subseteq Conns(d)
  BY DEF NnInv, QueuesOk
<1> QED BY <1>1, <1>2, <1>3

LEMMA RepEndStep ==
  ASSUME NnInv, NEW k \in Conn, RepEnd(k)
  PROVE  NnInv'
<1>1. /\ UNCHANGED <<req, lb, serving, ran>> /\ fq' = Without(fq, k)
      /\ conn' = [conn EXCEPT ![k].atRep = FALSE, ![k].out = FALSE, ![k].up = <<>>]
      /\ faults' \in 0 .. MaxFaults
  BY FaultCounted DEF RepEnd, RemoveRepPipe
<1>2. /\ conn' \in [Conn -> Pipe]
      /\ \A j \in Conn : /\ conn'[j].client = conn[j].client
                         /\ conn'[j].atReq = conn[j].atReq
                         /\ conn'[j].down = conn[j].down
                         /\ j # k => conn'[j] = conn[j]
      /\ conn'[k].up = <<>> /\ conn'[k].out = FALSE
  <2>1. PICK p : p = [conn[k] EXCEPT !.atRep = FALSE, !.out = FALSE, !.up = <<>>]
    OBVIOUS
  <2>2. /\ p.client = conn[k].client /\ p.atReq = conn[k].atReq
        /\ p.down = conn[k].down /\ p.up = <<>> /\ p.out = FALSE /\ p \in Pipe
    BY <2>1, PipeFields, EmptySeq DEF NnInv, Pipe
  <2>3. conn' = [conn EXCEPT ![k] = p]
    BY <1>1, <2>1, PipeFields DEF NnInv, Pipe
  <2> QED BY <2>2, <2>3, PipeSet DEF NnInv
<1>3. /\ Without(fq, k) \in Seq(Conn) /\ Distinct(Without(fq, k))
      /\ Queued(Without(fq, k)) = Queued(fq) \ {k}
  BY WithoutItems DEF NnInv, NetTypes, QueuesOk
<1>4. NetTypes'
  BY <1>1, <1>2, <1>3 DEF NnInv, NetTypes
<1>5. /\ ReqInv' /\ NoHandover
      /\ \A d \in Client : /\ Distinct(lb'[d]) /\ Queued(lb'[d]) \subseteq Queued(lb[d])
                            /\ \A j \in Queued(lb'[d]) : j \in Conns(d)'
  BY <1>1, <1>2, ReqSide
<1>6. \A j \in Conn : /\ Len(conn'[j].up) <= Len(conn[j].up)
                       /\ Len(conn'[j].down) <= Len(conn[j].down)
                       /\ Queued(conn'[j].up) \subseteq Queued(conn[j].up)
                       /\ Queued(conn'[j].down) \subseteq Queued(conn[j].down)
  <2>1. \A j \in Conn : Len(conn[j].up) \in Nat /\ Len(conn[j].down) \in Nat
    BY PipeFields DEF NnInv
  <2> QED BY <1>2, <2>1, NoItems
<1>7. QueuesOk'
  <2>1. \A j \in Queued(fq) : j \in Conn
    BY FairPipes DEF NnInv
  <2>2. Distinct(fq') /\ \A j \in Queued(fq') : j \in Queued(fq) /\ conn'[j].up = conn[j].up
    BY <1>1, <1>2, <1>3, <2>1
  <2>3. \A j \in Conn : (conn'[j].out = conn[j].out) \/ (conn'[j].out = FALSE)
    BY <1>2
  <2> QED BY <1>4, <1>5, <1>6, <2>2, <2>3, QueuesKept
<1>8. MessagesOk'
  <2>1. \A j \in Conn : /\ Queued(conn'[j].up) \subseteq Queued(conn[j].up)
                         /\ Queued(conn'[j].down) \subseteq Queued(conn[j].down)
    BY <1>6
  <2>2. ran' = ran /\ serving' = serving
    BY <1>1
  <2> QED BY <1>4, <1>5, <2>1, <2>2, MessagesKept
<1> QED BY <1>4, <1>5, <1>7, <1>8 DEF NnInv

(* A pipe joins the fair queue. *)
LEMMA RepInStep ==
  ASSUME NnInv, NEW k \in Conn, nn_xrep_in(k), UNCHANGED <<req, lb, ran>>
  PROVE  NnInv'
<1>1. /\ conn[k].up # <<>> /\ k \notin Queued(fq) /\ fq' = Append(fq, k)
      /\ UNCHANGED <<conn, faults, serving, req, lb, ran>>
  BY DEF nn_xrep_in
<1>2. /\ Append(fq, k) \in Seq(Conn) /\ Distinct(Append(fq, k))
      /\ Queued(Append(fq, k)) = Queued(fq) \cup {k}
  BY <1>1, AppendItems DEF NnInv, NetTypes, QueuesOk
<1>3. NetTypes'
  BY <1>1, <1>2 DEF NnInv, NetTypes
<1>4. \A d \in Client : Conns(d)' = Conns(d)
  BY <1>1 DEF Conns
<1>5. ReqInv' /\ MessagesOk'
  BY <1>1, <1>4 DEF NnInv, ReqInv, MessagesOk, Asked
<1>6. QueuesOk'
  BY <1>1, <1>2, <1>4 DEF NnInv, QueuesOk
<1> QED BY <1>3, <1>5, <1>6 DEF NnInv

LEMMA RepOutStep ==
  ASSUME NnInv, NEW k \in Conn, nn_xrep_out(k), UNCHANGED <<req, lb, ran>>
  PROVE  NnInv'
<1>1. /\ Len(conn[k].down) < MaxFlight /\ conn' = [conn EXCEPT ![k].out = TRUE]
      /\ UNCHANGED <<faults, fq, serving, req, lb, ran>>
  BY DEF nn_xrep_out
<1>2. /\ conn' \in [Conn -> Pipe]
      /\ \A j \in Conn : /\ conn'[j].client = conn[j].client
                         /\ conn'[j].atReq = conn[j].atReq
                         /\ conn'[j].up = conn[j].up
                         /\ conn'[j].down = conn[j].down
                         /\ j # k => conn'[j] = conn[j]
  BY <1>1, ZenonT(30) DEF NnInv, NetTypes, Pipe
<1>3. NetTypes'
  BY <1>1, <1>2 DEF NnInv, NetTypes
<1>4. /\ ReqInv' /\ NoHandover
      /\ \A d \in Client : Conns(d)' = Conns(d)
  BY <1>1, <1>2, ReqSide
<1>5. QueuesOk'
  <2>1. \A j \in Queued(fq) : j \in Conn
    BY FairPipes DEF NnInv
  <2>2. \A d \in Client : \A j \in Queued(lb[d]) :
          j \in Conns(d) /\ j \in Conn /\ Len(conn[j].up) < MaxFlight
    BY DEF NnInv, QueuesOk, Conns
  <2>3. \A j \in Conn : conn'[j].out => conn[j].out \/ Len(conn[j].down) < MaxFlight
    BY <1>1, <1>2
  <2> QED BY <1>1, <1>2, <1>4, <2>1, <2>2, <2>3 DEF NnInv, QueuesOk
<1>6. MessagesOk'
  BY <1>1, <1>2, <1>3, <1>4, MessagesKept
<1> QED BY <1>3, <1>4, <1>5, <1>6 DEF NnInv

(* The user takes the request at the head of the fair queue's first pipe.   *)
LEMMA RecvStep ==
  ASSUME NnInv, nn_rep_recv, fq # <<>>, ran' = ran \cup Taken, UNCHANGED <<req, lb>>
  PROVE  /\ NnInv'
         /\ \E m \in Message : /\ ran' = ran \cup {m}
                               /\ m = <<m[1], m[2]>> /\ m[2] \in 1 .. req[m[1]].id
<1>1. fq \in Seq(Conn) /\ faults' \in 0 .. MaxFaults
  BY FaultCounted DEF nn_rep_recv, NnInv, NetTypes
<1>2. PICK k \in Conn : k = Head(fq) /\ k \in Queued(fq)
  BY <1>1, TailItems
<1>3. conn[k].up # <<>> /\ conn[k].up \in Seq(Message)
  BY <1>2, PipeFields DEF NnInv, QueuesOk
<1>4. PICK m \in Message : m = Head(conn[k].up) /\ m \in Queued(conn[k].up)
  BY <1>3, TailItems
<1>5. PICK t \in Seq(Message) :
        /\ t = Tail(conn[k].up) /\ Len(t) = Len(conn[k].up) - 1
        /\ Queued(t) \subseteq Queued(conn[k].up)
  BY <1>3, TailItems
<1>6. /\ serving' = <<k, m>> /\ fq' = Tail(fq)
      /\ conn' = [conn EXCEPT ![k].up = t] /\ ran' = ran \cup {m}
  <2>1. /\ serving' = <<k, m>> /\ fq' = Tail(fq)
        /\ conn' = [conn EXCEPT ![k].up = t]
    BY <1>2, <1>4, <1>5 DEF nn_rep_recv
  <2>2. Taken = {m}
    BY <2>1 DEF Taken, None
  <2> QED BY <2>1, <2>2
<1>7. /\ conn' \in [Conn -> Pipe]
      /\ \A j \in Conn : /\ conn'[j].client = conn[j].client
                         /\ conn'[j].atReq = conn[j].atReq
                         /\ conn'[j].out = conn[j].out
                         /\ conn'[j].down = conn[j].down
                         /\ j # k => conn'[j] = conn[j]
      /\ conn'[k].up = t
  <2>1. PICK p : p = [conn[k] EXCEPT !.up = t]
    OBVIOUS
  <2>2. /\ p.client = conn[k].client /\ p.atReq = conn[k].atReq
        /\ p.out = conn[k].out /\ p.down = conn[k].down /\ p.up = t /\ p \in Pipe
    BY <2>1, PipeFields DEF NnInv, Pipe
  <2>3. conn' = [conn EXCEPT ![k] = p]
    BY <1>6, <2>1
  <2> QED BY <2>2, <2>3, PipeSet DEF NnInv
<1>8. /\ Tail(fq) \in Seq(Conn) /\ Distinct(Tail(fq))
      /\ Queued(Tail(fq)) \subseteq Queued(fq) \ {k}
      /\ \A j \in Queued(fq) : j \in Conn
  <2>1. \A j \in Queued(fq) : j \in Conn
    BY FairPipes DEF NnInv
  <2> QED BY <1>1, <1>2, <2>1, TailItems DEF NnInv, QueuesOk
<1>9. NetTypes'
  BY <1>1, <1>6, <1>7, <1>8 DEF NnInv, NetTypes
<1>10. /\ ReqInv' /\ NoHandover
       /\ \A d \in Client : /\ Distinct(lb'[d]) /\ Queued(lb'[d]) \subseteq Queued(lb[d])
                             /\ \A j \in Queued(lb'[d]) : j \in Conns(d)'
  BY <1>7, ReqSide
<1>11. \A j \in Conn : /\ Len(conn'[j].up) <= Len(conn[j].up)
                        /\ Len(conn'[j].down) <= Len(conn[j].down)
  <2>1. \A j \in Conn : Len(conn[j].up) \in Nat /\ Len(conn[j].down) \in Nat
    BY PipeFields DEF NnInv
  <2>2. Len(t) <= Len(conn[k].up)
    BY <1>5, <2>1
  <2> QED BY <1>7, <2>1, <2>2
<1>12. QueuesOk'
  <2>1. \A j \in Queued(fq') : j \in Queued(fq) /\ conn'[j].up = conn[j].up
    BY <1>6, <1>7, <1>8
  <2>2. Distinct(fq')
    BY <1>6, <1>8
  <2> QED BY <1>7, <1>9, <1>10, <1>11, <2>1, <2>2, QueuesKept
<1>13. Asked(conn[k].client, m) /\ m[1] = conn[k].client
  BY <1>4 DEF NnInv, MessagesOk, Asked
<1>14. MessagesOk'
  <2>1. \A j \in Conn : Queued(conn[j].up) \cup Queued(conn[j].down) \subseteq Message
    BY UnderWay DEF NnInv
  <2>2. ASSUME NEW j \in Conn, NEW n \in Queued(conn'[j].up)
        PROVE  Asked(conn[j].client, n)'
    <3>1. n \in Queued(conn[j].up)
      BY <1>5, <1>7, <2>2
    <3> QED BY <1>10, <2>1, <3>1, StillAsked DEF NnInv, MessagesOk
  <2>3. ASSUME NEW j \in Conn, NEW n \in Queued(conn'[j].down)
        PROVE  Asked(conn[j].client, n)' /\ n \in ran'
    <3>1. n \in Queued(conn[j].down)
      BY <1>7, <2>3
    <3> QED BY <1>6, <1>10, <2>1, <3>1, StillAsked DEF NnInv, MessagesOk
  <2>4. Asked(conn[k].client, m)' /\ Asked(m[1], m)'
    BY <1>10, <1>13, StillAsked
  <2>5. ASSUME NEW n \in ran' PROVE Asked(n[1], n)'
    <3>1. CASE n \in ran
      BY <1>10, <3>1, StillAsked DEF NnInv, MessagesOk, NetTypes
    <3> QED BY <1>6, <2>4, <2>5, <3>1
  <2>6. serving'[1] = k /\ serving'[2] = m /\ m \in ran'
    BY <1>6
  <2> QED BY <2>2, <2>3, <2>4, <2>5, <2>6 DEF MessagesOk
<1>15. m = <<m[1], m[2]>> /\ m[2] \in 1 .. req[m[1]].id
  BY <1>13, PipeBounds DEF Message, Asked, NnInv, ReqInv, Record
<1> QED BY <1>6, <1>9, <1>10, <1>12, <1>14, <1>15 DEF NnInv

(* The user finds no request; the one in progress is cancelled.             *)
LEMMA RecvNoneStep ==
  ASSUME NnInv, nn_rep_recv, fq = <<>>, ran' = ran \cup Taken, UNCHANGED <<req, lb>>
  PROVE  NnInv' /\ ran' = ran
<1>1. /\ serving' = None /\ UNCHANGED <<conn, fq, req, lb>>
      /\ faults' \in 0 .. MaxFaults
  BY FaultCounted DEF nn_rep_recv, NnInv, NetTypes
<1>2. ran' = ran
  BY <1>1 DEF Taken
<1>3. NetTypes'
  BY <1>1, <1>2 DEF NnInv, NetTypes
<1>4. NoHandover /\ ReqInv'
  BY <1>1, ReqSide DEF NnInv, NetTypes
<1>5. QueuesOk'
  BY <1>1 DEF NnInv, QueuesOk, Conns
<1>6. MessagesOk'
  BY <1>1, <1>2, <1>3, <1>4, MessagesKept DEF NnInv
<1> QED BY <1>2, <1>3, <1>4, <1>5, <1>6 DEF NnInv

(* The user answers: the reply goes to the request's pipe, or nowhere.      *)
LEMMA SendStep ==
  ASSUME NnInv, nn_rep_send, UNCHANGED <<req, lb, ran>>
  PROVE  NnInv'
<1>1. PICK k \in Conn, m \in Message :
        /\ k = serving[1] /\ m = serving[2] /\ Asked(conn[k].client, m) /\ m \in ran
  BY DEF nn_rep_send, NnInv, NetTypes, MessagesOk
<1>2. /\ serving' = None /\ UNCHANGED <<faults, fq, req, lb, ran>>
      /\ conn' = IF conn[k].atRep /\ conn[k].out THEN SentDown(k, m) ELSE conn
  BY <1>1 DEF nn_rep_send, ReplyPipe
<1>3. PICK d \in Seq(Message) :
        /\ \/ conn' = [conn EXCEPT ![k].down = d, ![k].out = FALSE]
           \/ conn' = conn /\ d = conn[k].down
        /\ Len(d) <= MaxFlight /\ Queued(d) \subseteq Queued(conn[k].down) \cup {m}
  <2>1. /\ conn[k].down \in Seq(Message) /\ Len(conn[k].down) <= MaxFlight
        /\ Len(conn[k].down) \in Nat /\ MaxFlight \in Nat
        /\ conn[k].out => Len(conn[k].down) < MaxFlight
    BY PipeFields, PipeBounds DEF NnInv, QueuesOk
  <2>2. PICK v \in Seq(Message) :
          /\ v = Append(conn[k].down, m) /\ Len(v) = Len(conn[k].down) + 1
          /\ Queued(v) = Queued(conn[k].down) \cup {m}
    <3>1. conn[k].down \in Seq(Message)
      BY <2>1
    <3> QED BY <3>1, AppendItems, ZenonT(30)
  <2>3. CASE conn[k].atRep /\ conn[k].out
    <3>1. \/ conn' = [conn EXCEPT ![k].down = v, ![k].out = FALSE]
          \/ conn' = [conn EXCEPT ![k].down = conn[k].down, ![k].out = FALSE]
      BY <1>2, <2>2, <2>3 DEF SentDown
    <3>2. Len(v) <= MaxFlight
      BY <2>1, <2>2, <2>3
    <3> QED BY <2>1, <2>2, <3>1, <3>2
  <2>4. CASE ~(conn[k].atRep /\ conn[k].out)
    BY <1>2, <2>1, <2>4
  <2> QED BY <2>3, <2>4
<1>4. /\ conn' \in [Conn -> Pipe]
      /\ \A j \in Conn : /\ conn'[j].client = conn[j].client
                         /\ conn'[j].atReq = conn[j].atReq
                         /\ conn'[j].up = conn[j].up
                         /\ j # k => conn'[j] = conn[j]
      /\ conn'[k].down = d /\ (conn'[k].out => conn' = conn)
  <2>1. CASE conn' = [conn EXCEPT ![k].down = d, ![k].out = FALSE]
    <3>1. PICK p : p = [conn[k] EXCEPT !.down = d, !.out = FALSE]
      OBVIOUS
    <3>2. /\ p.client = conn[k].client /\ p.atReq = conn[k].atReq
          /\ p.up = conn[k].up /\ p.down = d /\ ~p.out /\ p \in Pipe
      BY <3>1, PipeFields DEF NnInv, Pipe
    <3>3. conn' = [conn EXCEPT ![k] = p]
      BY <2>1, <3>1, PipeFields DEF NnInv, Pipe
    <3> QED BY <3>2, <3>3, PipeSet DEF NnInv
  <2>2. CASE conn' = conn /\ d = conn[k].down
    BY <2>2 DEF NnInv, NetTypes
  <2> QED BY <1>3, <2>1, <2>2
<1>5. NetTypes'
  BY <1>2, <1>4 DEF NnInv, NetTypes
<1>6. /\ ReqInv' /\ NoHandover
      /\ \A e \in Client : Conns(e)' = Conns(e)
  BY <1>2, <1>4, ReqSide
<1>7. QueuesOk'
  <2>1. \A j \in Queued(fq) : j \in Conn
    BY FairPipes DEF NnInv
  <2>2. \A e \in Client : \A j \in Queued(lb[e]) :
          j \in Conns(e) /\ j \in Conn /\ Len(conn[j].up) < MaxFlight
    BY DEF NnInv, QueuesOk, Conns
  <2>3. \A j \in Conn :
          /\ Len(conn'[j].up) <= MaxFlight /\ Len(conn'[j].down) <= MaxFlight
          /\ conn'[j].out => Len(conn'[j].down) < MaxFlight
    BY <1>3, <1>4 DEF NnInv, QueuesOk
  <2> QED BY <1>2, <1>4, <1>6, <2>1, <2>2, <2>3 DEF NnInv, QueuesOk
<1>8. MessagesOk'
  <2>1. \A j \in Conn : Queued(conn[j].up) \cup Queued(conn[j].down) \subseteq Message
    BY UnderWay DEF NnInv
  <2>2. ASSUME NEW j \in Conn, NEW n \in Queued(conn'[j].up)
        PROVE  Asked(conn[j].client, n)'
    BY <1>4, <1>6, <2>1, StillAsked DEF NnInv, MessagesOk
  <2>3. ASSUME NEW j \in Conn, NEW n \in Queued(conn'[j].down)
        PROVE  Asked(conn[j].client, n)' /\ n \in ran'
    <3>1. CASE j = k /\ n = m
      BY <1>1, <1>2, <1>6, <3>1, StillAsked
    <3>2. CASE ~(j = k /\ n = m)
      <4>1. n \in Queued(conn[j].down)
        BY <1>3, <1>4, <2>3, <3>2
      <4> QED BY <1>2, <1>6, <2>1, <4>1, StillAsked DEF NnInv, MessagesOk
    <3> QED BY <3>1, <3>2
  <2>4. ASSUME NEW n \in ran' PROVE Asked(n[1], n)'
    BY <1>2, <1>6, StillAsked DEF NnInv, MessagesOk, NetTypes
  <2> QED BY <1>2, <2>2, <2>3, <2>4 DEF MessagesOk
<1> QED BY <1>5, <1>6, <1>7, <1>8 DEF NnInv

-----------------------------------------------------------------------------
(* The invariant                                                            *)

LEMMA InitNnInv == Init => NnInv
<1> SUFFICES ASSUME Init PROVE NnInv
  OBVIOUS
<1> USE DEF Init, PipesInit, ReqInit, RepInit
<1>1. <<>> \in Seq(Message) /\ <<>> \in Seq(Conn)
  BY EmptySeq
<1>2. Unused \in Pipe
  BY <1>1 DEF Unused, Pipe
<1>3. conn \in [Conn -> Pipe] /\ \A k \in Conn : conn[k] = Unused
  BY <1>2
<1>4. NetTypes
  BY <1>1, <1>3, PipeBounds DEF NetTypes, None
<1>5. ReqInv
  <2>1. ASSUME NEW c \in Client
        PROVE  Good(req[c], Conns(c)) /\ req[c].id <= MaxRequests[c]
    BY PipeBounds DEF Good, Record, ReqStates, NoReply, NoPipe
  <2>2. \A c \in Client : req[c] \in Record
    BY <2>1 DEF Good
  <2> QED BY <2>1, <2>2 DEF ReqInv
<1>6. QueuesOk
  BY <1>3, NoItems, PipeBounds DEF QueuesOk, Unused
<1>7. MessagesOk
  BY <1>3, NoItems DEF MessagesOk, Unused, None
<1> QED BY <1>4, <1>5, <1>6, <1>7 DEF NnInv

LEMMA StepNnInv == NnInv /\ [Next]_nnVars => NnInv'
<1> SUFFICES ASSUME NnInv, [Next]_nnVars PROVE NnInv'
  OBVIOUS
<1>1. ASSUME NEW c \in Client, ReqUser(c) PROVE NnInv'
  <2>1. (nn_req_csend(c) \/ nn_req_crecv(c) \/ nn_req_stop(c)) /\ RepSame
    BY <1>1 DEF ReqUser, RepSame
  <2>2. Moves(c, Conns(c)) /\ MaySend(c) /\ faults' = faults
    BY <2>1, UserMoves
  <2>3. faults' \in 0 .. MaxFaults
    BY <2>2 DEF NnInv, NetTypes
  <2> QED BY <2>1, <2>2, <2>3, ReqStep
<1>2. ASSUME NEW c \in Client, ReqWorker(c) PROVE NnInv'
  <2>1. RepSame
    BY <1>2 DEF ReqWorker, RepSame
  <2>2. CASE Timeout(c, Quiet(c)) \/ TimerStopped(c)
    BY <2>1, <2>2, WorkerMoves, ReqStep
  <2>3. ASSUME NEW k \in Conn, nn_req_out(c, k) PROVE NnInv'
    BY <2>1, <2>3, OutStep
  <2>4. ASSUME NEW k \in Conn, nn_req_in(c, k) PROVE NnInv'
    BY <2>1, <2>4, InStep
  <2> QED BY <1>2, <2>2, <2>3, <2>4 DEF ReqWorker
<1>3. ASSUME NEW c \in Client, Connect(c) PROVE NnInv'
  BY <1>3, ConnectStep
<1>4. ASSUME NEW c \in Client, NEW k \in Conn, ReqEnd(c, k) PROVE NnInv'
  BY <1>4, ReqEndStep
<1>5. ASSUME RepUser PROVE NnInv'
  BY <1>5, RecvStep, RecvNoneStep, SendStep DEF RepUser
<1>6. ASSUME NEW k \in Conn, RepWorker(k) PROVE NnInv'
  BY <1>6, RepInStep, RepOutStep DEF RepWorker
<1>7. ASSUME NEW k \in Conn, RepEnd(k) PROVE NnInv'
  BY <1>7, RepEndStep
<1>8. CASE UNCHANGED nnVars
  BY <1>8 DEF nnVars, NnInv, ReqInv, NetTypes, QueuesOk, MessagesOk, Asked, Conns
<1> QED BY <1>1, <1>2, <1>3, <1>4, <1>5, <1>6, <1>7, <1>8 DEF Next

THEOREM NnInvariant == Spec => []NnInv
BY InitNnInv, StepNnInv, PTL DEF Spec

(* ReqRepTypes: the types of the sockets' variables, and that no more       *)
(* messages are under way on a connection than fit into it.                 *)
THEOREM ReqRepTypes == Spec => []ReqRepTypeOK
<1>1. NnInv => ReqRepTypeOK
  <2> SUFFICES ASSUME NnInv PROVE ReqRepTypeOK
    OBVIOUS
  <2>1. PipesTypeOK
    BY DEF PipesTypeOK, NnInv, NetTypes, QueuesOk, Pipe
  <2>2. \A c \in Client : req[c].reply <= req[c].id /\ req[c].id <= MaxRequests[c]
    BY DEF NnInv, ReqInv, Good
  <2> QED BY <2>1, <2>2 DEF ReqRepTypeOK, NnInv, NetTypes, ReqInv, Record
<1> QED BY <1>1, NnInvariant, PTL

(* ExpectedEvents: the state machine of a REQ socket takes no event that it *)
(* does not expect (nn_fsm_bad_action, req.c:361-615).                      *)
THEOREM ExpectedEvents == Spec => []NoBadAction
<1>1. NnInv => NoBadAction
  BY DEF NnInv, ReqInv, Good, NoBadAction
<1> QED BY <1>1, NnInvariant, PTL

(* TimersFit: the timer runs, and the pipe of the request is known and      *)
(* there, exactly while the request is on its way (req.c:637-676).          *)
THEOREM TimersFit == Spec => []TimerFits
<1>1. NnInv => TimerFits
  BY DEF NnInv, ReqInv, Good, TimerFits, Is
<1> QED BY <1>1, NnInvariant, PTL

(* RepliesToAskers: a reply travels on a connection of the client that      *)
(* asked (xrep.c:154-187).                                                  *)
THEOREM RepliesToAskers == Spec => []OwnReplies
<1>1. NnInv => OwnReplies
  BY DEF NnInv, MessagesOk, Asked, OwnReplies, Queued
<1> QED BY <1>1, NnInvariant, PTL

-----------------------------------------------------------------------------
(* The refinement                                                           *)

PhaseOf(s) ==
  IF s = "PASSIVE" THEN "none"
  ELSE IF s \in Answered THEN "answered"
  ELSE IF s \in Closed THEN "closed" ELSE "waiting"

LEMMA PhaseNow == ASSUME NEW c PROVE Phase(c) = PhaseOf(req[c].state)
BY Zenon DEF Phase, PhaseOf, Is, Answered, Closed

LEMMA PhaseThen == ASSUME NEW c PROVE Phase(c)' = PhaseOf(req'[c].state)
BY Zenon DEF Phase, PhaseOf, Is, Answered, Closed

(* A step of a REQ socket is one of AtLeastOnce, or not seen there.         *)
LEMMA MovesPromise ==
  ASSUME NnInv, NEW c \in Client, NEW P, Moves(c, P), ran' = ran
  PROVE  [Promise!Next]_(Promise!vars)
<1> DEFINE newest == [d \in Client |-> req[d].id]
           phase  == [d \in Client |-> Phase(d)]
<1>1. PICK r \in Record :
        /\ req' = [req EXCEPT ![c] = r] /\ Good(r, P)
        /\ r.id <= MaxRequests[c] /\ Legal(c, r)
  BY DEF Moves
<1>2. /\ req'[c] = r /\ \A d \in Client \ {c} : req'[d] = req[d]
      /\ req[c] \in Record /\ req[c].id \in Nat /\ MaxRequests[c] \in Nat
      /\ r.state \in ReqStates \ {"bad"} /\ req[c].state \in ReqStates \ {"bad"}
  BY <1>1, PipeBounds DEF NnInv, ReqInv, Good, Record
<1>3. /\ newest' = [newest EXCEPT ![c] = r.id]
      /\ phase' = [phase EXCEPT ![c] = PhaseOf(r.state)]
      /\ newest[c] = req[c].id /\ phase[c] = PhaseOf(req[c].state)
  <2>1. \A d \in Client : Phase(d)' = PhaseOf(req'[d].state) /\ Phase(d) = PhaseOf(req[d].state)
    BY PhaseNow, PhaseThen
  <2> QED BY <1>2, <2>1
<1>4. CASE r.id = req[c].id + 1 /\ r.state \in Waiting /\ req[c].state \notin Closed
  <2>1. PhaseOf(r.state) = "waiting" /\ PhaseOf(req[c].state) # "closed"
    BY <1>4 DEF PhaseOf, Waiting, Answered, Closed
  <2>2. req[c].id < MaxRequests[c]
    BY <1>1, <1>2, <1>4
  <2>3. Promise!Submit(c)
    BY <1>3, <1>4, <2>1, <2>2 DEF Promise!Submit
  <2> QED BY <2>3 DEF Promise!Next
<1>5. CASE r.id = req[c].id /\ SamePhase(req[c].state, r.state)
  <2>1. PhaseOf(r.state) = PhaseOf(req[c].state)
    BY <1>5 DEF PhaseOf, SamePhase
  <2>2. newest' = newest /\ phase' = phase
    BY <1>3, <1>5, <2>1
  <2> QED BY <2>2 DEF Promise!vars
<1>6. CASE r.id = req[c].id /\ req[c].state \in Answered /\ r.state = "PASSIVE"
  <2>1. PhaseOf(r.state) = "none" /\ PhaseOf(req[c].state) = "answered"
    BY <1>6 DEF PhaseOf, Answered
  <2>2. newest' = newest
    BY <1>3, <1>6
  <2>3. Promise!Take(c)
    BY <1>3, <2>1, <2>2 DEF Promise!Take
  <2> QED BY <2>3 DEF Promise!Next
<1>7. CASE r.id = req[c].id /\ req[c].state \notin Closed /\ r.state \in Closed
  <2>1. PhaseOf(r.state) = "closed" /\ PhaseOf(req[c].state) # "closed"
    BY <1>7 DEF PhaseOf, Answered, Closed
  <2>2. newest' = newest
    BY <1>3, <1>7
  <2>3. Promise!Close(c)
    BY <1>3, <2>1, <2>2 DEF Promise!Close
  <2> QED BY <2>3 DEF Promise!Next
<1>8. CASE /\ r.id = req[c].id /\ req[c].state \in Waiting /\ r.state \in Answered
           /\ <<c, r.id>> \in ran
  <2>1. PhaseOf(r.state) = "answered" /\ PhaseOf(req[c].state) = "waiting"
    BY <1>8 DEF PhaseOf, Waiting, Answered, Closed
  <2>2. newest' = newest
    BY <1>3, <1>8
  <2>3. Promise!Deliver(c)
    BY <1>3, <1>8, <2>1, <2>2 DEF Promise!Deliver
  <2> QED BY <2>3 DEF Promise!Next
<1> QED BY <1>1, <1>4, <1>5, <1>6, <1>7, <1>8 DEF Legal

(* The REQ sockets' requests are left alone. *)
LEMMA SamePromise ==
  ASSUME req' = req
  PROVE  /\ [c \in Client |-> req[c].id]' = [c \in Client |-> req[c].id]
         /\ [c \in Client |-> Phase(c)]' = [c \in Client |-> Phase(c)]
<1>1. \A c \in Client : Phase(c)' = Phase(c)
  BY PhaseNow, PhaseThen
<1> QED BY <1>1

(* KeepsPromise: the sockets implement AtLeastOnce: an answer is delivered  *)
(* for the newest request only, once, and after that request was run.       *)
THEOREM KeepsPromise == Spec => AnswersAtLeastOnce
<1>1. Init => Promise!Init
  <2> SUFFICES ASSUME Init PROVE Promise!Init
    OBVIOUS
  <2>1. \A c \in Client : req[c].id = 0 /\ req[c].state = "PASSIVE"
    BY DEF Init, ReqInit
  <2>2. \A c \in Client : Phase(c) = "none"
    BY <2>1, PhaseNow DEF PhaseOf
  <2> QED BY <2>1, <2>2 DEF Promise!Init, Init
<1>2. NnInv /\ [Next]_nnVars => [Promise!Next]_(Promise!vars)
  <2> SUFFICES ASSUME NnInv, [Next]_nnVars PROVE [Promise!Next]_(Promise!vars)
    OBVIOUS
  <2>1. ASSUME NEW c \in Client, ReqUser(c) PROVE [Promise!Next]_(Promise!vars)
    BY <2>1, UserMoves, MovesPromise DEF ReqUser
  <2>2. CASE req' = req /\ ran' = ran
    BY <2>2, SamePromise DEF Promise!vars
  <2>3. ASSUME NEW c \in Client, ReqWorker(c) PROVE [Promise!Next]_(Promise!vars)
    <3>1. ran' = ran
      BY <2>3 DEF ReqWorker
    <3>2. CASE Timeout(c, Quiet(c)) \/ TimerStopped(c)
      BY <3>1, <3>2, WorkerMoves, MovesPromise
    <3>3. ASSUME NEW k \in Conn, nn_req_out(c, k)
          PROVE  [Promise!Next]_(Promise!vars)
      BY <2>2, <3>1, <3>3, OutMoves, MovesPromise
    <3>4. ASSUME NEW k \in Conn, nn_req_in(c, k)
          PROVE  [Promise!Next]_(Promise!vars)
      BY <3>1, <3>4, InMoves, MovesPromise
    <3> QED BY <2>3, <3>2, <3>3, <3>4 DEF ReqWorker
  <2>4. ASSUME NEW c \in Client, NEW k \in Conn, ReqEnd(c, k)
        PROVE  [Promise!Next]_(Promise!vars)
    BY <2>4, RemoveMoves, MovesPromise DEF ReqEnd
  <2>5. ASSUME RepUser PROVE [Promise!Next]_(Promise!vars)
    <3>1. CASE nn_rep_send /\ UNCHANGED ran
      BY <2>2, <2>5, <3>1 DEF RepUser
    <3>2. CASE nn_rep_recv /\ ran' = ran \cup Taken /\ fq = <<>>
      BY <2>2, <2>5, <3>2, RecvNoneStep DEF RepUser
    <3>3. CASE nn_rep_recv /\ ran' = ran \cup Taken /\ fq # <<>>
      <4>1. req' = req /\ lb' = lb
        BY <2>5 DEF RepUser
      <4>2. PICK m \in Message : /\ ran' = ran \cup {m} /\ m = <<m[1], m[2]>>
                                 /\ m[2] \in 1 .. req[m[1]].id
        BY <3>3, <4>1, RecvStep
      <4>3. m[1] \in Client
        BY DEF Message
      <4>4. Promise!Run(m[1])
        BY <4>1, <4>2, <4>3, SamePromise DEF Promise!Run
      <4> QED BY <4>3, <4>4 DEF Promise!Next
    <3> QED BY <2>5, <3>1, <3>2, <3>3 DEF RepUser
  <2>6. ASSUME NEW c \in Client, Connect(c) PROVE req' = req /\ ran' = ran
    BY <2>6 DEF Connect
  <2>7. ASSUME NEW k \in Conn, RepWorker(k) \/ RepEnd(k) PROVE req' = req /\ ran' = ran
    BY <2>7 DEF RepWorker, RepEnd
  <2>8. CASE UNCHANGED nnVars
    BY <2>2, <2>8 DEF nnVars
  <2> QED BY <2>1, <2>2, <2>3, <2>4, <2>5, <2>6, <2>7, <2>8 DEF Next
<1> QED BY <1>1, <1>2, NnInvariant, PTL DEF Spec, AnswersAtLeastOnce, Promise!Spec
=============================================================================
