--------------------------- MODULE NnContextProofs --------------------------
(***************************************************************************)
(* What endpoints (ep.c, binproc.c, cinproc.c, ins.c) and sockets (sock.c) *)
(* do within a context of NnGlobal keeps the invariant of NnSessionProofs, *)
(* and so do the handling of any event and nn_ctx_leave's loop over        *)
(* ctx->events (ctx.c). Each of them is a Turn as well.                    *)
(***************************************************************************)
EXTENDS NnSessionProofs

-----------------------------------------------------------------------------
(* Endpoints change, and the registry of addresses (ep.c, ins.c)           *)

(* An endpoint is well typed, and its base fits its state.                 *)
LEMMA EpOf ==
  ASSUME NEW s, Good(s), NEW e \in Endpoint
  PROVE  s.ep[e] \in EpType /\ EpFits(s.ep[e])
BY DEF Good, ProcType, Bases

(* Its sessions stay with it.                                              *)
Houses(s, e, r) ==
  s.abort = "no" =>
    /\ InUse(r) => InUse(s.ep[e])
    /\ \A q \in Session : ~Blank(s.sess[q]) /\ s.sess[q].ep = e => HousedAt(r, q)

(* An endpoint in the same state of life houses the sessions it housed.    *)
LEMMA HousesKept ==
  ASSUME NEW s, Good(s), NEW e \in Endpoint, NEW r, r.sessions = s.ep[e].sessions,
         r.kind = s.ep[e].kind, InUse(r) <=> InUse(s.ep[e])
  PROVE  Houses(s, e, r)
BY DEF Houses, Good, Life, Housed, HousedAt

(* Replacing an endpoint is a step if it loses no session, is not freed    *)
(* under an address and keeps its kind.                                    *)
LEMMA EpStep ==
  ASSUME NEW s, Good(s), NEW e \in Endpoint, NEW r \in EpType, EpFits(r),
         r.sock = s.ep[e].sock, s.ep[e].st = "FREED" => r.st = "FREED",
         r.st = "NONE" => s.ep[e].st = "NONE",
         r.kind = s.ep[e].kind \/ r.st = "FREED",
         s.bound = e \/ e \in s.connected => r.st = s.ep[e].st /\ r.kind = s.ep[e].kind,
         Houses(s, e, r)
  PROVE  Step(s, [s EXCEPT !.ep[e] = r])
<1> DEFINE u == [s EXCEPT !.ep[e] = r]
           S == [s.ep EXCEPT ![e] = r]
<1>1. u \in ProcType
  <2>1. S \in [Endpoint -> EpType]
    BY DEF Good, ProcType
  <2> HIDE DEF S
  <2>2. [s EXCEPT !.ep = S] \in ProcType
    BY <2>1 DEF Good, ProcType
  <2> QED
    BY <2>2 DEF S
<1>2. /\ u.overlap = s.overlap /\ u.glock = s.glock /\ u.term = s.term /\ u.table = s.table
      /\ u.unused = s.unused /\ u.nsocks = s.nsocks /\ u.th = s.th /\ u.pend = s.pend
      /\ u.hand = s.hand /\ u.sess = s.sess /\ u.sock = s.sock
      /\ u.bound = s.bound /\ u.connected = s.connected /\ u.eventsto = s.eventsto
      /\ u.abort = s.abort /\ u.events = s.events
      /\ u.ep[e] = r /\ \A x \in Endpoint \ {e} : u.ep[x] = s.ep[x]
  BY DEF ProcType, Good
<1> HIDE DEF u
<1>3. Peers(u) /\ Homes(u)
  BY <1>2 DEF Good, Peers, Homes
<1>4. Bases(u)
  BY <1>2 DEF Good, Bases
<1>5. Addressed(u)
  <2>1. s.bound \in Endpoint \cup {0} /\ s.connected \subseteq Endpoint
    BY DEF Good, ProcType
  <2> QED
    BY <1>2, <2>1 DEF Good, Addressed
<1>6. AllFit(u)
  <2>1. \A x \in Endpoint : \/ u.ep[x].kind = s.ep[x].kind /\ (s.ep[x].st = "FREED" => u.ep[x].st = "FREED")
                            \/ u.ep[x].st = "FREED"
    BY <1>2
  <2>2. ASSUME NEW v \in ToEvent, Fits(s, v) PROVE Fits(u, v)
    BY <2>1, <2>2, FitsMono
  <2>3. s.eventsto \in Seq(ToEvent) /\ s.pend \in [Thread -> Seq(ToEvent)] /\ s.hand \in [Thread -> Seq(ToEvent)]
    BY DEF Good, ProcType
  <2>4. /\ \A i \in DOMAIN s.eventsto : s.eventsto[i] \in ToEvent
        /\ \A t \in Thread : \A i \in DOMAIN s.pend[t] : s.pend[t][i] \in ToEvent
        /\ \A t \in Thread : \A i \in DOMAIN s.hand[t] : s.hand[t][i] \in ToEvent
    BY <2>3
  <2> QED
    BY <2>2, <2>4, <1>2 DEF Good, AllFit
<1>7. FreedClean(u) /\ Life(u)
  <2>1. \A x \in Endpoint : u.ep[x].sock = s.ep[x].sock /\ (s.ep[x].st = "FREED" => u.ep[x].st = "FREED")
    BY <1>2
  <2>2. FreedClean(u)
    BY <1>2, <2>1 DEF Good, FreedClean
  <2>3. s.abort = "no" => Owned(u)
    <3>1. \A x \in Endpoint : s.abort = "no" /\ InUse(u.ep[x]) => InUse(s.ep[x])
      BY <1>2 DEF Houses
    <3> QED
      BY <3>1, <2>1, <1>2 DEF Good, Life, Owned
  <2>4. s.abort = "no" => Housed(u)
    <3> SUFFICES ASSUME s.abort = "no", NEW q \in Session, ~Blank(u.sess[q])
                 PROVE  HousedAt(u.ep[u.sess[q].ep], q)
      BY DEF Housed
    <3>1. u.sess[q] = s.sess[q] /\ s.sess[q].ep \in Endpoint
      <4>1. s.sess[q] \in SessType
        BY SessOf
      <4> QED
        BY <1>2, <4>1 DEF SessType
    <3>2. CASE s.sess[q].ep = e
      BY <3>1, <3>2, <1>2 DEF Houses
    <3>3. CASE s.sess[q].ep # e
      BY <3>1, <3>3, <1>2 DEF Good, Life, Housed
    <3> QED
      BY <3>2, <3>3
  <2>6. s.abort = "no" => Unmade(u)
    BY <1>2 DEF Good, Life, Unmade
  <2>5. Life(u)
    BY <2>3, <2>4, <2>6, <1>2 DEF Good, Life, Bare
  <2> QED
    BY <2>2, <2>5
<1>9. Flow(u)
  BY <1>2, FlowSame DEF Good, SameQueues
<1>8. Step(s, u)
  BY <1>1, <1>2, <1>3, <1>4, <1>5, <1>6, <1>7, <1>9 DEF Step, Good, Kept
<1> QED
  BY <1>8 DEF u

(* The state of binproc or cinproc may change while its endpoint is in     *)
(* use.                                                                    *)
LEMMA SetBaseStep ==
  ASSUME NEW s, Good(s), NEW e \in Endpoint, NEW x \in BaseState,
         x \in {"ACTIVE", "DISCONNECTED"} => s.ep[e].st = "ACTIVE", s.ep[e].st # "NONE"
  PROVE  /\ Step(s, [s EXCEPT !.ep[e].base = x])
         /\ [s EXCEPT !.ep[e].base = x].ep[e].base = x
         /\ [s EXCEPT !.ep[e].base = x].ep[e].st = s.ep[e].st
         /\ [s EXCEPT !.ep[e].base = x].ep[e].kind = s.ep[e].kind
<1> DEFINE r == [s.ep[e] EXCEPT !.base = x]
           u == [s EXCEPT !.ep[e] = r]
<1>1. s.ep[e] \in EpType /\ EpFits(s.ep[e])
  BY EpOf
<1>2. r \in EpType /\ r.sock = s.ep[e].sock /\ r.st = s.ep[e].st /\ r.kind = s.ep[e].kind /\ r.base = x
      /\ r.sessions = s.ep[e].sessions
  BY <1>1 DEF EpType
<1>3. EpFits(r)
  BY <1>1, <1>2 DEF EpFits
<1>4. u.ep[e] = r
  BY DEF Good, ProcType
<1> HIDE DEF r
<1>5. Step(s, u)
  BY <1>2, <1>3, EpStep, HousesKept DEF InUse
<1> HIDE DEF u
<1>6. u = [s EXCEPT !.ep[e].base = x]
  BY DEF r, u
<1> QED
  BY <1>2, <1>4, <1>5, <1>6

(* The registry of ins.c may name active endpoints of the right kind.      *)
LEMMA AddressStep ==
  ASSUME NEW s, Good(s), NEW b \in Endpoint \cup {0}, NEW C \in SUBSET Endpoint,
         b # 0 => s.ep[b].st = "ACTIVE" /\ s.ep[b].kind = "bind",
         \A e \in C : s.ep[e].st = "ACTIVE" /\ s.ep[e].kind = "connect"
  PROVE  Step(s, [s EXCEPT !.bound = b, !.connected = C])
<1> DEFINE u == [s EXCEPT !.bound = b, !.connected = C]
<1>1. u \in ProcType
  BY DEF Good, ProcType
<1>2. /\ u.overlap = s.overlap /\ u.glock = s.glock /\ u.term = s.term /\ u.table = s.table
      /\ u.unused = s.unused /\ u.nsocks = s.nsocks /\ u.th = s.th /\ u.pend = s.pend
      /\ u.hand = s.hand /\ u.sess = s.sess /\ u.sock = s.sock /\ u.ep = s.ep
      /\ u.bound = b /\ u.connected = C /\ u.eventsto = s.eventsto
      /\ u.abort = s.abort /\ u.events = s.events
  BY DEF ProcType, Good
<1> HIDE DEF u
<1>3. Peers(u) /\ Homes(u)
  BY <1>2 DEF Good, Peers, Homes
<1>4. Bases(u)
  BY <1>2 DEF Good, Bases
<1>5. Addressed(u)
  BY <1>2 DEF Addressed
<1>6. AllFit(u)
  <2>1. \A w : Fits(u, w) <=> Fits(s, w)
    BY <1>2 DEF Fits
  <2> QED
    BY <2>1, <1>2 DEF Good, AllFit
<1>7. FreedClean(u) /\ Life(u)
  BY <1>2, LifeSame DEF Good, FreedClean
<1>9. Flow(u)
  BY <1>2, FlowSame DEF Good, SameQueues
<1>8. Step(s, u)
  BY <1>1, <1>2, <1>3, <1>4, <1>5, <1>6, <1>7, <1>9 DEF Step, Good, Kept
<1> QED
  BY <1>8 DEF u

(* nn_ins_unbind is a step.                                                *)
LEMMA UnbindStep ==
  ASSUME NEW s, Good(s)
  PROVE  Step(s, nn_ins_unbind(s))
<1>1. 0 \in Endpoint \cup {0} /\ s.connected \in SUBSET Endpoint
  BY DEF Good, ProcType
<1>2. Step(s, [s EXCEPT !.bound = 0, !.connected = s.connected])
  BY <1>1, AddressStep DEF Good, Addressed
<1>3. [s EXCEPT !.bound = 0, !.connected = s.connected] = nn_ins_unbind(s)
  BY DEF nn_ins_unbind, Good, ProcType
<1> QED
  BY <1>2, <1>3

(* nn_ins_disconnect is a step.                                            *)
LEMMA DisconnectInsStep ==
  ASSUME NEW s, Good(s), NEW e \in Endpoint
  PROVE  Step(s, nn_ins_disconnect(s, e))
<1> DEFINE C == s.connected \ {e}
<1>1. s.bound \in Endpoint \cup {0} /\ C \in SUBSET Endpoint
  BY DEF Good, ProcType
<1>2. \A x \in C : s.ep[x].st = "ACTIVE" /\ s.ep[x].kind = "connect"
  BY DEF Good, Addressed
<1>3. [s EXCEPT !.bound = s.bound, !.connected = C] = nn_ins_disconnect(s, e)
  BY DEF nn_ins_disconnect, Good, ProcType
<1> HIDE DEF C
<1>4. Step(s, [s EXCEPT !.bound = s.bound, !.connected = C])
  BY <1>1, <1>2, AddressStep DEF Good, Addressed
<1> QED
  BY <1>3, <1>4

-----------------------------------------------------------------------------
(* The loops over endpoints and sessions                                   *)

(* The loop of nn_ins_bind over the connected endpoints stays in any set   *)
(* its body stays in.                                                      *)
LEMMA BindLoop ==
  ASSUME NEW S, NEW s, NEW e, [s EXCEPT !.bound = e] \in S,
         \A u \in S, c \in Endpoint : c \in s.connected => Found(u, e, c) \in S
  PROVE  \E u \in S : nn_ins_bind(s, e) = u
<1> DEFINE b == [s EXCEPT !.bound = e]
           E == s.connected
           G(u, n) == IF n \in E /\ n \in Endpoint THEN Found(u, e, n) ELSE u
           IsRun(f) == f = [n \in 0 .. MaxEndpoints |->
                             IF n = 0 THEN b
                             ELSE IF n \in E THEN Found(f[n - 1], e, n) ELSE f[n - 1]]
           run == CHOOSE f : IsRun(f)
<1>0. PICK F \in [S \X Nat -> S] : \A u \in S, n \in Nat : F[<<u, n>>] = G(u, n)
  <2> DEFINE F == [x \in S \X Nat |-> G(x[1], x[2])]
  <2>1. \A u \in S, n \in Nat : G(u, n) \in S
    OBVIOUS
  <2> HIDE DEF G, b, E
  <2>2. F \in [S \X Nat -> S]
    BY <2>1
  <2>3. \A u \in S, n \in Nat : F[<<u, n>>] = G(u, n)
    OBVIOUS
  <2> QED
    BY <2>2, <2>3
<1>1. nn_ins_bind(s, e) = run[MaxEndpoints]
  BY Zenon DEF nn_ins_bind, ForEach
<1>2. \A u \in S, c \in Endpoint : c \in E => Found(u, e, c) \in S
  OBVIOUS
<1>3. b \in S
  OBVIOUS
<1> HIDE DEF b, E
<1>4. LoopBody(F, S) /\ MaxEndpoints \in Nat
  BY <1>0, InprocBounds DEF LoopBody
<1>5. PICK f : LoopRun(f, S, b, F, MaxEndpoints)
  <2>1. \E f : LoopRun(f, S, b, F, MaxEndpoints)
    BY <1>3, <1>4, LoopExists
  <2> QED
    BY <2>1
<1>6. /\ f \in [0 .. MaxEndpoints -> S]
      /\ \A n \in 0 .. MaxEndpoints : f[n] = IF n = 0 THEN b ELSE F[<<f[n - 1], n>>]
  BY <1>5 DEF LoopRun
<1>7. ASSUME NEW n \in 0 .. MaxEndpoints
      PROVE  f[n] = IF n = 0 THEN b ELSE IF n \in E THEN Found(f[n - 1], e, n) ELSE f[n - 1]
  <2>1. CASE n = 0
    BY <2>1, <1>6
  <2>2. CASE n # 0
    <3>1. f[n] = F[<<f[n - 1], n>>] /\ n \in Nat /\ n - 1 \in 0 .. MaxEndpoints /\ n \in Endpoint
      BY <2>2, <1>6, <1>4 DEF Endpoint
    <3>2. f[n - 1] \in S
      BY <3>1, <1>6
    <3>3. F[<<f[n - 1], n>>] = G(f[n - 1], n)
      BY <3>1, <3>2, <1>0
    <3>4. f[n] = G(f[n - 1], n)
      BY <3>1, <3>3
    <3> QED
      BY <3>1, <3>4, <2>2
  <2> QED
    BY <2>1, <2>2
<1>8. IsRun(run)
  <2>1. f = [n \in 0 .. MaxEndpoints |->
               IF n = 0 THEN b ELSE IF n \in E THEN Found(f[n - 1], e, n) ELSE f[n - 1]]
    BY <1>6, <1>7
  <2>2. IsRun(f)
    BY <2>1, Zenon
  <2> QED
    BY <2>2, Zenon
<1>9. \A n \in 0 .. MaxEndpoints :
        run[n] = IF n = 0 THEN b ELSE IF n \in E THEN Found(run[n - 1], e, n) ELSE run[n - 1]
  <2>1. run = [n \in 0 .. MaxEndpoints |->
                 IF n = 0 THEN b ELSE IF n \in E THEN Found(run[n - 1], e, n) ELSE run[n - 1]]
    BY <1>8, Zenon
  <2> HIDE DEF run
  <2> QED
    BY <2>1, Zenon
<1> HIDE DEF run, IsRun, G
<1> DEFINE T == {n \in Nat : n \in 0 .. MaxEndpoints => run[n] \in S}
<1>10. 0 \in T
  <2>1. 0 \in 0 .. MaxEndpoints
    BY <1>4
  <2> QED
    BY <2>1, <1>3, <1>9
<1>11. ASSUME NEW n \in Nat, n \in T PROVE n + 1 \in T
  <2> SUFFICES ASSUME n + 1 \in 0 .. MaxEndpoints PROVE run[n + 1] \in S
    OBVIOUS
  <2>1. n \in 0 .. MaxEndpoints /\ run[n] \in S /\ n + 1 # 0 /\ (n + 1) - 1 = n /\ n + 1 \in Endpoint
    BY <1>11, <1>4 DEF Endpoint
  <2>2. run[n + 1] = IF n + 1 \in E THEN Found(run[n], e, n + 1) ELSE run[n]
    BY <2>1, <1>9
  <2> QED
    BY <2>1, <2>2, <1>2
<1> HIDE DEF T
<1>12. run[MaxEndpoints] \in S
  <2>1. Nat \subseteq T
    BY <1>10, <1>11, Induction
  <2> QED
    BY <2>1, <1>4 DEF T
<1> QED
  BY <1>1, <1>12, Zenon

(* The loop of nn_binproc_stop over its sessions stays in any set its body *)
(* stays in.                                                               *)
LEMMA StopLoop ==
  ASSUME NEW S, NEW s, NEW e, [nn_ins_unbind(s) EXCEPT !.ep[e].base = "STOPPING"] \in S,
         \A u \in S, c \in Endpoint : c \in {q[2] : q \in s.ep[e].sessions} => nn_sinproc_stop(u, <<"b", c>>) \in S
  PROVE  \E u \in S : nn_binproc_stop(s, e) = IF s.ep[e].lonely THEN Abort(u, "stops_without_peer")
                                               ELSE BinprocStopped(u, e)
<1> DEFINE b == [nn_ins_unbind(s) EXCEPT !.ep[e].base = "STOPPING"]
           E == {q[2] : q \in s.ep[e].sessions}
           G(u, n) == IF n \in E /\ n \in Endpoint THEN nn_sinproc_stop(u, <<"b", n>>) ELSE u
           IsRun(f) == f = [n \in 0 .. MaxEndpoints |->
                             IF n = 0 THEN b
                             ELSE IF n \in E THEN nn_sinproc_stop(f[n - 1], <<"b", n>>) ELSE f[n - 1]]
           run == CHOOSE f : IsRun(f)
<1>0. PICK F \in [S \X Nat -> S] : \A u \in S, n \in Nat : F[<<u, n>>] = G(u, n)
  <2> DEFINE F == [x \in S \X Nat |-> G(x[1], x[2])]
  <2>1. \A u \in S, n \in Nat : G(u, n) \in S
    OBVIOUS
  <2> HIDE DEF G, b, E
  <2>2. F \in [S \X Nat -> S]
    BY <2>1
  <2>3. \A u \in S, n \in Nat : F[<<u, n>>] = G(u, n)
    OBVIOUS
  <2> QED
    BY <2>2, <2>3
<1>1. nn_binproc_stop(s, e) = IF s.ep[e].lonely THEN Abort(run[MaxEndpoints], "stops_without_peer")
                              ELSE BinprocStopped(run[MaxEndpoints], e)
  BY Zenon DEF nn_binproc_stop, ForEach
<1>2. \A u \in S, c \in Endpoint : c \in E => nn_sinproc_stop(u, <<"b", c>>) \in S
  OBVIOUS
<1>3. b \in S
  OBVIOUS
<1> HIDE DEF b, E
<1>4. LoopBody(F, S) /\ MaxEndpoints \in Nat
  BY <1>0, InprocBounds DEF LoopBody
<1>5. PICK f : LoopRun(f, S, b, F, MaxEndpoints)
  <2>1. \E f : LoopRun(f, S, b, F, MaxEndpoints)
    BY <1>3, <1>4, LoopExists
  <2> QED
    BY <2>1
<1>6. /\ f \in [0 .. MaxEndpoints -> S]
      /\ \A n \in 0 .. MaxEndpoints : f[n] = IF n = 0 THEN b ELSE F[<<f[n - 1], n>>]
  BY <1>5 DEF LoopRun
<1>7. ASSUME NEW n \in 0 .. MaxEndpoints
      PROVE  f[n] = IF n = 0 THEN b ELSE IF n \in E THEN nn_sinproc_stop(f[n - 1], <<"b", n>>) ELSE f[n - 1]
  <2>1. CASE n = 0
    BY <2>1, <1>6
  <2>2. CASE n # 0
    <3>1. f[n] = F[<<f[n - 1], n>>] /\ n \in Nat /\ n - 1 \in 0 .. MaxEndpoints /\ n \in Endpoint
      BY <2>2, <1>6, <1>4 DEF Endpoint
    <3>2. f[n - 1] \in S
      BY <3>1, <1>6
    <3>3. F[<<f[n - 1], n>>] = G(f[n - 1], n)
      BY <3>1, <3>2, <1>0
    <3>4. f[n] = G(f[n - 1], n)
      BY <3>1, <3>3
    <3> QED
      BY <3>1, <3>4, <2>2
  <2> QED
    BY <2>1, <2>2
<1>8. IsRun(run)
  <2>1. f = [n \in 0 .. MaxEndpoints |->
               IF n = 0 THEN b ELSE IF n \in E THEN nn_sinproc_stop(f[n - 1], <<"b", n>>) ELSE f[n - 1]]
    BY <1>6, <1>7
  <2>2. IsRun(f)
    BY <2>1, Zenon
  <2> QED
    BY <2>2, Zenon
<1>9. \A n \in 0 .. MaxEndpoints :
        run[n] = IF n = 0 THEN b ELSE IF n \in E THEN nn_sinproc_stop(run[n - 1], <<"b", n>>) ELSE run[n - 1]
  <2>1. run = [n \in 0 .. MaxEndpoints |->
                 IF n = 0 THEN b ELSE IF n \in E THEN nn_sinproc_stop(run[n - 1], <<"b", n>>) ELSE run[n - 1]]
    BY <1>8, Zenon
  <2> HIDE DEF run
  <2> QED
    BY <2>1, Zenon
<1> HIDE DEF run, IsRun, G
<1> DEFINE T == {n \in Nat : n \in 0 .. MaxEndpoints => run[n] \in S}
<1>10. 0 \in T
  <2>1. 0 \in 0 .. MaxEndpoints
    BY <1>4
  <2> QED
    BY <2>1, <1>3, <1>9
<1>11. ASSUME NEW n \in Nat, n \in T PROVE n + 1 \in T
  <2> SUFFICES ASSUME n + 1 \in 0 .. MaxEndpoints PROVE run[n + 1] \in S
    OBVIOUS
  <2>1. n \in 0 .. MaxEndpoints /\ run[n] \in S /\ n + 1 # 0 /\ (n + 1) - 1 = n /\ n + 1 \in Endpoint
    BY <1>11, <1>4 DEF Endpoint
  <2>2. run[n + 1] = IF n + 1 \in E THEN nn_sinproc_stop(run[n], <<"b", n + 1>>) ELSE run[n]
    BY <2>1, <1>9
  <2> QED
    BY <2>1, <2>2, <1>2
<1> HIDE DEF T
<1>12. run[MaxEndpoints] \in S
  <2>1. Nat \subseteq T
    BY <1>10, <1>11, Induction
  <2> QED
    BY <2>1, <1>4 DEF T
<1> QED
  BY <1>1, <1>12, Zenon

(* The endpoints of a socket that is closed, in nn_sock_stop.              *)
SockStopping(s, o) ==
  [s EXCEPT !.sock[o] = [@ EXCEPT !.st = "STOPPING_EPS", !.efd = {}, !.eps = {},
                                  !.sdeps = s.sock[o].sdeps \cup s.sock[o].eps]]

(* The loop of nn_sock_stop over the socket's endpoints stays in any set   *)
(* its body stays in.                                                      *)
LEMMA SockLoop ==
  ASSUME NEW S, NEW s, NEW o, s.sock[o].st \in {"ACTIVE", "ZOMBIE"}, SockStopping(s, o) \in S,
         \A u \in S, c \in Endpoint : c \in s.sock[o].eps => nn_ep_stop(u, c) \in S
  PROVE  \E u \in S : nn_sock_stop(s, o) = SockStopped(u, o)
<1> DEFINE b == SockStopping(s, o)
           E == s.sock[o].eps
           G(u, n) == IF n \in E /\ n \in Endpoint THEN nn_ep_stop(u, n) ELSE u
           IsRun(f) == f = [n \in 0 .. MaxEndpoints |->
                             IF n = 0 THEN b
                             ELSE IF n \in E THEN nn_ep_stop(f[n - 1], n) ELSE f[n - 1]]
           run == CHOOSE f : IsRun(f)
<1>0. PICK F \in [S \X Nat -> S] : \A u \in S, n \in Nat : F[<<u, n>>] = G(u, n)
  <2> DEFINE F == [x \in S \X Nat |-> G(x[1], x[2])]
  <2>1. \A u \in S, n \in Nat : G(u, n) \in S
    OBVIOUS
  <2> HIDE DEF G, b, E
  <2>2. F \in [S \X Nat -> S]
    BY <2>1
  <2>3. \A u \in S, n \in Nat : F[<<u, n>>] = G(u, n)
    OBVIOUS
  <2> QED
    BY <2>2, <2>3
<1>1. nn_sock_stop(s, o) = SockStopped(run[MaxEndpoints], o)
  BY Zenon DEF nn_sock_stop, ForEach, SockStopping
<1>2. \A u \in S, c \in Endpoint : c \in E => nn_ep_stop(u, c) \in S
  OBVIOUS
<1>3. b \in S
  OBVIOUS
<1> HIDE DEF b, E
<1>4. LoopBody(F, S) /\ MaxEndpoints \in Nat
  BY <1>0, InprocBounds DEF LoopBody
<1>5. PICK f : LoopRun(f, S, b, F, MaxEndpoints)
  <2>1. \E f : LoopRun(f, S, b, F, MaxEndpoints)
    BY <1>3, <1>4, LoopExists
  <2> QED
    BY <2>1
<1>6. /\ f \in [0 .. MaxEndpoints -> S]
      /\ \A n \in 0 .. MaxEndpoints : f[n] = IF n = 0 THEN b ELSE F[<<f[n - 1], n>>]
  BY <1>5 DEF LoopRun
<1>7. ASSUME NEW n \in 0 .. MaxEndpoints
      PROVE  f[n] = IF n = 0 THEN b ELSE IF n \in E THEN nn_ep_stop(f[n - 1], n) ELSE f[n - 1]
  <2>1. CASE n = 0
    BY <2>1, <1>6
  <2>2. CASE n # 0
    <3>1. f[n] = F[<<f[n - 1], n>>] /\ n \in Nat /\ n - 1 \in 0 .. MaxEndpoints /\ n \in Endpoint
      BY <2>2, <1>6, <1>4 DEF Endpoint
    <3>2. f[n - 1] \in S
      BY <3>1, <1>6
    <3>3. F[<<f[n - 1], n>>] = G(f[n - 1], n)
      BY <3>1, <3>2, <1>0
    <3>4. f[n] = G(f[n - 1], n)
      BY <3>1, <3>3
    <3> QED
      BY <3>1, <3>4, <2>2
  <2> QED
    BY <2>1, <2>2
<1>8. IsRun(run)
  <2>1. f = [n \in 0 .. MaxEndpoints |->
               IF n = 0 THEN b ELSE IF n \in E THEN nn_ep_stop(f[n - 1], n) ELSE f[n - 1]]
    BY <1>6, <1>7
  <2>2. IsRun(f)
    BY <2>1, Zenon
  <2> QED
    BY <2>2, Zenon
<1>9. \A n \in 0 .. MaxEndpoints :
        run[n] = IF n = 0 THEN b ELSE IF n \in E THEN nn_ep_stop(run[n - 1], n) ELSE run[n - 1]
  <2>1. run = [n \in 0 .. MaxEndpoints |->
                 IF n = 0 THEN b ELSE IF n \in E THEN nn_ep_stop(run[n - 1], n) ELSE run[n - 1]]
    BY <1>8, Zenon
  <2> HIDE DEF run
  <2> QED
    BY <2>1, Zenon
<1> HIDE DEF run, IsRun, G
<1> DEFINE T == {n \in Nat : n \in 0 .. MaxEndpoints => run[n] \in S}
<1>10. 0 \in T
  <2>1. 0 \in 0 .. MaxEndpoints
    BY <1>4
  <2> QED
    BY <2>1, <1>3, <1>9
<1>11. ASSUME NEW n \in Nat, n \in T PROVE n + 1 \in T
  <2> SUFFICES ASSUME n + 1 \in 0 .. MaxEndpoints PROVE run[n + 1] \in S
    OBVIOUS
  <2>1. n \in 0 .. MaxEndpoints /\ run[n] \in S /\ n + 1 # 0 /\ (n + 1) - 1 = n /\ n + 1 \in Endpoint
    BY <1>11, <1>4 DEF Endpoint
  <2>2. run[n + 1] = IF n + 1 \in E THEN nn_ep_stop(run[n], n + 1) ELSE run[n]
    BY <2>1, <1>9
  <2> QED
    BY <2>1, <2>2, <1>2
<1> HIDE DEF T
<1>12. run[MaxEndpoints] \in S
  <2>1. Nat \subseteq T
    BY <1>10, <1>11, Induction
  <2> QED
    BY <2>1, <1>4 DEF T
<1> QED
  BY <1>1, <1>12, Zenon

-----------------------------------------------------------------------------
(* Endpoints connect (binproc.c, cinproc.c, ins.c)                         *)

(* A session may be made where its endpoint houses it and none is alive.   *)
LEMMA NewSessStep ==
  ASSUME NEW s, Good(s), NEW q \in Session, NEW e \in Endpoint,
         HousedAt(s.ep[e], q), q[1] = "c" => e = q[2],
         s.abort = "no" => s.sess[q].st = "NONE"
  PROVE  Step(s, [s EXCEPT !.sess[q] = NewSession(e)])
<1> DEFINE r == NewSession(e)
           u == [s EXCEPT !.sess[q] = r]
           S == [s.sess EXCEPT ![q] = r]
<1>0. /\ r \in SessType /\ r.ep = e /\ r.peer = None /\ r.st = "IDLE"
      /\ ~r.sending /\ ~r.receiving /\ r.queue = <<>> /\ r.msg = <<>> /\ r.sent = 0 /\ r.got = 0
  BY NewSessionType
<1> HIDE DEF r
<1>1. u \in ProcType
  <2>1. S \in [Session -> SessType]
    BY <1>0 DEF Good, ProcType
  <2> HIDE DEF S
  <2>2. [s EXCEPT !.sess = S] \in ProcType
    BY <2>1 DEF Good, ProcType
  <2> QED
    BY <2>2 DEF S
<1>2. /\ u.overlap = s.overlap /\ u.glock = s.glock /\ u.term = s.term /\ u.table = s.table
      /\ u.unused = s.unused /\ u.nsocks = s.nsocks /\ u.th = s.th /\ u.pend = s.pend
      /\ u.hand = s.hand /\ u.ep = s.ep /\ u.sock = s.sock
      /\ u.bound = s.bound /\ u.connected = s.connected /\ u.eventsto = s.eventsto
      /\ u.abort = s.abort /\ u.events = s.events
      /\ u.sess[q] = r /\ \A x \in Session \ {q} : u.sess[x] = s.sess[x]
  BY DEF ProcType, Good
<1> HIDE DEF u
<1>3. Peers(u)
  <2>1. PeerFits(r, q)
    BY <1>0 DEF PeerFits, Blank
  <2> QED
    BY <2>1, <1>2 DEF Good, Peers
<1>4. Homes(u)
  <2> SUFFICES ASSUME NEW x \in Endpoint PROVE u.sess[<<"c", x>>].ep = x
    BY DEF Homes
  <2>1. <<"c", x>> \in Session
    BY DEF Session
  <2> QED
    BY <2>1, <1>0, <1>2 DEF Good, Homes
<1>5. Bases(u) /\ Addressed(u)
  BY <1>2 DEF Good, Bases, Addressed
<1>6. AllFit(u)
  <2>1. \A w : Fits(u, w) <=> Fits(s, w)
    BY <1>2 DEF Fits
  <2> QED
    BY <2>1, <1>2 DEF Good, AllFit
<1>7. FreedClean(u) /\ Life(u)
  <2>1. FreedClean(u)
    BY <1>0, <1>2 DEF Good, FreedClean, HousedAt, InUse
  <2>2. s.abort = "no" => Housed(u)
    BY <1>0, <1>2 DEF Good, Life, Housed
  <2>4. s.abort = "no" => Unmade(u)
    <3> SUFFICES ASSUME s.abort = "no", NEW x \in Endpoint, u.ep[x].st = "NONE"
                 PROVE  u.sess[<<"c", x>>].st = "NONE"
      BY DEF Unmade
    <3>1. <<"c", x>> \in Session /\ s.sess[<<"c", x>>].st = "NONE"
      BY <1>2 DEF Good, Life, Unmade, Session
    <3>2. q # <<"c", x>>
      BY <1>2 DEF HousedAt, InUse
    <3> QED
      BY <3>1, <3>2, <1>2
  <2>3. Life(u)
    BY <2>2, <2>4, <1>2 DEF Good, Life, Owned, Bare
  <2> QED
    BY <2>1, <2>3
<1>9. Flow(u)
  <2>1. SameQueues(s, u) /\ u.abort = s.abort /\ s \in ProcType /\ Flow(s)
    BY <1>2 DEF SameQueues, Good
  <2>2. CASE s.abort = "no"
    <3>1. SameData(r, s.sess[q])
      <4>1. s.sess[q] \in SessType
        BY SessOf
      <4>2. Clean(s)
        BY <2>1, <2>2 DEF Flow
      <4>3. /\ ~s.sess[q].sending /\ ~s.sess[q].receiving /\ s.sess[q].queue = <<>>
            /\ s.sess[q].msg = <<>> /\ s.sess[q].sent = 0 /\ s.sess[q].got = 0
        BY <4>2, <2>2 DEF Clean
      <4>4. /\ s.sess[q].sending \in BOOLEAN /\ s.sess[q].receiving \in BOOLEAN
            /\ r.sending \in BOOLEAN /\ r.receiving \in BOOLEAN
        BY <4>1, <1>0 DEF SessType
      <4> QED
        BY <1>0, <4>3, <4>4 DEF SameData
    <3>2. DataSame(s, u)
      <4>1. \A x \in Session : x # q => u.sess[x] = s.sess[x]
        BY <1>2
      <4>2. u.sess[q] = r /\ r.st = "IDLE" /\ s.sess[q].st = "NONE"
        BY <2>2, <1>0, <1>2
      <4>3. \A k \in SessType : SameData(k, k)
        BY DEF SameData
      <4>4. \A x \in Session : s.sess[x] \in SessType
        BY SessOf
      <4> HIDE DEF r
      <4> QED
        BY <4>1, <4>2, <4>3, <4>4, <3>1 DEF DataSame
    <3> QED
      BY <3>2, <2>1, FlowData
  <2> QED
    BY <2>1, <2>2 DEF Flow
<1>8. Step(s, u)
  BY <1>1, <1>2, <1>3, <1>4, <1>5, <1>6, <1>7, <1>9 DEF Step, Good, Kept
<1> QED
  BY <1>8 DEF u, r

(* What the work on a session leaves alone.                                *)
SameEps(s, u) ==
  /\ u.bound = s.bound /\ u.connected = s.connected
  /\ \A x \in Endpoint : /\ u.ep[x].st = s.ep[x].st /\ u.ep[x].kind = s.ep[x].kind
                         /\ u.ep[x].base = s.ep[x].base

(* An endpoint's list of sessions may change if it loses no live one.      *)
LEMMA SetSessionsStep ==
  ASSUME NEW s, Good(s), NEW e \in Endpoint, NEW Q \in SUBSET ({"b"} \X Endpoint),
         \A q \in Session : s.abort = "no" /\ q \in s.ep[e].sessions \ Q => Blank(s.sess[q])
  PROVE  /\ Step(s, [s EXCEPT !.ep[e].sessions = Q]) /\ SameEps(s, [s EXCEPT !.ep[e].sessions = Q])
         /\ [s EXCEPT !.ep[e].sessions = Q].ep[e].sessions = Q
<1> DEFINE r == [s.ep[e] EXCEPT !.sessions = Q]
           u == [s EXCEPT !.ep[e] = r]
<1>1. s.ep[e] \in EpType /\ EpFits(s.ep[e])
  BY EpOf
<1>2. /\ r \in EpType /\ r.sock = s.ep[e].sock /\ r.st = s.ep[e].st /\ r.kind = s.ep[e].kind
      /\ r.base = s.ep[e].base /\ r.sessions = Q
  BY <1>1 DEF EpType
<1>3. EpFits(r)
  BY <1>1, <1>2 DEF EpFits
<1>4. /\ u.ep[e] = r /\ u.bound = s.bound /\ u.connected = s.connected
      /\ \A x \in Endpoint \ {e} : u.ep[x] = s.ep[x]
  BY DEF Good, ProcType
<1> HIDE DEF r
<1>h. Houses(s, e, r)
  BY <1>2 DEF Houses, Good, Life, Housed, HousedAt, InUse
<1>5. Step(s, u)
  BY <1>2, <1>3, <1>h, EpStep
<1> HIDE DEF u
<1>6. u = [s EXCEPT !.ep[e].sessions = Q]
  BY DEF r, u
<1>7. SameEps(s, u)
  BY <1>2, <1>4 DEF SameEps
<1> QED
  BY <1>2, <1>4, <1>5, <1>6, <1>7

(* binproc's new session in its list is a step.                            *)
LEMMA WithSessionStep ==
  ASSUME NEW s, Good(s), NEW e \in Endpoint, NEW c \in Endpoint, s.ep[e].st = "ACTIVE"
  PROVE  /\ Step(s, WithSession(s, e, c)) /\ SameEps(s, WithSession(s, e, c))
         /\ WithSession(s, e, c).abort = "no" => WithSession(s, e, c).sess[<<"b", c>>] = NewSession(e)
<1> DEFINE q == <<"b", c>>
           Q == s.ep[e].sessions \cup {q}
           u == [s EXCEPT !.ep[e].sessions = Q]
           w == [u EXCEPT !.sess[q] = NewSession(e)]
           a == Abort(s, "no_session_left")
<1>1. WithSession(s, e, c) = IF s.sess[q].st # "NONE" THEN a ELSE w
  <2>1. w = [s EXCEPT !.sess[q] = NewSession(e), !.ep[e].sessions = Q]
    BY DEF Good, ProcType
  <2> QED
    BY <2>1 DEF WithSession
<1>2. Step(s, a) /\ a.abort # "no" /\ SameEps(s, a)
  <2>1. Step(s, a) /\ a.abort # "no"
    BY AbortStep DEF Why
  <2> QED
    BY <2>1 DEF Abort, SameEps, Good, ProcType
<1>3. /\ q \in Session /\ Q \in SUBSET ({"b"} \X Endpoint) /\ q[1] # "c" /\ q[1] = "b" /\ q \in Q
      /\ s.ep[e].sessions \ Q = {}
  <2>1. s.ep[e] \in EpType
    BY EpOf
  <2> QED
    BY <2>1 DEF EpType, Session
<1> HIDE DEF Q, a, q
<1>4. Step(s, u) /\ SameEps(s, u) /\ u.ep[e].sessions = Q
  BY <1>3, SetSessionsStep
<1> HIDE DEF u
<1>9. u.sess = s.sess /\ u.abort = s.abort
  BY DEF u, Good, ProcType
<1>5. s.sess[q].st = "NONE" => Step(u, w)
  BY <1>3, <1>4, <1>9, NewSessStep DEF Step, SameEps, HousedAt, InUse
<1>6. w.ep = u.ep /\ w.bound = u.bound /\ w.connected = u.connected /\ w.sess[q] = NewSession(e)
  BY <1>3, <1>4 DEF Step, Good, ProcType
<1> HIDE DEF w
<1>7. SameEps(s, w)
  BY <1>4, <1>6 DEF SameEps
<1>8. s.sess[q].st = "NONE" => Step(s, w)
  BY <1>4, <1>5, StepTwice
<1> QED
  BY <1>1, <1>2, <1>6, <1>7, <1>8 DEF q

(* What a bind leaves at an endpoint does not matter to its life.          *)
LEMMA MarkStep ==
  ASSUME NEW s, Good(s), NEW e \in Endpoint, NEW r \in EpType, r.sock = s.ep[e].sock,
         r.st = s.ep[e].st, r.kind = s.ep[e].kind, r.base = s.ep[e].base,
         r.sessions = s.ep[e].sessions
  PROVE  Step(s, [s EXCEPT !.ep[e] = r]) /\ SameEps(s, [s EXCEPT !.ep[e] = r])
<1> DEFINE u == [s EXCEPT !.ep[e] = r]
<1>1. EpFits(r)
  BY EpOf DEF EpFits
<1>2. Step(s, u)
  BY <1>1, EpStep, HousesKept DEF InUse
<1>3. /\ u.ep[e] = r /\ u.bound = s.bound /\ u.connected = s.connected
      /\ \A x \in Endpoint \ {e} : u.ep[x] = s.ep[x]
  BY DEF Good, ProcType
<1> HIDE DEF u
<1>4. SameEps(s, u)
  BY <1>3 DEF SameEps
<1> QED
  BY <1>2, <1>4 DEF u

(* The marks that a bind leaves: the endpoint was found, and it has a      *)
(* session without a peer.                                                 *)
LEMMA MarksStep ==
  ASSUME NEW s, Good(s), NEW e \in Endpoint
  PROVE  /\ Step(s, [s EXCEPT !.ep[e].connects = TRUE])
         /\ SameEps(s, [s EXCEPT !.ep[e].connects = TRUE])
         /\ Step(s, [s EXCEPT !.ep[e].lonely = TRUE])
         /\ SameEps(s, [s EXCEPT !.ep[e].lonely = TRUE])
<1> DEFINE r == [s.ep[e] EXCEPT !.connects = TRUE]
           k == [s.ep[e] EXCEPT !.lonely = TRUE]
<1>1. s.ep[e] \in EpType
  BY EpOf
<1>2. /\ r \in EpType /\ r.sock = s.ep[e].sock /\ r.st = s.ep[e].st /\ r.kind = s.ep[e].kind
      /\ r.base = s.ep[e].base /\ r.sessions = s.ep[e].sessions
  BY <1>1 DEF EpType
<1>3. /\ k \in EpType /\ k.sock = s.ep[e].sock /\ k.st = s.ep[e].st /\ k.kind = s.ep[e].kind
      /\ k.base = s.ep[e].base /\ k.sessions = s.ep[e].sessions
  BY <1>1 DEF EpType
<1> HIDE DEF r, k
<1>4. Step(s, [s EXCEPT !.ep[e] = r]) /\ SameEps(s, [s EXCEPT !.ep[e] = r])
  BY <1>2, MarkStep
<1>5. Step(s, [s EXCEPT !.ep[e] = k]) /\ SameEps(s, [s EXCEPT !.ep[e] = k])
  BY <1>3, MarkStep
<1> QED
  BY <1>4, <1>5 DEF r, k

(* The CONNECT to an endpoint that has connected itself is a step.         *)
LEMMA AnotherSessionStep ==
  ASSUME NEW s, Good(s), NEW e \in Endpoint, NEW c \in Endpoint, s.ep[c].kind = "connect"
  PROVE  Step(s, AnotherSession(s, e, c)) /\ SameEps(s, AnotherSession(s, e, c))
<1> DEFINE u == [s EXCEPT !.ep[e].lonely = TRUE]
           to == <<"base", c>>
           q == <<"b", c>>
           v == [slot |-> <<to, "connect">>, to |-> to, type |-> "CONNECT", from |-> q]
           w == RaiseTo(u, <<to, "connect">>, to, "CONNECT", q)
<1>1. Step(s, u) /\ SameEps(s, u)
  BY MarksStep
<1>2. AnotherSession(s, e, c) = w
  BY DEF AnotherSession
<1>3. v \in ToEvent
  BY DEF ToEvent, FurtherEvent, BaseName, Session
<1> HIDE DEF u
<1>4. u.ep[c].kind = "connect"
  BY <1>1 DEF SameEps
<1>5. Fits(u, v) /\ EvFits(u, v)
  BY <1>4 DEF Fits, EvFits
<1>6. w.ep = u.ep /\ w.bound = u.bound /\ w.connected = u.connected
  <2>1. u \in ProcType
    BY <1>1 DEF Step, Good
  <2> QED
    BY <2>1 DEF RaiseTo, RaiseIn, Abort, ProcType
<1> HIDE DEF to, q
<1>7. Step(u, w)
  BY <1>1, <1>3, <1>5, RaiseToStep DEF Step
<1> HIDE DEF w
<1>8. SameEps(s, w)
  BY <1>1, <1>6 DEF SameEps
<1> QED
  BY <1>1, <1>2, <1>7, <1>8, StepTwice

(* nn_binproc_connect is a step.                                           *)
LEMMA BinprocConnectStep ==
  ASSUME NEW s, Good(s), NEW e \in Endpoint, NEW c \in Endpoint, s.ep[e].st = "ACTIVE",
         s.ep[c].kind = "connect"
  PROVE  Step(s, nn_binproc_connect(s, e, c)) /\ SameEps(s, nn_binproc_connect(s, e, c))
<1> SUFFICES ASSUME s.ep[c].base = "DISCONNECTED"
             PROVE  Step(s, nn_binproc_connect(s, e, c)) /\ SameEps(s, nn_binproc_connect(s, e, c))
  BY AnotherSessionStep DEF nn_binproc_connect
<1> DEFINE u == WithSession(s, e, c)
           w == nn_sinproc_connect(u, <<"b", c>>, <<"base", c>>)
<1>1. Step(s, u) /\ SameEps(s, u) /\ (u.abort = "no" => u.sess[<<"b", c>>] = NewSession(e))
  BY WithSessionStep
<1>2. nn_binproc_connect(s, e, c) = IF u.abort # "no" THEN u ELSE w
  BY DEF nn_binproc_connect
<1> HIDE DEF u
<1>3. ASSUME u.abort = "no"
      PROVE  Step(u, w) /\ w.ep = u.ep /\ w.bound = u.bound /\ w.connected = u.connected
  <2>1. ~Blank(u.sess[<<"b", c>>]) /\ u.ep[c].kind = "connect" /\ <<"b", c>> \in Session
    BY <1>1, <1>3, NewSessionType DEF Blank, SameEps, Session
  <2> DEFINE q == <<"b", c>>
  <2>2. q[1] # "c" /\ q[2] = c
    OBVIOUS
  <2> HIDE DEF q
  <2>3. q \in Session /\ ~Blank(u.sess[q])
    BY <2>1 DEF q
  <2>4. LET z == nn_sinproc_connect(u, q, <<"base", c>>) IN
        Step(u, z) /\ z.ep = u.ep /\ z.bound = u.bound /\ z.connected = u.connected
    BY <1>1, <2>1, <2>2, <2>3, SinprocConnectStep DEF Step
  <2> QED
    BY <2>4 DEF q
<1> HIDE DEF w
<1>4. u.abort = "no" => Step(s, w) /\ SameEps(s, w)
  <2>1. u.abort = "no" => Step(s, w)
    BY <1>1, <1>3, StepTwice
  <2>2. u.abort = "no" => SameEps(s, w)
    BY <1>1, <1>3 DEF SameEps
  <2> QED
    BY <2>1, <2>2
<1> QED
  BY <1>1, <1>2, <1>4

(* What a bind does with an endpoint that it finds is a step.              *)
LEMMA FoundStep ==
  ASSUME NEW s, Good(s), NEW e \in Endpoint, NEW c \in Endpoint, s.ep[e].st = "ACTIVE",
         s.ep[c].kind = "connect"
  PROVE  Step(s, Found(s, e, c)) /\ SameEps(s, Found(s, e, c))
<1> DEFINE a == Abort(s, "address_bound_again")
           u == [s EXCEPT !.ep[c].connects = TRUE]
           w == nn_binproc_connect(u, e, c)
<1>1. Found(s, e, c) \in {a, w}
  BY DEF Found
<1>2. Step(s, a) /\ SameEps(s, a)
  <2>1. Step(s, a)
    BY AbortStep DEF Why
  <2> QED
    BY <2>1 DEF Abort, SameEps, Good, ProcType
<1>3. Step(s, u) /\ SameEps(s, u)
  BY MarksStep
<1> HIDE DEF a, u
<1>4. Step(u, w) /\ SameEps(u, w)
  BY <1>3, BinprocConnectStep DEF Step, SameEps
<1> HIDE DEF w
<1>5. Step(s, w) /\ SameEps(s, w)
  <2>1. Step(s, w)
    BY <1>3, <1>4, StepTwice
  <2>2. SameEps(s, w)
    BY <1>3, <1>4 DEF SameEps
  <2> QED
    BY <2>1, <2>2
<1> QED
  BY <1>1, <1>2, <1>5

(* nn_ins_bind, which connects the endpoint to all that wait for the       *)
(* address, is a step.                                                     *)
LEMMA InsBindStep ==
  ASSUME NEW s, Good(s), NEW e \in Endpoint, s.ep[e].st = "ACTIVE", s.ep[e].kind = "bind"
  PROVE  Step(s, nn_ins_bind(s, e))
<1> DEFINE b == [s EXCEPT !.bound = e]
           S == {u \in ProcType : Step(b, u) /\ SameEps(b, u)}
<1>1. Step(s, b) /\ b.ep = s.ep /\ b.connected = s.connected
  <2>1. [s EXCEPT !.bound = e, !.connected = s.connected] = b
    BY DEF Good, ProcType
  <2>2. s.connected \in SUBSET Endpoint
    BY DEF Good, ProcType
  <2>3. Step(s, [s EXCEPT !.bound = e, !.connected = s.connected])
    BY <2>2, AddressStep DEF Good, Addressed
  <2> QED
    BY <2>1, <2>3 DEF Good, ProcType
<1> HIDE DEF b
<1>2. b \in S
  BY <1>1, StepNot DEF Step, Good, SameEps
<1>3. \A u \in S, c \in Endpoint : c \in s.connected => Found(u, e, c) \in S
  <2> SUFFICES ASSUME NEW u \in S, NEW c \in Endpoint, c \in s.connected
               PROVE  Found(u, e, c) \in S
    OBVIOUS
  <2>1. Good(u) /\ u.ep[e].st = "ACTIVE" /\ u.ep[c].kind = "connect"
    BY <1>1 DEF Step, SameEps, Good, Addressed
  <2>2. Step(u, Found(u, e, c)) /\ SameEps(u, Found(u, e, c))
    BY <2>1, FoundStep
  <2>3. Step(b, Found(u, e, c))
    BY <2>2, StepTwice
  <2>4. SameEps(b, Found(u, e, c))
    BY <2>2 DEF SameEps
  <2> QED
    BY <2>2, <2>3, <2>4 DEF Step, Good
<1> HIDE DEF S
<1>4. PICK u \in S : nn_ins_bind(s, e) = u
  <2>1. \E u \in S : nn_ins_bind(s, e) = u
    BY <1>2, <1>3, BindLoop DEF b
  <2> QED
    BY <2>1
<1> QED
  BY <1>1, <1>4, StepTwice DEF S

(* nn_cinproc_connect is a step.                                           *)
LEMMA CinprocConnectStep ==
  ASSUME NEW s, Good(s), NEW e \in Endpoint, NEW b \in Endpoint, s.ep[e].st = "ACTIVE",
         s.ep[b].kind = "bind", ~Blank(s.sess[<<"c", e>>])
  PROVE  Step(s, nn_cinproc_connect(s, e, b))
<1> DEFINE u == [s EXCEPT !.ep[e].base = "ACTIVE"]
           q == <<"c", e>>
           w == nn_sinproc_connect(u, q, <<"base", b>>)
<1>1. Step(s, u)
  BY SetBaseStep DEF BaseState
<1>2. u.sess = s.sess /\ u.ep[b].kind = s.ep[b].kind
  <2>1. s.ep[e] \in EpType
    BY EpOf
  <2> DEFINE r == [s.ep[e] EXCEPT !.base = "ACTIVE"]
             x == [s EXCEPT !.ep[e] = r]
  <2>2. r.kind = s.ep[e].kind
    BY <2>1 DEF EpType
  <2>3. x.sess = s.sess /\ x.ep[e] = r /\ \A y \in Endpoint \ {e} : x.ep[y] = s.ep[y]
    BY DEF Good, ProcType
  <2> HIDE DEF r, u
  <2>4. x = u
    BY DEF r, u
  <2> QED
    BY <2>2, <2>3, <2>4
<1>3. nn_cinproc_connect(s, e, b) = w
  BY DEF nn_cinproc_connect
<1>4. q \in Session /\ q[1] = "c"
  BY DEF Session
<1> HIDE DEF u, q
<1>5. Step(u, w)
  BY <1>1, <1>2, <1>4, SinprocConnectStep DEF Step, q
<1> QED
  BY <1>1, <1>3, <1>5, StepTwice

(* nn_ins_connect is a step.                                               *)
LEMMA InsConnectStep ==
  ASSUME NEW s, Good(s), NEW e \in Endpoint, s.ep[e].st = "ACTIVE", s.ep[e].kind = "connect",
         ~Blank(s.sess[<<"c", e>>])
  PROVE  Step(s, nn_ins_connect(s, e))
<1> DEFINE u == [s EXCEPT !.connected = @ \cup {e}]
<1>1. Step(s, u) /\ u.ep = s.ep /\ u.sess = s.sess
  <2>1. [s EXCEPT !.bound = s.bound, !.connected = s.connected \cup {e}] = u
    BY DEF Good, ProcType
  <2>2. s.connected \cup {e} \in SUBSET Endpoint /\ s.bound \in Endpoint \cup {0}
    BY DEF Good, ProcType
  <2>3. \A x \in s.connected \cup {e} : s.ep[x].st = "ACTIVE" /\ s.ep[x].kind = "connect"
    BY DEF Good, Addressed
  <2>4. s.bound # 0 => s.ep[s.bound].st = "ACTIVE" /\ s.ep[s.bound].kind = "bind"
    BY DEF Good, Addressed
  <2> DEFINE C == s.connected \cup {e}
  <2> HIDE DEF C
  <2>5. Step(s, [s EXCEPT !.bound = s.bound, !.connected = C])
    BY <2>2, <2>3, <2>4, AddressStep DEF C
  <2> QED
    BY <2>1, <2>5 DEF Good, ProcType, C
<1>2. nn_ins_connect(s, e) = IF s.bound = 0 THEN u ELSE nn_cinproc_connect(u, e, s.bound)
  BY DEF nn_ins_connect
<1> HIDE DEF u
<1>3. ASSUME s.bound # 0 PROVE Step(u, nn_cinproc_connect(u, e, s.bound))
  <2>1. s.bound \in Endpoint /\ s.ep[s.bound].kind = "bind"
    BY <1>3 DEF Good, ProcType, Addressed
  <2> QED
    BY <2>1, <1>1, CinprocConnectStep DEF Step
<1> QED
  BY <1>1, <1>2, <1>3, StepTwice

-----------------------------------------------------------------------------
(* Endpoints are made and stop (sock.c, ep.c, binproc.c, cinproc.c)        *)

(* A new endpoint is of a socket that is there.                            *)
EpMade(s, o, e, kind) ==
  [s EXCEPT !.ep[e] = nn_ep_init(o, kind), !.sock[o].eps = @ \cup {e}]

(* An unused endpoint may be made in a socket that lists it.               *)
LEMMA NewEpOfStep ==
  ASSUME NEW s, Good(s), NEW e \in Endpoint, NEW r \in EpType, NEW o \in Socket,
         r.sock = o, r.kind \in {"bind", "connect"}, r.st = "ACTIVE", r.base = "IDLE",
         s.ep[e].st = "NONE", s.sock[o].st # "FREED", e \in s.sock[o].eps
  PROVE  LET u == [s EXCEPT !.ep[e] = r] IN
         Step(s, u) /\ u.ep[e] = r /\ u.bound = s.bound /\ u.sess = s.sess /\ u.abort = s.abort
<1> DEFINE u == [s EXCEPT !.ep[e] = r]
           S == [s.ep EXCEPT ![e] = r]
<1>1. u \in ProcType
  <2>1. S \in [Endpoint -> EpType]
    BY DEF Good, ProcType
  <2> HIDE DEF S
  <2>2. [s EXCEPT !.ep = S] \in ProcType
    BY <2>1 DEF Good, ProcType
  <2> QED
    BY <2>2 DEF S
<1>2. /\ u.overlap = s.overlap /\ u.glock = s.glock /\ u.term = s.term /\ u.table = s.table
      /\ u.unused = s.unused /\ u.nsocks = s.nsocks /\ u.th = s.th /\ u.pend = s.pend
      /\ u.hand = s.hand /\ u.sess = s.sess /\ u.sock = s.sock
      /\ u.bound = s.bound /\ u.connected = s.connected /\ u.eventsto = s.eventsto
      /\ u.abort = s.abort /\ u.events = s.events
      /\ u.ep[e] = r /\ \A x \in Endpoint \ {e} : u.ep[x] = s.ep[x]
  BY DEF ProcType, Good
<1> HIDE DEF u
<1>3. Peers(u) /\ Homes(u)
  BY <1>2 DEF Good, Peers, Homes
<1>4. Bases(u)
  <2>1. EpFits(r)
    BY DEF EpFits
  <2> QED
    BY <2>1, <1>2 DEF Good, Bases
<1>5. Addressed(u)
  <2>1. s.bound \in Endpoint \cup {0} /\ s.connected \subseteq Endpoint
    BY DEF Good, ProcType
  <2> QED
    BY <1>2, <2>1 DEF Good, Addressed
<1>6. AllFit(u)
  <2>0. s.ep[e].kind = "none"
    BY EpOf DEF EpFits
  <2>2. ASSUME NEW v \in ToEvent, Fits(s, v) PROVE Fits(u, v)
    <3> SUFFICES ASSUME v.type = "CONNECT" PROVE Fits(u, v)
      BY DEF Fits
    <3>1. v.to[2] \in Endpoint
      BY DEF ToEvent, SessEvent, FurtherEvent, EventOf, BaseName
    <3> QED
      BY <3>1, <2>0, <2>2, <1>2 DEF Fits
  <2>3. s.eventsto \in Seq(ToEvent) /\ s.pend \in [Thread -> Seq(ToEvent)] /\ s.hand \in [Thread -> Seq(ToEvent)]
    BY DEF Good, ProcType
  <2>4. /\ \A i \in DOMAIN s.eventsto : s.eventsto[i] \in ToEvent
        /\ \A t \in Thread : \A i \in DOMAIN s.pend[t] : s.pend[t][i] \in ToEvent
        /\ \A t \in Thread : \A i \in DOMAIN s.hand[t] : s.hand[t][i] \in ToEvent
    BY <2>3
  <2> QED
    BY <2>2, <2>4, <1>2 DEF Good, AllFit
<1>7. FreedClean(u) /\ Life(u)
  <2>1. FreedClean(u)
    BY <1>2 DEF Good, FreedClean
  <2>2. s.abort = "no" => Owned(u)
    BY <1>2 DEF Good, Life, Owned
  <2>3. s.abort = "no" => Housed(u)
    <3> SUFFICES ASSUME s.abort = "no", NEW q \in Session, ~Blank(u.sess[q])
                 PROVE  HousedAt(u.ep[u.sess[q].ep], q)
      BY DEF Housed
    <3>1. u.sess[q] = s.sess[q] /\ s.sess[q].ep \in Endpoint
      <4>1. s.sess[q] \in SessType
        BY SessOf
      <4> QED
        BY <1>2, <4>1 DEF SessType
    <3>2. s.sess[q].ep # e
      BY <3>1 DEF Good, Life, Housed, HousedAt, InUse
    <3> QED
      BY <3>1, <3>2, <1>2 DEF Good, Life, Housed
  <2>5. s.abort = "no" => Unmade(u)
    BY <1>2 DEF Good, Life, Unmade
  <2>4. Life(u)
    BY <2>2, <2>3, <2>5, <1>2 DEF Good, Life, Bare
  <2> QED
    BY <2>1, <2>4
<1>9. Flow(u)
  BY <1>2, FlowSame DEF Good, SameQueues
<1>8. Step(s, u)
  BY <1>1, <1>2, <1>3, <1>4, <1>5, <1>6, <1>7, <1>9 DEF Step, Good, Kept
<1> QED
  BY <1>2, <1>8 DEF u

(* nn_ep_init's part of nn_sock_add_ep is a step.                          *)
LEMMA NewEpStep ==
  ASSUME NEW s, Good(s), NEW e \in Endpoint, NEW o \in Socket, NEW kind \in {"bind", "connect"},
         s.ep[e].st = "NONE", InUse(s.sock[o])
  PROVE  LET z == EpMade(s, o, e, kind) IN
         Step(s, z) /\ z.ep[e].st = "ACTIVE" /\ z.ep[e].kind = kind /\ z.bound = s.bound
         /\ z.sess = s.sess /\ z.abort = s.abort
<1> DEFINE r == nn_ep_init(o, kind)
           k == [s.sock[o] EXCEPT !.eps = @ \cup {e}]
           u == [s EXCEPT !.sock[o] = k]
           w == [u EXCEPT !.ep[e] = r]
<1>0. /\ r \in EpType /\ r.sock = o /\ r.kind = kind /\ r.st = "ACTIVE" /\ r.base = "IDLE"
  BY DEF nn_ep_init, EpType, EpState, BaseState
<1>1. /\ k \in SockType /\ k.st = s.sock[o].st /\ k.lock = s.sock[o].lock
      /\ k.optset = s.sock[o].optset /\ k.eps = s.sock[o].eps \cup {e} /\ k.sdeps = s.sock[o].sdeps
  <2>1. s.sock[o] \in SockType
    BY DEF Good, ProcType
  <2>2. s.sock[o].eps \cup {e} \in SUBSET Endpoint
    BY <2>1 DEF SockType
  <2> QED
    BY <2>1, <2>2 DEF SockType
<1>2. w = EpMade(s, o, e, kind)
  BY DEF ProcType, Good, EpMade
<1>3. u.ep = s.ep /\ u.bound = s.bound /\ u.sock[o] = k /\ u.sess = s.sess /\ u.abort = s.abort
  BY DEF ProcType, Good
<1> HIDE DEF r, k
<1>4. SameOwner(s, s.sock[o], k)
  BY <1>1 DEF SameOwner, InUse
<1>5. Step(s, u)
  BY <1>1, <1>4, SockStep
<1> HIDE DEF u
<1>6. Step(u, w) /\ w.ep[e] = r /\ w.bound = u.bound /\ w.sess = u.sess /\ w.abort = u.abort
  BY <1>0, <1>1, <1>3, <1>5, NewEpOfStep DEF Step, InUse
<1> HIDE DEF w
<1>7. Step(s, w)
  BY <1>5, <1>6, StepTwice
<1> QED
  BY <1>0, <1>2, <1>3, <1>6, <1>7

(* nn_binproc_create is a step.                                            *)
LEMMA BinprocCreateStep ==
  ASSUME NEW s, Good(s), NEW e \in Endpoint, s.ep[e].st = "ACTIVE", s.ep[e].kind = "bind"
  PROVE  Step(s, nn_binproc_create(s, e))
<1> DEFINE u == [s EXCEPT !.ep[e].base = "ACTIVE"]
<1>1. Step(s, u) /\ u.ep[e].st = "ACTIVE" /\ u.ep[e].kind = "bind"
  BY SetBaseStep DEF BaseState
<1>2. nn_binproc_create(s, e) = nn_ins_bind(u, e)
  BY DEF nn_binproc_create
<1> HIDE DEF u
<1>3. Step(u, nn_ins_bind(u, e))
  BY <1>1, InsBindStep DEF Step
<1> QED
  BY <1>1, <1>2, <1>3, StepTwice

(* nn_cinproc_create is a step.                                            *)
LEMMA CinprocCreateStep ==
  ASSUME NEW s, Good(s), NEW e \in Endpoint, s.ep[e].st = "ACTIVE", s.ep[e].kind = "connect",
         s.abort = "no" => s.sess[<<"c", e>>].st = "NONE"
  PROVE  Step(s, nn_cinproc_create(s, e))
<1> DEFINE u == [s EXCEPT !.ep[e].base = "DISCONNECTED"]
           q == <<"c", e>>
           w == [u EXCEPT !.sess[q] = NewSession(e)]
<1>1. Step(s, u) /\ u.ep[e].st = "ACTIVE" /\ u.ep[e].kind = "connect"
  BY SetBaseStep, ZenonT(90) DEF BaseState
<1>2. q \in Session /\ q[2] = e /\ q[1] = "c"
  BY DEF Session
<1>3. nn_cinproc_create(s, e) = nn_ins_connect(w, e)
  <2>1. w = [s EXCEPT !.ep[e].base = "DISCONNECTED", !.sess[q] = NewSession(e)]
    BY DEF Good, ProcType
  <2> QED
    BY <2>1 DEF nn_cinproc_create
<1>8. u.sess = s.sess /\ u.abort = s.abort /\ (s.abort = "no" => s.sess[q].st = "NONE")
  BY DEF Good, ProcType
<1> HIDE DEF u, q
<1>4. Step(u, w)
  BY <1>1, <1>2, <1>8, NewSessStep DEF Step, HousedAt, InUse
<1>5. w.ep = u.ep /\ w.sess[q] = NewSession(e)
  BY <1>1, <1>2 DEF Step, Good, ProcType
<1>6. ~Blank(w.sess[q])
  BY <1>5, NewSessionType DEF Blank
<1> HIDE DEF w
<1>7. Step(w, nn_ins_connect(w, e))
  BY <1>1, <1>4, <1>5, <1>6, InsConnectStep DEF Step, q
<1> QED
  BY <1>1, <1>3, <1>4, <1>7, StepTwice

(* nn_sock_add_ep is a step.                                               *)
LEMMA SockAddEpStep ==
  ASSUME NEW s, Good(s), NEW e \in Endpoint, NEW o \in Socket, NEW kind \in {"bind", "connect"},
         s.ep[e].st = "NONE", InUse(s.sock[o])
  PROVE  Step(s, nn_sock_add_ep(s, o, e, kind))
<1> DEFINE u == EpMade(s, o, e, kind)
<1>1. /\ Step(s, u) /\ u.ep[e].st = "ACTIVE" /\ u.ep[e].kind = kind
      /\ u.sess = s.sess /\ u.abort = s.abort
  BY NewEpStep
<1>5. s.abort = "no" => s.sess[<<"c", e>>].st = "NONE"
  BY DEF Good, Life, Unmade
<1>2. CASE kind = "bind" /\ s.bound # 0
  <2>1. nn_sock_add_ep(s, o, e, kind) = s
    BY <1>2 DEF nn_sock_add_ep
  <2> QED
    BY <2>1, StepNot
<1>3. CASE kind = "bind" /\ s.bound = 0
  <2>1. nn_sock_add_ep(s, o, e, kind) = nn_binproc_create(u, e)
    BY <1>3 DEF nn_sock_add_ep, EpMade
  <2> HIDE DEF u
  <2>2. Step(u, nn_binproc_create(u, e))
    BY <1>1, <1>3, BinprocCreateStep DEF Step
  <2> QED
    BY <1>1, <2>1, <2>2, StepTwice
<1>4. CASE kind = "connect"
  <2>1. nn_sock_add_ep(s, o, e, kind) = nn_cinproc_create(u, e)
    BY <1>4 DEF nn_sock_add_ep, EpMade
  <2> HIDE DEF u
  <2>2. Step(u, nn_cinproc_create(u, e))
    BY <1>1, <1>4, <1>5, CinprocCreateStep DEF Step
  <2> QED
    BY <1>1, <2>1, <2>2, StepTwice
<1> QED
  BY <1>2, <1>3, <1>4

-----------------------------------------------------------------------------
(* An endpoint's STOPPED is an own event, to itself and then to its        *)
(* socket.                                                                 *)
LEMMA EpEvent ==
  ASSUME NEW e \in Endpoint, NEW o \in Socket \cup {0}
  PROVE  /\ [slot |-> <<<<"ep", e>>, "stopped">>, to |-> <<"ep", e>>, type |-> "STOPPED",
             from |-> None] \in OwnEvent
         /\ [slot |-> <<<<"ep", e>>, "stopped">>, to |-> <<"sock", o>>, type |-> "EP_STOPPED",
             from |-> <<"ep", e>>] \in OwnEvent
<1> DEFINE v == [slot |-> <<<<"ep", e>>, "stopped">>, to |-> <<"ep", e>>, type |-> "STOPPED",
                 from |-> None]
           w == [slot |-> <<<<"ep", e>>, "stopped">>, to |-> <<"sock", o>>, type |-> "EP_STOPPED",
                 from |-> <<"ep", e>>]
<1>1. <<"ep", e>> \in EndpointName /\ <<"sock", o>> \in SocketName
  BY DEF EndpointName, SocketName
<1>2. <<<<"ep", e>>, "stopped">> \in SlotName
  BY <1>1 DEF SlotName
<1>3. v \in EventOf(EndpointName, {"STOPPED"}, {None})
  BY <1>1, <1>2 DEF EventOf, SlotOf
<1>4. w \in EventOf(SocketName, {"EP_STOPPED"}, EndpointName)
  BY <1>1, <1>2 DEF EventOf, SlotOf
<1> QED
  BY <1>3, <1>4 DEF OwnEvent

(* nn_epbase_stopped is a step, and leaves the addresses alone.            *)
LEMMA EpStoppedStep ==
  ASSUME NEW s, Good(s), NEW e \in Endpoint, s.ep[e].st # "NONE"
  PROVE  Step(s, EpStopped(s, e)) /\ EpStopped(s, e).ep[e].base = "IDLE"
         /\ EpStopped(s, e).ep[e].st = s.ep[e].st /\ EpStopped(s, e).ep[e].kind = s.ep[e].kind
         /\ EpStopped(s, e).bound = s.bound /\ EpStopped(s, e).connected = s.connected
<1> DEFINE u == [s EXCEPT !.ep[e].base = "IDLE"]
           w == Raise(u, <<<<"ep", e>>, "stopped">>, <<"ep", e>>, "STOPPED", None)
<1>1. Step(s, u) /\ u.ep[e].base = "IDLE" /\ u.ep[e].st = s.ep[e].st /\ u.ep[e].kind = s.ep[e].kind
  BY SetBaseStep, ZenonT(90) DEF BaseState
<1>2. EpStopped(s, e) = w /\ u.bound = s.bound /\ u.connected = s.connected
  BY DEF EpStopped, Good, ProcType
<1> HIDE DEF u
<1>3. Step(u, w)
  BY <1>1, EpEvent, RaiseStep DEF Step
<1>4. w.ep = u.ep /\ w.bound = u.bound /\ w.connected = u.connected
  <2>1. u \in ProcType
    BY <1>1 DEF Step, Good
  <2> QED
    BY <2>1 DEF Raise, RaiseIn, Abort, ProcType
<1> HIDE DEF w
<1> QED
  BY <1>1, <1>2, <1>3, <1>4, StepTwice

(* What the stop of a transport leaves alone.                              *)
SameEp(s, u, e) ==
  /\ u.bound = s.bound /\ u.connected = s.connected
  /\ u.ep[e].st = s.ep[e].st /\ u.ep[e].kind = s.ep[e].kind
  /\ u.ep[e].base \in {s.ep[e].base, "IDLE"}

(* The end of nn_binproc_shutdown is a step.                               *)
LEMMA BinprocStoppedStep ==
  ASSUME NEW s, Good(s), NEW e \in Endpoint, s.ep[e].st # "NONE"
  PROVE  Step(s, BinprocStopped(s, e)) /\ SameEp(s, BinprocStopped(s, e), e)
BY EpStoppedStep, StepNot DEF BinprocStopped, SameEp

(* The end of nn_cinproc_shutdown is a step.                               *)
LEMMA CinprocStoppedStep ==
  ASSUME NEW s, Good(s), NEW e \in Endpoint, s.ep[e].st # "NONE"
  PROVE  Step(s, CinprocStopped(s, e)) /\ SameEp(s, CinprocStopped(s, e), e)
BY EpStoppedStep, StepNot DEF CinprocStopped, SameEp

(* A session's end leaves the endpoints and the addresses alone.           *)
LEMMA StoppedIfDoneEps ==
  ASSUME NEW s, Good(s), NEW q
  PROVE  StoppedIfDone(s, q).ep = s.ep /\ StoppedIfDone(s, q).bound = s.bound
         /\ StoppedIfDone(s, q).connected = s.connected
<1>1. s \in ProcType
  BY DEF Good
<1> QED
  BY <1>1 DEF StoppedIfDone, Raise, RaiseIn, Abort, ProcType

(* nn_sinproc_stop leaves the endpoints and the addresses alone.           *)
LEMMA SinprocStopEps ==
  ASSUME NEW s, Good(s), NEW q \in Session
  PROVE  nn_sinproc_stop(s, q).ep = s.ep /\ nn_sinproc_stop(s, q).bound = s.bound
         /\ nn_sinproc_stop(s, q).connected = s.connected
<1> DEFINE x == s.sess[q].peer
           m == nn_pipebase_stop(s, q)
           n == [m EXCEPT !.sess[q].st = "STOPPING_PEER"]
           d == RaiseTo(n, <<x, "disconnect">>, x, "DISCONNECT", q)
           w == [s EXCEPT !.sess[q].st = "STOPPING"]
           z == StoppedIfDone(w, q)
<1>1. nn_sinproc_stop(s, q) = CASE s.sess[q].st \in {"IDLE", "STOPPING_PEER", "STOPPING", "STOPPED"} -> s
                                [] s.sess[q].st = "DISCONNECTED" -> z
                                [] OTHER -> IF x = None THEN Abort(s, "stops_without_peer") ELSE d
  BY DEF nn_sinproc_stop
<1>2. m \in ProcType /\ m.ep = s.ep /\ m.bound = s.bound /\ m.connected = s.connected
  <2>1. m \in ProcType
    BY PipeStopStep DEF Step, Good
  <2> QED
    BY <2>1 DEF nn_pipebase_stop, nn_excl_rm, Good, ProcType
<1>3. s.sess[q].st = "DISCONNECTED" => z.ep = s.ep /\ z.bound = s.bound /\ z.connected = s.connected
  <2> SUFFICES ASSUME s.sess[q].st = "DISCONNECTED"
               PROVE z.ep = s.ep /\ z.bound = s.bound /\ z.connected = s.connected
    OBVIOUS
  <2>1. Step(s, w)
    BY SessStateStep DEF SessState, Blank
  <2>2. w.ep = s.ep /\ w.bound = s.bound /\ w.connected = s.connected
    BY DEF Good, ProcType
  <2> HIDE DEF w
  <2> QED
    BY <2>1, <2>2, StoppedIfDoneEps DEF Step
<1> HIDE DEF m, z
<1>4. n.ep = m.ep /\ n.bound = m.bound /\ n.connected = m.connected /\ n.eventsto = m.eventsto
      /\ n.events = m.events /\ n.abort = m.abort /\ n = [m EXCEPT !.sess = n.sess]
  BY <1>2 DEF ProcType
<1>5. d.ep = m.ep /\ d.bound = m.bound /\ d.connected = m.connected
  BY <1>2 DEF RaiseTo, RaiseIn, Abort, ProcType
<1> HIDE DEF d, x
<1>6. Abort(s, "stops_without_peer").ep = s.ep /\ Abort(s, "stops_without_peer").bound = s.bound
      /\ Abort(s, "stops_without_peer").connected = s.connected
  BY DEF Abort, Good, ProcType
<1> QED
  BY <1>1, <1>2, <1>3, <1>5, <1>6

(* nn_binproc_stop is a step that takes the endpoint from its address.     *)
LEMMA BinprocStopStep ==
  ASSUME NEW s, Good(s), NEW e \in Endpoint, s.ep[e].st = "ACTIVE", s.ep[e].kind = "bind"
  PROVE  LET u == nn_binproc_stop(s, e) IN
         Step(s, u) /\ u.ep[e].base \in {"STOPPING", "IDLE"} /\ u.ep[e].st = s.ep[e].st
         /\ u.ep[e].kind = s.ep[e].kind /\ u.bound # e /\ e \notin u.connected
<1> DEFINE n == nn_ins_unbind(s)
           b == [n EXCEPT !.ep[e].base = "STOPPING"]
           S == {u \in ProcType : Step(b, u) /\ u.ep = b.ep /\ u.bound = b.bound
                                  /\ u.connected = b.connected}
<1>1. Step(s, n) /\ n.ep = s.ep /\ n.bound = 0 /\ n.connected = s.connected
  BY UnbindStep DEF nn_ins_unbind, Good, ProcType
<1> HIDE DEF n
<1>2. Step(n, b) /\ b.ep[e].base = "STOPPING" /\ b.ep[e].st = n.ep[e].st /\ b.ep[e].kind = n.ep[e].kind
  BY <1>1, SetBaseStep, ZenonT(90) DEF BaseState, Step
<1>3. b.bound = 0 /\ b.connected = s.connected
  BY <1>1 DEF Step, Good, ProcType
<1>4. e \notin s.connected /\ 0 \notin Endpoint
  BY DEF Good, Addressed, Endpoint
<1> HIDE DEF b
<1>5. b \in S
  BY <1>2, StepNot DEF Step, Good
<1>6. \A u \in S, c \in Endpoint : c \in {q[2] : q \in s.ep[e].sessions}
                                   => nn_sinproc_stop(u, <<"b", c>>) \in S
  <2> SUFFICES ASSUME NEW u \in S, NEW q \in Session PROVE nn_sinproc_stop(u, q) \in S
    BY DEF Session
  <2>1. Step(u, nn_sinproc_stop(u, q))
    BY SinprocStopStep DEF Step
  <2>2. Step(b, nn_sinproc_stop(u, q))
    BY <2>1, StepTwice
  <2>3. nn_sinproc_stop(u, q).ep = u.ep /\ nn_sinproc_stop(u, q).bound = u.bound
        /\ nn_sinproc_stop(u, q).connected = u.connected
    BY SinprocStopEps DEF Step
  <2> QED
    BY <2>1, <2>2, <2>3 DEF Step, Good
<1> HIDE DEF S
<1>7. PICK u \in S : nn_binproc_stop(s, e) = IF s.ep[e].lonely THEN Abort(u, "stops_without_peer")
                                             ELSE BinprocStopped(u, e)
  <2>1. \E u \in S : nn_binproc_stop(s, e) = IF s.ep[e].lonely THEN Abort(u, "stops_without_peer")
                                             ELSE BinprocStopped(u, e)
    BY <1>5, <1>6, StopLoop DEF b, n
  <2> QED
    BY <2>1
<1>8. Step(b, u) /\ u.ep = b.ep /\ u.bound = b.bound /\ u.connected = b.connected
  BY DEF S
<1>9. Step(u, BinprocStopped(u, e)) /\ SameEp(u, BinprocStopped(u, e), e)
  BY <1>1, <1>2, <1>8, BinprocStoppedStep DEF Step
<1> DEFINE a == Abort(u, "stops_without_peer")
           z == BinprocStopped(u, e)
<1>a. Step(u, a) /\ SameEp(u, a, e)
  <2>1. Good(u)
    BY <1>8 DEF Step
  <2>2. Step(u, a)
    BY <2>1, AbortStep DEF Why
  <2> QED
    BY <2>1, <2>2 DEF SameEp, Abort, Good, ProcType
<1>b. nn_binproc_stop(s, e) \in {a, z}
  BY <1>7
<1> HIDE DEF a, z
<1>10. ASSUME NEW x, Step(u, x), SameEp(u, x, e)
       PROVE  Step(s, x) /\ x.ep[e].base \in {"STOPPING", "IDLE"} /\ x.ep[e].st = s.ep[e].st
              /\ x.ep[e].kind = s.ep[e].kind /\ x.bound # e /\ e \notin x.connected
  <2>1. Step(s, x)
    BY <1>1, <1>2, <1>8, <1>10, StepTwice
  <2> QED
    BY <2>1, <1>1, <1>2, <1>3, <1>4, <1>8, <1>10 DEF SameEp
<1> QED
  BY <1>9, <1>a, <1>b, <1>10 DEF z

(* nn_cinproc_stop is a step that takes the endpoint from its address.     *)
LEMMA CinprocStopStep ==
  ASSUME NEW s, Good(s), NEW e \in Endpoint, s.ep[e].st = "ACTIVE", s.ep[e].kind # "bind"
  PROVE  LET u == nn_cinproc_stop(s, e) IN
         Step(s, u) /\ u.ep[e].base \in {"STOPPING", "IDLE"} /\ u.ep[e].st = s.ep[e].st
         /\ u.ep[e].kind = s.ep[e].kind /\ u.bound # e /\ e \notin u.connected
<1> DEFINE n == nn_ins_disconnect(s, e)
           b == [n EXCEPT !.ep[e].base = "STOPPING"]
           q == <<"c", e>>
           w == nn_sinproc_stop(b, q)
           z == CinprocStopped(w, e)
<1>0. q \in Session
  BY DEF Session
<1> HIDE DEF q
<1>1. Step(s, n) /\ n.ep = s.ep /\ n.bound = s.bound /\ n.connected = s.connected \ {e}
  BY DisconnectInsStep DEF nn_ins_disconnect, Good, ProcType
<1>s. nn_cinproc_stop(s, e) = z
  BY DEF nn_cinproc_stop, q
<1> HIDE DEF n
<1>2. Step(n, b) /\ b.ep[e].base = "STOPPING" /\ b.ep[e].st = n.ep[e].st /\ b.ep[e].kind = n.ep[e].kind
  BY <1>1, SetBaseStep, ZenonT(90) DEF BaseState, Step
<1>3. b.bound = s.bound /\ b.connected = s.connected \ {e}
  BY <1>1 DEF Step, Good, ProcType
<1>4. s.bound # e
  BY DEF Good, Addressed, Endpoint
<1> HIDE DEF b
<1>5. Step(b, w) /\ w.ep = b.ep /\ w.bound = b.bound /\ w.connected = b.connected
  BY <1>0, <1>2, SinprocStopStep, SinprocStopEps DEF Step
<1> HIDE DEF w
<1>6. Step(w, z) /\ SameEp(w, z, e)
  BY <1>1, <1>2, <1>5, CinprocStoppedStep DEF Step
<1> HIDE DEF z
<1>7. Step(s, z)
  BY <1>1, <1>2, <1>5, <1>6, StepTwice
<1> QED
  BY <1>s, <1>1, <1>2, <1>3, <1>4, <1>5, <1>6, <1>7 DEF SameEp

-----------------------------------------------------------------------------
(* Endpoints handle their events and are freed                             *)

(* nn_sinproc_term frees its session and nothing else.                     *)
LEMMA SinprocTermEps ==
  ASSUME NEW s, Good(s), NEW q \in Session
  PROVE  LET u == nn_sinproc_term(s, q) IN
         /\ u.ep = s.ep /\ u.bound = s.bound /\ u.connected = s.connected /\ u.sock = s.sock
         /\ u.abort = "no" => Blank(u.sess[q])
BY DEF Blank, nn_sinproc_term, Bad, Abort, Good, ProcType

(* nn_binproc_handler is a step: a CONNECT comes from a connecting end.    *)
LEMMA BinprocHandlerStep ==
  ASSUME NEW s, Good(s), NEW e \in Endpoint, s.ep[e].kind = "bind",
         NEW v \in OwnEvent \cup ToEvent, v.to = <<"base", e>>, Fits(s, v)
  PROVE  Step(s, nn_binproc_handler(s, e, v))
<1>0. Step(s, Abort(s, "connects_to_stopping")) /\ Step(s, Bad(s))
  BY AbortStep, BadStep DEF Why
<1>1. v.from \in Session
  BY DEF OwnEvent, ToEvent, SessEvent, FurtherEvent, EventOf, SocketName, EndpointName, BaseName, Session
<1>2. CASE s.ep[e].base = "ACTIVE" /\ v.type = "CONNECT"
  <2>1. s.ep[e].st = "ACTIVE"
    BY <1>2, EpOf DEF EpFits
  <2>2. v.from[1] = "c" /\ v.from[2] \in Endpoint
    BY <1>1, <1>2, <2>1 DEF Fits, Session
  <2> DEFINE c == v.from[2]
             q == <<"b", c>>
             u == WithSession(s, e, c)
             w == nn_sinproc_accept(u, q, Twin(q))
  <2>3. q \in Session /\ Twin(q) = v.from
    BY <1>1, <2>2 DEF Session, Twin
  <2>4. nn_binproc_handler(s, e, v) = IF u.abort # "no" THEN u ELSE w
    BY <1>2, <2>3 DEF nn_binproc_handler
  <2> HIDE DEF c
  <2>5. Step(s, u)
    BY <2>1, <2>2, WithSessionStep DEF c
  <2> HIDE DEF u, q
  <2>6. Step(u, w)
    BY <2>3, <2>5, SinprocAcceptStep DEF Step
  <2> QED
    BY <2>4, <2>5, <2>6, StepTwice
<1>3. CASE s.ep[e].base = "STOPPING" /\ v.type = "STOPPED"
  <2> DEFINE u == nn_sinproc_term(s, v.from)
             Q == u.ep[e].sessions \ {v.from}
             w == [u EXCEPT !.ep[e].sessions = Q]
  <2>1. Step(s, u) /\ u.ep = s.ep /\ (u.abort = "no" => Blank(u.sess[v.from]))
    BY <1>1, SinprocTermStep, SinprocTermEps
  <2>q. u.ep[e].sessions \ Q \subseteq {v.from}
    OBVIOUS
  <2>2. nn_binproc_handler(s, e, v) = BinprocStopped(w, e)
    BY <1>3 DEF nn_binproc_handler
  <2>3. Q \in SUBSET ({"b"} \X Endpoint)
    <3>1. u.ep[e] \in EpType
      BY <2>1, EpOf DEF Step
    <3> QED
      BY <3>1 DEF EpType
  <2> HIDE DEF u, Q
  <2>4. Step(u, w) /\ SameEps(u, w)
    BY <2>1, <2>3, <2>q, SetSessionsStep DEF Step
  <2>5. s.ep[e].st # "NONE"
    BY <1>3, EpOf DEF EpFits
  <2> HIDE DEF w
  <2>6. Step(w, BinprocStopped(w, e))
    BY <2>1, <2>4, <2>5, BinprocStoppedStep DEF Step, SameEps
  <2> QED
    BY <2>1, <2>2, <2>4, <2>6, StepTwice
<1>4. CASE s.ep[e].base = "STOPPING" /\ v.type = "CONNECT"
  BY <1>0, <1>4 DEF nn_binproc_handler
<1>5. CASE /\ ~(s.ep[e].base = "ACTIVE" /\ v.type = "CONNECT")
           /\ ~(s.ep[e].base = "STOPPING" /\ v.type \in {"STOPPED", "CONNECT"})
  <2>1. nn_binproc_handler(s, e, v) = Bad(s)
    BY <1>5 DEF nn_binproc_handler
  <2> QED
    BY <1>0, <2>1
<1> QED
  BY <1>2, <1>3, <1>4, <1>5

(* nn_cinproc_handler is a step: a CONNECT comes from its own address.     *)
LEMMA CinprocHandlerStep ==
  ASSUME NEW s, Good(s), NEW e \in Endpoint, s.ep[e].kind # "bind",
         NEW v \in OwnEvent \cup ToEvent, v.to = <<"base", e>>, Fits(s, v)
  PROVE  Step(s, nn_cinproc_handler(s, e, v))
<1>0. Step(s, Bad(s)) /\ Step(s, Abort(s, "address_bound_again"))
  BY BadStep, AbortStep DEF Why
<1>1. v.from \in Session
  BY DEF OwnEvent, ToEvent, SessEvent, FurtherEvent, EventOf, SocketName, EndpointName, BaseName, Session
<1>2. CASE s.ep[e].base = "DISCONNECTED" /\ v.type = "CONNECT"
  <2>1. s.ep[e].st = "ACTIVE"
    BY <1>2, EpOf DEF EpFits
  <2>2. v.from = <<"b", e>>
    BY <1>1, <1>2, <2>1 DEF Fits, Session
  <2> DEFINE q == <<"c", e>>
             u == [s EXCEPT !.ep[e].base = "ACTIVE"]
             w == nn_sinproc_accept(u, q, Twin(q))
  <2>3. q \in Session /\ Twin(q) = v.from
    BY <2>2 DEF Session, Twin
  <2>4. nn_cinproc_handler(s, e, v) = w
    BY <1>2, <2>3 DEF nn_cinproc_handler
  <2>5. Step(s, u)
    BY <2>1, SetBaseStep DEF BaseState
  <2> HIDE DEF u, q
  <2>6. Step(u, w)
    BY <2>3, <2>5, SinprocAcceptStep DEF Step
  <2> QED
    BY <2>4, <2>5, <2>6, StepTwice
<1>3. CASE s.ep[e].base = "STOPPING"
  <2>1. nn_cinproc_handler(s, e, v) = CinprocStopped(s, e)
    BY <1>3 DEF nn_cinproc_handler
  <2>2. s.ep[e].st # "NONE"
    BY <1>3, EpOf DEF EpFits
  <2> QED
    BY <2>1, <2>2, CinprocStoppedStep
<1>4. CASE /\ ~(s.ep[e].base = "DISCONNECTED" /\ v.type = "CONNECT")
           /\ s.ep[e].base # "STOPPING"
  <2>1. nn_cinproc_handler(s, e, v) \in {Bad(s), Abort(s, "address_bound_again")}
    BY <1>4 DEF nn_cinproc_handler
  <2> QED
    BY <1>0, <2>1
<1> QED
  BY <1>2, <1>3, <1>4

(* A stopped endpoint without an address may leave ACTIVE.                 *)
LEMMA SetEpStep ==
  ASSUME NEW s, Good(s), NEW e \in Endpoint, NEW x \in {"STOPPING", "IDLE"},
         s.ep[e].st \notin {"NONE", "FREED"}, s.ep[e].base \in {"STOPPING", "IDLE"},
         s.bound # e, e \notin s.connected
  PROVE  Step(s, [s EXCEPT !.ep[e].st = x])
<1> DEFINE r == [s.ep[e] EXCEPT !.st = x]
<1>1. s.ep[e] \in EpType /\ EpFits(s.ep[e])
  BY EpOf
<1>2. r \in EpType /\ r.sock = s.ep[e].sock /\ r.st = x /\ r.kind = s.ep[e].kind /\ r.base = s.ep[e].base
      /\ r.sessions = s.ep[e].sessions
  BY <1>1 DEF EpType, EpState
<1>3. EpFits(r)
  BY <1>1, <1>2 DEF EpFits
<1> HIDE DEF r
<1>4. Step(s, [s EXCEPT !.ep[e] = r])
  BY <1>2, <1>3, EpStep, HousesKept DEF InUse
<1> QED
  BY <1>4 DEF r

(* nn_ep_stop is a step.                                                   *)
LEMMA EpStopStep ==
  ASSUME NEW s, Good(s), NEW e \in Endpoint
  PROVE  Step(s, nn_ep_stop(s, e))
<1> SUFFICES ASSUME s.ep[e].st = "ACTIVE" PROVE Step(s, nn_ep_stop(s, e))
  BY StepNot DEF nn_ep_stop
<1> DEFINE u == IF s.ep[e].kind = "bind" THEN nn_binproc_stop(s, e) ELSE nn_cinproc_stop(s, e)
           w == [u EXCEPT !.ep[e].st = "STOPPING"]
<1>1. Step(s, u) /\ u.ep[e].base \in {"STOPPING", "IDLE"} /\ u.ep[e].st = s.ep[e].st
      /\ u.bound # e /\ e \notin u.connected
  BY BinprocStopStep, CinprocStopStep
<1>2. nn_ep_stop(s, e) = w
  BY DEF nn_ep_stop
<1> HIDE DEF u
<1>3. Step(u, w)
  BY <1>1, SetEpStep DEF Step
<1> QED
  BY <1>1, <1>2, <1>3, StepTwice

(* An endpoint that is not active is at no address.                        *)
LEMMA NotAddressed ==
  ASSUME NEW s, Good(s), NEW e \in Endpoint, s.ep[e].st # "ACTIVE"
  PROVE  s.bound # e /\ e \notin s.connected /\ s.ep[e].base \in {"STOPPING", "IDLE"}
<1>1. s.ep[e] \in EpType /\ EpFits(s.ep[e])
  BY EpOf
<1>2. s.ep[e].base \in {"STOPPING", "IDLE"}
  BY <1>1 DEF EpType, EpFits, BaseState
<1>3. e # 0
  BY DEF Endpoint
<1> QED
  BY <1>2, <1>3 DEF Good, Addressed

(* nn_ep_handler is a step.                                                *)
LEMMA EpHandlerStep ==
  ASSUME NEW s, Good(s), NEW e \in Endpoint
  PROVE  Step(s, nn_ep_handler(s, e))
<1> SUFFICES ASSUME s.ep[e].st = "STOPPING" PROVE Step(s, nn_ep_handler(s, e))
  BY BadStep DEF nn_ep_handler
<1> DEFINE o == s.ep[e].sock
           u == [s EXCEPT !.ep[e].st = "IDLE"]
           w == Raise(u, <<<<"ep", e>>, "stopped">>, <<"sock", o>>, "EP_STOPPED", <<"ep", e>>)
<1>1. o \in Socket \cup {0}
  <2>1. s.ep[e] \in EpType
    BY EpOf
  <2> QED
    BY <2>1 DEF EpType
<1>2. nn_ep_handler(s, e) = w
  BY DEF nn_ep_handler
<1>3. Step(s, u)
  BY SetEpStep, NotAddressed
<1> HIDE DEF u, o
<1>4. Step(u, w)
  BY <1>1, <1>3, EpEvent, RaiseStep DEF Step
<1> QED
  BY <1>2, <1>3, <1>4, StepTwice

(* nn_ep_term of one endpoint is a step: its sessions are freed with it.   *)
LEMMA EpTermOfStep ==
  ASSUME NEW s, Good(s), NEW e \in Endpoint
  PROVE  LET z == nn_ep_term(s, e) IN
         Step(s, z) /\ z.sock = s.sock /\ (z.abort = "no" => z.ep[e].st = "FREED")
<1>b. Step(s, Bad(s)) /\ Bad(s).sock = s.sock /\ Bad(s).abort # "no"
  BY BadStep DEF Bad, Abort, Good, ProcType
<1> SUFFICES ASSUME s.ep[e].st = "IDLE", s.ep[e].sessions = {}
             PROVE  LET z == nn_ep_term(s, e) IN
                    Step(s, z) /\ z.sock = s.sock /\ (z.abort = "no" => z.ep[e].st = "FREED")
  BY <1>b DEF nn_ep_term
<1> DEFINE u == IF s.ep[e].kind = "bind" THEN s ELSE nn_sinproc_term(s, <<"c", e>>)
           r == [u.ep[e] EXCEPT !.st = "FREED", !.kind = "none"]
           w == [u EXCEPT !.ep[e] = r]
<1>1. /\ Step(s, u) /\ u.ep = s.ep /\ u.bound = s.bound /\ u.connected = s.connected
      /\ u.sock = s.sock
      /\ u.abort = "no" => s.ep[e].kind = "bind" \/ Blank(u.sess[<<"c", e>>])
  <2> DEFINE q == <<"c", e>>
  <2>1. q \in Session
    BY DEF Session
  <2> HIDE DEF q
  <2>2. LET x == nn_sinproc_term(s, q) IN
        /\ Step(s, x) /\ x.ep = s.ep /\ x.bound = s.bound /\ x.connected = s.connected
        /\ x.sock = s.sock /\ (x.abort = "no" => Blank(x.sess[q]))
    BY <2>1, SinprocTermStep, SinprocTermEps
  <2> QED
    BY <2>2, StepNot DEF q
<1>2. nn_ep_term(s, e) = w
  BY DEF nn_ep_term
<1> HIDE DEF u
<1>3. u.ep[e] \in EpType /\ EpFits(u.ep[e])
  BY <1>1, EpOf DEF Step
<1>4. r \in EpType /\ r.sock = u.ep[e].sock /\ r.st = "FREED" /\ r.base = u.ep[e].base
  BY <1>3 DEF EpType, EpState
<1>5. EpFits(r)
  BY <1>1, <1>3, <1>4 DEF EpFits
<1>6. u.bound # e /\ e \notin u.connected
  BY <1>1, NotAddressed
<1> HIDE DEF r
<1>h. Houses(u, e, r)
  <2> SUFFICES ASSUME u.abort = "no", NEW q \in Session, ~Blank(u.sess[q]), u.sess[q].ep = e
               PROVE  FALSE
    BY <1>4 DEF Houses, InUse
  <2>1. HousedAt(u.ep[e], q)
    BY <1>1 DEF Step, Good, Life, Housed
  <2>2. q[1] # "b" /\ u.ep[e].kind = "connect"
    BY <2>1, <1>1 DEF HousedAt
  <2>3. q = <<"c", q[2]>> /\ q[2] \in Endpoint
    BY <2>2 DEF Session
  <2>4. q[2] = e
    BY <2>3, <1>1 DEF Step, Good, Homes
  <2> QED
    BY <2>2, <2>3, <2>4, <1>1
<1>7. Step(u, w)
  BY <1>1, <1>4, <1>5, <1>6, <1>h, EpStep DEF Step
<1>8. w.sock = s.sock /\ w.ep[e] = r
  BY <1>1 DEF Step, Good, ProcType
<1> QED
  BY <1>1, <1>2, <1>4, <1>7, <1>8, StepTwice

(* A socket is well typed.                                                 *)
LEMMA SockOf ==
  ASSUME NEW s, Good(s), NEW o \in Socket
  PROVE  s.sock[o] \in SockType
BY DEF Good, ProcType

(* nn_sinproc_term does not read the sockets.                              *)
LEMMA SinprocTermOtherSock ==
  ASSUME NEW s, s \in ProcType, NEW q \in Session, NEW S
  PROVE  nn_sinproc_term([s EXCEPT !.sock = S], q) = [nn_sinproc_term(s, q) EXCEPT !.sock = S]
<1> DEFINE u == [s EXCEPT !.sock = S]
           g == [NewSession(s.sess[q].ep) EXCEPT !.st = "FREED"]
           B(z) == z.sess[q].pipe # "IDLE" \/ z.sess[q].st \notin {"IDLE", "STOPPED"}
           I(z) == \E name \in {"connect", "sent", "received", "disconnect", "stopped", "in", "out"} :
                     InQueue(z, <<q, name>>)
<1>1. /\ u.ep = s.ep /\ u.sess = s.sess /\ u.abort = s.abort /\ u.pend = s.pend
      /\ u.events = s.events /\ u.eventsto = s.eventsto
  BY DEF ProcType
<1>2. \A why : Abort(u, why) = [Abort(s, why) EXCEPT !.sock = S]
  BY DEF Abort, ProcType
<1>3. [u EXCEPT !.sess[q] = g] = [[s EXCEPT !.sess[q] = g] EXCEPT !.sock = S]
  <2> HIDE DEF g
  <2> QED
    BY DEF ProcType
<1>4. (B(u) <=> B(s)) /\ (I(u) <=> I(s))
  <2> HIDE DEF u
  <2>1. \A name : InQueue(u, name) = InQueue(s, name)
    BY <1>1 DEF InQueue
  <2> QED
    BY <2>1, <1>1
<1>5. nn_sinproc_term(s, q) = IF B(s) THEN Abort(s, "unexpected")
                              ELSE IF I(s) THEN Abort(s, "frees_queued_event")
                              ELSE [s EXCEPT !.sess[q] = g]
  BY DEF nn_sinproc_term, Bad
<1>6. nn_sinproc_term(u, q) = IF B(u) THEN Abort(u, "unexpected")
                              ELSE IF I(u) THEN Abort(u, "frees_queued_event")
                              ELSE [u EXCEPT !.sess[q] = g]
  <2>1. g = [NewSession(u.sess[q].ep) EXCEPT !.st = "FREED"]
    BY <1>1
  <2> HIDE DEF g, u
  <2> QED
    BY <2>1 DEF nn_sinproc_term, Bad
<1> HIDE DEF B, I, u, g
<1>7. nn_sinproc_term(u, q) = [nn_sinproc_term(s, q) EXCEPT !.sock = S]
  BY <1>2, <1>3, <1>4, <1>5, <1>6
<1> QED
  BY <1>7 DEF u

(* nn_ep_term does not read the sockets.                                   *)
LEMMA EpTermOtherSock ==
  ASSUME NEW s, Good(s), NEW e \in Endpoint, NEW S
  PROVE  nn_ep_term([s EXCEPT !.sock = S], e) = [nn_ep_term(s, e) EXCEPT !.sock = S]
<1> DEFINE u == [s EXCEPT !.sock = S]
           T(z) == IF z.ep[e].kind = "bind" THEN z ELSE nn_sinproc_term(z, <<"c", e>>)
           F(z) == [z EXCEPT !.ep[e] = [@ EXCEPT !.st = "FREED", !.kind = "none"]]
           B(z) == z.ep[e].st # "IDLE" \/ z.ep[e].sessions # {}
<1>1. u.ep = s.ep /\ s \in ProcType
  BY DEF Good, ProcType
<1>2. Abort(u, "unexpected") = [Abort(s, "unexpected") EXCEPT !.sock = S]
  BY DEF Abort, Good, ProcType
<1>3. T(u) = [T(s) EXCEPT !.sock = S]
  <2>1. <<"c", e>> \in Session
    BY DEF Session
  <2>2. nn_sinproc_term(u, <<"c", e>>) = [nn_sinproc_term(s, <<"c", e>>) EXCEPT !.sock = S]
    BY <1>1, <2>1, SinprocTermOtherSock
  <2> QED
    BY <1>1, <2>2
<1>4. F([T(s) EXCEPT !.sock = S]) = [F(T(s)) EXCEPT !.sock = S]
  <2>1. <<"c", e>> \in Session
    BY DEF Session
  <2>2. T(s) \in ProcType
    BY <1>1, <2>1, SinprocTermStep DEF Step, Good
  <2> HIDE DEF T
  <2> DEFINE a == T(s)
  <2> HIDE DEF a
  <2>3. a \in ProcType
    BY <2>2 DEF a
  <2>4. F([a EXCEPT !.sock = S]) = [F(a) EXCEPT !.sock = S]
    BY <2>3 DEF ProcType
  <2> QED
    BY <2>4 DEF a
<1>5. nn_ep_term(s, e) = IF B(s) THEN Abort(s, "unexpected") ELSE F(T(s))
  BY DEF nn_ep_term, Bad
<1>6. nn_ep_term(u, e) = IF B(u) THEN Abort(u, "unexpected") ELSE F(T(u))
  <2> HIDE DEF u
  <2> QED
    BY DEF nn_ep_term, Bad
<1>7. B(u) <=> B(s)
  BY <1>1
<1> HIDE DEF B, F, T, u
<1>8. nn_ep_term(u, e) = [nn_ep_term(s, e) EXCEPT !.sock = S]
  BY <1>2, <1>3, <1>4, <1>5, <1>6, <1>7
<1> QED
  BY <1>8 DEF u

(* A stopped endpoint leaves its socket's list and is freed: a step, since *)
(* each endpoint is in one list only.                                      *)
LEMMA EpTermStep ==
  ASSUME NEW s, Good(s), NEW o \in Socket \cup {0}, NEW v, v.from \in EndpointName
  PROVE  Step(s, EpTerm(s, o, v))
<1> DEFINE e == v.from[2]
           k == [s.sock[o] EXCEPT !.sdeps = @ \ {e}]
           u == [s EXCEPT !.sock[o] = k]
           x == nn_ep_term(s, e)
           w == [x EXCEPT !.sock[o] = k]
<1>1. e \in Endpoint
  BY DEF EndpointName
<1>2. EpTerm(s, o, v) = nn_ep_term(u, e)
  BY DEF EpTerm
<1> HIDE DEF e
<1>4. Step(s, x) /\ x.sock = s.sock /\ (x.abort = "no" => x.ep[e].st = "FREED")
  BY <1>1, EpTermOfStep
<1>3. nn_ep_term(u, e) = w
  <2> DEFINE S == [s.sock EXCEPT ![o] = k]
  <2>1. u = [s EXCEPT !.sock = S]
    OBVIOUS
  <2>2. w = [x EXCEPT !.sock = S]
    BY <1>4
  <2> HIDE DEF S, w
  <2>3. nn_ep_term([s EXCEPT !.sock = S], e) = [x EXCEPT !.sock = S]
    BY <1>1, EpTermOtherSock
  <2> QED
    BY <2>1, <2>2, <2>3
<1> HIDE DEF x
<1>5. Step(x, w)
  <2>1. CASE o = 0
    <3>1. w = x
      BY <2>1, <1>4, ZeroSock DEF Good, Step
    <3> QED
      BY <3>1, <1>4, StepNot DEF Step
  <2>2. CASE o \in Socket
    <3>1. s.sock[o] \in SockType
      BY <2>2, SockOf
    <3>2. /\ k \in SockType /\ k.st = s.sock[o].st /\ k.lock = s.sock[o].lock
          /\ k.optset = s.sock[o].optset /\ k.eps = s.sock[o].eps
          /\ k.sdeps = s.sock[o].sdeps \ {e}
      BY <3>1 DEF SockType
    <3> HIDE DEF k
    <3>3. SameOwner(x, x.sock[o], k)
      BY <2>2, <3>2, <1>4 DEF Step, Good, Life, Bare, SameOwner, InUse
    <3> QED
      BY <2>2, <3>2, <3>3, <1>4, SockStep DEF Step
  <2> QED
    BY <2>1, <2>2
<1> QED
  BY <1>2, <1>3, <1>4, <1>5, StepTwice

(* The end of nn_sock_shutdown, which posts termsem, is a step.            *)
LEMMA SockStoppedStep ==
  ASSUME NEW s, Good(s), NEW o \in Socket \cup {0},
         o # 0 => s.sock[o].st \notin {"NONE", "FREED"}
  PROVE  Step(s, SockStopped(s, o))
<1> DEFINE k == [s.sock[o] EXCEPT !.st = "CLOSED", !.sem = TRUE]
           u == [s EXCEPT !.sock[o] = k]
<1>1. Step(s, s) /\ Step(s, Bad(s))
  BY StepNot, BadStep
<1>2. SockStopped(s, o) \in {s, Bad(s), u}
  <2>1. u = [s EXCEPT !.sock[o].st = "CLOSED", !.sock[o].sem = TRUE]
    <3>1. CASE o = 0
      <4> DEFINE a == [s EXCEPT !.sock[0].st = "CLOSED"]
                 c == [a EXCEPT !.sock[0].sem = TRUE]
      <4>1. u = s /\ a = s
        BY <3>1, ZeroSock DEF Good
      <4>2. c = a
        <5> HIDE DEF a
        <5> QED
          BY <4>1, ZeroSock DEF Good
      <4>3. [s EXCEPT !.sock[0].st = "CLOSED", !.sock[0].sem = TRUE] = c
        OBVIOUS
      <4> HIDE DEF a, c, u
      <4> QED
        BY <3>1, <4>1, <4>2, <4>3
    <3>2. CASE o \in Socket
      BY <3>2 DEF Good, ProcType
    <3> QED
      BY <3>1, <3>2
  <2> QED
    BY <2>1 DEF SockStopped
<1>3. Step(s, u)
  <2>1. CASE o = 0
    <3>1. u = s
      BY <2>1, ZeroSock DEF Good
    <3> QED
      BY <3>1, StepNot
  <2>2. CASE o \in Socket
    <3>1. s.sock[o] \in SockType
      BY <2>2, SockOf
    <3>2. k \in SockType /\ k.st = "CLOSED" /\ k.lock = s.sock[o].lock
          /\ k.optset = s.sock[o].optset /\ k.eps = s.sock[o].eps /\ k.sdeps = s.sock[o].sdeps
      BY <3>1 DEF SockType, SockState
    <3>3. o # 0
      BY <2>2 DEF Socket
    <3> HIDE DEF k
    <3> QED
      BY <2>2, <3>2, <3>3, SockStep, SameOwnerKept DEF InUse
  <2> QED
    BY <2>1, <2>2
<1> HIDE DEF u
<1> QED
  BY <1>1, <1>2, <1>3

-----------------------------------------------------------------------------
(* Sockets, and the loop of a context (sock.c, ctx.c)                      *)

(* The members of the rest of a sequence.                                  *)
LEMMA Shifted ==
  ASSUME NEW X, NEW A \in Seq(X), A # <<>>, NEW i \in DOMAIN Tail(A)
  PROVE  i + 1 \in DOMAIN A /\ Tail(A)[i] = A[i + 1] /\ i + 1 # 1 /\ 1 \in DOMAIN A /\ i \in Nat
OBVIOUS

(* An event that leaves the front of its queue is in no queue any more.    *)
LEMMA FlowTail ==
  ASSUME NEW s, NEW u, Flow(s), NEW n \in At, NEW X, QueueAt(s, n) \in Seq(X), QueueAt(s, n) # <<>>,
         QueueAt(u, n) = Tail(QueueAt(s, n)), \A k \in At \ {n} : QueueAt(u, k) = QueueAt(s, k),
         Hands(s) => Hands(u), u.sess = s.sess, u.abort = s.abort
  PROVE  Flow(u) /\ Handed(u, QueueAt(s, n)[1])
<1> SUFFICES ASSUME s.abort = "no" PROVE Flow(u) /\ Handed(u, QueueAt(s, n)[1])
  BY DEF Flow, Handed
<1> DEFINE A == QueueAt(s, n)
<1>1. ASSUME NEW i \in DOMAIN QueueAt(u, n)
      PROVE  i + 1 \in DOMAIN A /\ QueueAt(u, n)[i] = A[i + 1] /\ i + 1 # 1 /\ i \in Nat
  <2>1. A \in Seq(X) /\ A # <<>> /\ QueueAt(u, n) = Tail(A) /\ i \in DOMAIN Tail(A)
    OBVIOUS
  <2> HIDE DEF A
  <2> QED
    BY <2>1, Shifted
<1>2. 1 \in DOMAIN A
  <2>1. A \in Seq(X) /\ A # <<>>
    OBVIOUS
  <2> HIDE DEF A
  <2> QED
    BY <2>1
<1>3. Uniq(s) /\ Hands(s) /\ Due(s) /\ Streams(s) /\ Clean(s)
  BY DEF Flow
<1>4. \A w : EvFits(u, w) <=> EvFits(s, w)
  BY DEF EvFits, Paired
<1>5. Streams(u) /\ Clean(u) /\ Hands(u)
  BY <1>3 DEF Streams, Paired, Clean
<1>6. ASSUME NEW k \in At, NEW i \in DOMAIN QueueAt(u, k)
      PROVE  \/ k # n /\ i \in DOMAIN QueueAt(s, k) /\ QueueAt(u, k)[i] = QueueAt(s, k)[i]
             \/ k = n /\ i + 1 \in DOMAIN QueueAt(s, k) /\ QueueAt(u, k)[i] = QueueAt(s, k)[i + 1]
                /\ i + 1 # 1 /\ i \in Nat
  BY <1>1
<1> HIDE DEF A
<1>7. Due(u)
  BY <1>3, <1>4, <1>6 DEF Due
<1>8. Uniq(u)
  <2> SUFFICES ASSUME NEW k \in At, NEW l \in At,
                      NEW i \in DOMAIN QueueAt(u, k), NEW j \in DOMAIN QueueAt(u, l),
                      QueueAt(u, k)[i].slot = QueueAt(u, l)[j].slot
               PROVE  k = l /\ i = j
    BY DEF Uniq
  <2>1. CASE k = n /\ l = n
    <3>1. i + 1 \in DOMAIN QueueAt(s, n) /\ j + 1 \in DOMAIN QueueAt(s, n) /\ i \in Nat /\ j \in Nat
          /\ QueueAt(s, n)[i + 1].slot = QueueAt(s, n)[j + 1].slot
      BY <2>1, <1>6
    <3>2. i + 1 = j + 1
      BY <3>1, <1>3 DEF Uniq
    <3> QED
      BY <3>1, <3>2, <2>1
  <2>2. CASE k = n /\ l # n
    BY <2>2, <1>6, <1>3 DEF Uniq
  <2>3. CASE k # n /\ l = n
    BY <2>3, <1>6, <1>3 DEF Uniq
  <2>4. CASE k # n /\ l # n
    BY <2>4, <1>6, <1>3 DEF Uniq
  <2> QED
    BY <2>1, <2>2, <2>3, <2>4
<1>9. Flow(u)
  BY <1>5, <1>7, <1>8 DEF Flow
<1>10. Gone(u, A[1].slot)
  <2> SUFFICES ASSUME NEW k \in At, NEW i \in DOMAIN QueueAt(u, k),
                      QueueAt(u, k)[i].slot = QueueAt(s, n)[1].slot
               PROVE  FALSE
    BY DEF Gone, A
  <2>1. 1 \in DOMAIN QueueAt(s, n)
    BY <1>2 DEF A
  <2> QED
    BY <2>1, <1>3, <1>6 DEF Uniq
<1>11. EvFits(u, A[1])
  BY <1>2, <1>3, <1>4 DEF Due, A
<1> QED
  BY <1>9, <1>10, <1>11 DEF Handed, A

(* The members of two sequences put together.                              *)
LEMMA Joined ==
  ASSUME NEW X, NEW A \in Seq(X), NEW B \in Seq(X), NEW i \in DOMAIN (A \o B)
  PROVE  /\ i \in Nat /\ Len(A) \in Nat
         /\ \/ i \in DOMAIN A /\ (A \o B)[i] = A[i]
            \/ i - Len(A) \in DOMAIN B /\ (A \o B)[i] = B[i - Len(A)]
<1>1. i \in 1 .. Len(A) + Len(B) /\ Len(A) \in Nat /\ Len(B) \in Nat
  OBVIOUS
<1> QED
  BY <1>1

(* One queue moved behind another keeps the flow.                          *)
LEMMA FlowJoin ==
  ASSUME NEW s, NEW u, Flow(s), NEW n \in At, NEW m \in At, n # m, NEW X,
         QueueAt(s, n) \in Seq(X), QueueAt(s, m) \in Seq(X),
         QueueAt(u, n) = QueueAt(s, m) \o QueueAt(s, n), QueueAt(u, m) = <<>>,
         \A k \in At \ {n, m} : QueueAt(u, k) = QueueAt(s, k),
         Hands(s) => Hands(u), u.sess = s.sess, u.abort = s.abort
  PROVE  Flow(u)
<1> SUFFICES ASSUME s.abort = "no" PROVE Flow(u)
  BY DEF Flow
<1> DEFINE A == QueueAt(s, m)
           B == QueueAt(s, n)
           c == Len(A)
<1>1. ASSUME NEW i \in DOMAIN QueueAt(u, n)
      PROVE  /\ i \in Nat /\ c \in Nat
             /\ \/ i \in DOMAIN A /\ QueueAt(u, n)[i] = A[i]
                \/ i - c \in DOMAIN B /\ QueueAt(u, n)[i] = B[i - c]
  <2>1. A \in Seq(X) /\ B \in Seq(X) /\ QueueAt(u, n) = A \o B /\ i \in DOMAIN (A \o B)
    OBVIOUS
  <2> HIDE DEF A, B
  <2> QED
    BY <2>1, Joined
<1>3. Uniq(s) /\ Hands(s) /\ Due(s) /\ Streams(s) /\ Clean(s)
  BY DEF Flow
<1>4. \A w : EvFits(u, w) <=> EvFits(s, w)
  BY DEF EvFits, Paired
<1>5. Streams(u) /\ Clean(u) /\ Hands(u)
  BY <1>3 DEF Streams, Paired, Clean
<1> HIDE DEF c
<1>6. ASSUME NEW k \in At, NEW i \in DOMAIN QueueAt(u, k)
      PROVE  \/ k \notin {n, m} /\ i \in DOMAIN QueueAt(s, k) /\ QueueAt(u, k)[i] = QueueAt(s, k)[i]
             \/ k = n /\ i \in DOMAIN QueueAt(s, m) /\ QueueAt(u, k)[i] = QueueAt(s, m)[i]
             \/ k = n /\ i - c \in DOMAIN QueueAt(s, n) /\ QueueAt(u, k)[i] = QueueAt(s, n)[i - c]
                /\ i \in Nat /\ c \in Nat
  <2>1. CASE k = n
    BY <1>1, <2>1
  <2>2. CASE k = m
    BY <2>2
  <2>3. CASE k \notin {n, m}
    BY <2>3
  <2> QED
    BY <2>1, <2>2, <2>3
<1> HIDE DEF A, B
<1>7. Due(u)
  BY <1>3, <1>4, <1>6 DEF Due
<1>8. Uniq(u)
  <2> SUFFICES ASSUME NEW k \in At, NEW l \in At,
                      NEW i \in DOMAIN QueueAt(u, k), NEW j \in DOMAIN QueueAt(u, l),
                      QueueAt(u, k)[i].slot = QueueAt(u, l)[j].slot
               PROVE  k = l /\ i = j
    BY DEF Uniq
  <2>1. \A x, y \in At : \A a \in DOMAIN QueueAt(s, x), b \in DOMAIN QueueAt(s, y) :
          QueueAt(s, x)[a].slot = QueueAt(s, y)[b].slot => x = y /\ a = b
    BY <1>3 DEF Uniq
  <2>2. CASE k # n /\ l # n
    BY <2>1, <2>2, <1>6
  <2>3. CASE k = n /\ l # n
    BY <2>1, <2>3, <1>6
  <2>4. CASE k # n /\ l = n
    BY <2>1, <2>4, <1>6
  <2>5. CASE k = n /\ l = n
    <3>1. \/ i \in DOMAIN QueueAt(s, m) /\ QueueAt(u, k)[i] = QueueAt(s, m)[i]
          \/ i - c \in DOMAIN QueueAt(s, n) /\ QueueAt(u, k)[i] = QueueAt(s, n)[i - c]
             /\ i \in Nat /\ c \in Nat
      BY <2>5, <1>6
    <3>2. \/ j \in DOMAIN QueueAt(s, m) /\ QueueAt(u, l)[j] = QueueAt(s, m)[j]
          \/ j - c \in DOMAIN QueueAt(s, n) /\ QueueAt(u, l)[j] = QueueAt(s, n)[j - c]
             /\ j \in Nat /\ c \in Nat
      BY <2>5, <1>6
    <3>3. i = j \/ (i - c = j - c /\ i \in Nat /\ j \in Nat /\ c \in Nat)
      BY <3>1, <3>2, <2>1
    <3> QED
      BY <3>3, <2>5
  <2> QED
    BY <2>2, <2>3, <2>4, <2>5
<1> QED
  BY <1>5, <1>7, <1>8 DEF Flow

(* nn_sock_stop is a step.                                                 *)
LEMMA SockStopStep ==
  ASSUME NEW s, Good(s), NEW o \in Socket
  PROVE  Step(s, nn_sock_stop(s, o))
<1> SUFFICES ASSUME s.sock[o].st \in {"ACTIVE", "ZOMBIE"} PROVE Step(s, nn_sock_stop(s, o))
  BY StepNot DEF nn_sock_stop
<1> DEFINE k == [s.sock[o] EXCEPT !.st = "STOPPING_EPS", !.efd = {}, !.eps = {},
                                  !.sdeps = s.sock[o].sdeps \cup s.sock[o].eps]
           b == [s EXCEPT !.sock[o] = k]
           S == {u \in ProcType : Step(b, u)}
<1>1. s.sock[o] \in SockType
  BY SockOf
<1>2. k \in SockType /\ k.st = "STOPPING_EPS" /\ k.lock = s.sock[o].lock
      /\ k.optset = s.sock[o].optset /\ k.eps = {} /\ k.sdeps = s.sock[o].sdeps \cup s.sock[o].eps
  <2>1. s.sock[o].sdeps \cup s.sock[o].eps \in SUBSET Endpoint /\ {} \in SUBSET Endpoint
        /\ {} \in SUBSET Way
    BY <1>1 DEF SockType
  <2> DEFINE a == [s.sock[o] EXCEPT !.st = "STOPPING_EPS", !.efd = {}]
             D == s.sock[o].sdeps \cup s.sock[o].eps
  <2>2. /\ a \in SockType /\ a.st = "STOPPING_EPS" /\ a.lock = s.sock[o].lock
        /\ a.optset = s.sock[o].optset /\ a.sdeps = s.sock[o].sdeps
    BY <1>1, <2>1 DEF SockType, SockState
  <2>3. k = [a EXCEPT !.eps = {}, !.sdeps = D]
    BY <1>1 DEF SockType
  <2> HIDE DEF a, k, D
  <2> QED
    BY <2>1, <2>2, <2>3 DEF SockType, D
<1>3. b = SockStopping(s, o) /\ b.sock[o] = k
  BY DEF Good, ProcType, SockStopping
<1> HIDE DEF k
<1>o. SameOwner(s, s.sock[o], k)
  BY <1>2 DEF SameOwner, InUse
<1>4. Step(s, b) /\ b.sock[o].st = "STOPPING_EPS"
  BY <1>2, <1>3, <1>o, SockStep
<1> HIDE DEF b
<1>5. b \in S
  BY <1>4, StepNot DEF Step, Good
<1>6. \A u \in S, e \in Endpoint : e \in s.sock[o].eps => nn_ep_stop(u, e) \in S
  <2> SUFFICES ASSUME NEW u \in S, NEW e \in Endpoint PROVE nn_ep_stop(u, e) \in S
    OBVIOUS
  <2>1. Step(u, nn_ep_stop(u, e))
    BY EpStopStep DEF Step
  <2>2. Step(b, nn_ep_stop(u, e))
    BY <2>1, StepTwice
  <2> QED
    BY <2>1, <2>2 DEF Step, Good
<1> HIDE DEF S
<1>7. PICK u \in S : nn_sock_stop(s, o) = SockStopped(u, o)
  <2>1. \E u \in S : nn_sock_stop(s, o) = SockStopped(u, o)
    BY <1>3, <1>5, <1>6, SockLoop
  <2> QED
    BY <2>1
<1>8. Step(b, u)
  BY DEF S
<1>9. u.sock[o].st \notin {"NONE", "FREED"}
  BY <1>4, <1>8 DEF Step, Kept
<1>10. Step(u, SockStopped(u, o))
  BY <1>8, <1>9, SockStoppedStep DEF Step
<1> QED
  BY <1>4, <1>7, <1>8, <1>10, StepTwice

(* nn_sock_handler is a step for every event of an endpoint or a pipe.     *)
LEMMA SockHandlerStep ==
  ASSUME NEW s, Good(s), NEW v \in OwnEvent, NEW o \in Socket \cup {0}, v.to = <<"sock", o>>
  PROVE  Step(s, SockHandler(s, o, v))
<1> DEFINE k == s.sock[o]
           u == EpTerm(s, o, v)
<1>0. /\ Step(s, Abort(s, "event_of_zombie")) /\ Step(s, Abort(s, "pipe_event_at_close"))
      /\ Step(s, Bad(s))
  BY AbortStep, BadStep DEF Why
<1>1. \/ v.type = "EP_STOPPED" /\ v.from \in EndpointName
      \/ v.type \in Way /\ v.from \in Session
  BY DEF OwnEvent, EventOf, SocketName, EndpointName, BaseName
<1>2. "EP_STOPPED" \notin Way
  BY DEF Way
<1>3. v.type = "EP_STOPPED" => Step(s, u)
  BY <1>1, <1>2, EpTermStep
<1>4. CASE k.st = "ACTIVE" /\ v.type = "EP_STOPPED"
  BY <1>3, <1>4 DEF SockHandler
<1>5. CASE k.st = "ACTIVE" /\ v.type = "IN"
  BY <1>1, <1>5, ExclInStep DEF SockHandler
<1>6. CASE k.st = "ACTIVE" /\ v.type = "OUT"
  BY <1>1, <1>6, ExclOutStep DEF SockHandler
<1>7. CASE k.st = "ZOMBIE"
  BY <1>0, <1>7 DEF SockHandler
<1>8. CASE k.st = "STOPPING_EPS" /\ v.type = "EP_STOPPED"
  <2>1. SockHandler(s, o, v) = SockStopped(u, o)
    BY <1>8, <1>2 DEF SockHandler
  <2> HIDE DEF u
  <2>2. o # 0 => u.sock[o].st \notin {"NONE", "FREED"}
    BY <1>3, <1>8 DEF Step, Kept
  <2>3. Step(u, SockStopped(u, o))
    BY <1>3, <1>8, <2>2, SockStoppedStep DEF Step
  <2> QED
    BY <1>3, <1>8, <2>1, <2>3, StepTwice
<1>9. CASE k.st = "STOPPING_EPS" /\ v.type \in Way
  BY <1>0, <1>9, <1>2 DEF SockHandler
<1>10. CASE k.st \notin {"ACTIVE", "ZOMBIE", "STOPPING_EPS"}
  <2>1. SockHandler(s, o, v) = Bad(s)
    BY <1>10 DEF SockHandler
  <2> QED
    BY <1>0, <2>1
<1> QED
  BY <1>1, <1>4, <1>5, <1>6, <1>7, <1>8, <1>9, <1>10 DEF Way

(* nn_sock_zombify is a step.                                              *)
LEMMA SockZombifyStep ==
  ASSUME NEW s, Good(s), NEW o \in Socket
  PROVE  Step(s, nn_sock_zombify(s, o))
<1> DEFINE k == [s.sock[o] EXCEPT !.st = "ZOMBIE", !.flags = Way,
                                  !.efd = s.sock[o].efd \cup (Way \ s.sock[o].flags)]
           u == [s EXCEPT !.sock[o] = k]
<1>0. Step(s, Abort(s, "terminated_twice")) /\ Step(s, Abort(s, "terminated_at_close"))
  BY AbortStep DEF Why
<1>1. s.sock[o] \in SockType
  BY SockOf
<1>2. k \in SockType /\ k.st = "ZOMBIE" /\ k.lock = s.sock[o].lock /\ k.optset = s.sock[o].optset
      /\ k.eps = s.sock[o].eps /\ k.sdeps = s.sock[o].sdeps
  BY <1>1 DEF SockType, SockState
<1>3. CASE s.sock[o].st = "ACTIVE"
  <2>1. nn_sock_zombify(s, o) = u
    <3>1. u = [s EXCEPT !.sock[o] = [@ EXCEPT !.st = "ZOMBIE", !.flags = Way,
                                              !.efd = s.sock[o].efd \cup (Way \ s.sock[o].flags)]]
      OBVIOUS
    <3> HIDE DEF u
    <3> QED
      BY <1>3, <3>1, Zenon DEF nn_sock_zombify
  <2> HIDE DEF k
  <2>2. Step(s, u)
    BY <1>2, <1>3, SockStep, SameOwnerKept DEF InUse
  <2> QED
    BY <2>1, <2>2
<1>4. CASE s.sock[o].st # "ACTIVE"
  <2>1. nn_sock_zombify(s, o) \in {Abort(s, "terminated_twice"), Abort(s, "terminated_at_close")}
    BY <1>4 DEF nn_sock_zombify
  <2> QED
    BY <1>0, <2>1
<1> QED
  BY <1>3, <1>4

(* nn_sock_onleave, which sets the two efds as the pipes are, is a step.   *)
LEMMA OnleaveStep ==
  ASSUME NEW s, Good(s), NEW o \in Socket \cup {0}
  PROVE  Step(s, nn_sock_onleave(s, o))
<1>1. CASE o = 0
  <2> DEFINE k == s.sock[o]
             x == nn_xpair_events(s, o)
             a == [s EXCEPT !.sock[o].flags = x]
             w == [a EXCEPT !.sock[o].efd = (@ \cup (x \ k.flags)) \ (k.flags \ x)]
  <2>1. Step(s, Abort(s, "unsignalled_efd")) /\ Step(s, s)
    BY AbortStep, StepNot DEF Why
  <2>2. nn_sock_onleave(s, o) \in {s, Abort(s, "unsignalled_efd"), w}
    BY DEF nn_sock_onleave
  <2>3. a = s
    BY <1>1, ZeroSock DEF Good
  <2> HIDE DEF a, x
  <2>4. w = s
    BY <1>1, <2>3, ZeroSock DEF Good
  <2> HIDE DEF w
  <2> QED
    BY <2>1, <2>2, <2>4
<1>2. CASE o \in Socket
  <2> DEFINE x == nn_xpair_events(s, o)
             k == [s.sock[o] EXCEPT !.flags = x,
                                    !.efd = (@ \cup (x \ s.sock[o].flags)) \ (s.sock[o].flags \ x)]
             w == [s EXCEPT !.sock[o] = k]
  <2>1. Step(s, Abort(s, "unsignalled_efd")) /\ Step(s, s)
    BY AbortStep, StepNot DEF Why
  <2>2. nn_sock_onleave(s, o) \in {s, Abort(s, "unsignalled_efd"), w}
    <3>1. w = [s EXCEPT !.sock[o].flags = x,
                        !.sock[o].efd = (@ \cup (x \ s.sock[o].flags)) \ (s.sock[o].flags \ x)]
      BY <1>2 DEF Good, ProcType
    <3> QED
      BY <3>1 DEF nn_sock_onleave
  <2>3. s.sock[o] \in SockType /\ x \subseteq Way
    BY <1>2, SockOf DEF nn_xpair_events, Way
  <2> HIDE DEF x
  <2>4. k \in SockType /\ k.st = s.sock[o].st /\ k.lock = s.sock[o].lock
        /\ k.optset = s.sock[o].optset /\ k.eps = s.sock[o].eps /\ k.sdeps = s.sock[o].sdeps
    BY <2>3 DEF SockType
  <2> HIDE DEF k
  <2>5. Step(s, w)
    BY <1>2, <2>4, SockStep, SameOwnerKept DEF InUse
  <2> HIDE DEF w
  <2> QED
    BY <2>1, <2>2, <2>5
<1> QED
  BY <1>1, <1>2

(* nn_fsm_feed is a step: every event goes to the handler of its receiver, *)
(* and it is in no queue any more.                                         *)
LEMMA HandleStep ==
  ASSUME NEW s, Good(s), NEW v \in OwnEvent \cup ToEvent, Fits(s, v), Handed(s, v)
  PROVE  Step(s, Handle(s, v))
<1>1. CASE v.to \in SocketName
  <2>1. v \in OwnEvent
    BY <1>1 DEF ToEvent, SessEvent, FurtherEvent, EventOf, SocketName, BaseName, Session
  <2>2. PICK o \in Socket \cup {0} : v.to = <<"sock", o>>
    BY <1>1 DEF SocketName
  <2>3. Handle(s, v) = SockHandler(s, o, v)
    BY <2>2 DEF Handle
  <2> QED
    BY <2>1, <2>2, <2>3, SockHandlerStep
<1>2. CASE v.to \in EndpointName
  <2>1. PICK e \in Endpoint : v.to = <<"ep", e>>
    BY <1>2 DEF EndpointName
  <2>2. Handle(s, v) = nn_ep_handler(s, e)
    BY <2>1 DEF Handle
  <2> QED
    BY <2>1, <2>2, EpHandlerStep
<1>3. CASE v.to \in BaseName
  <2>1. PICK e \in Endpoint : v.to = <<"base", e>>
    BY <1>3 DEF BaseName
  <2>2. Handle(s, v) = IF s.ep[e].kind = "bind" THEN nn_binproc_handler(s, e, v)
                       ELSE nn_cinproc_handler(s, e, v)
    BY <2>1 DEF Handle
  <2> QED
    BY <2>1, <2>2, BinprocHandlerStep, CinprocHandlerStep
<1>4. CASE v.to \in Session
  <2>1. v \in SessEvent
    BY <1>4 DEF OwnEvent, ToEvent, FurtherEvent, EventOf, SocketName, EndpointName, BaseName, Session
  <2>2. Handle(s, v) = nn_sinproc_handler(s, v.to, v)
    BY <1>4 DEF Handle, Session
  <2> QED
    BY <1>4, <2>1, <2>2, SinprocHandlerStep
<1>5. v.to \in SocketName \cup EndpointName \cup BaseName \cup Session
  BY DEF OwnEvent, ToEvent, SessEvent, FurtherEvent, EventOf
<1> QED
  BY <1>1, <1>2, <1>3, <1>4, <1>5

(* The first event leaves its queue.                                       *)
Popped(s) == [s EXCEPT !.events = Tail(@)]

(* That is a step, and the event fits and may be handled.                  *)
LEMMA PopStep ==
  ASSUME NEW s, Good(s), s.events # <<>>
  PROVE  LET u == Popped(s)
             v == Head(s.events) IN
         /\ Step(s, u) /\ v \in OwnEvent /\ v = s.events[1] /\ Fits(u, v) /\ Handed(u, v)
         /\ u.abort = s.abort /\ u.sess = s.sess /\ u.sock = s.sock /\ u.ep = s.ep
         /\ u.events = Tail(s.events) /\ s.events \in Seq(OwnEvent)
<1> DEFINE E == Tail(s.events)
           v == Head(s.events)
           u == [s EXCEPT !.events = E]
<1>0. v \in OwnEvent /\ E \in Seq(OwnEvent)
  BY DEF Good, ProcType
<1>1. Popped(s) = u
  BY DEF Popped
<1> HIDE DEF E, v
<1>2. u \in ProcType
  BY <1>0 DEF Good, ProcType
<1>3. /\ u.overlap = s.overlap /\ u.glock = s.glock /\ u.term = s.term /\ u.table = s.table
      /\ u.unused = s.unused /\ u.nsocks = s.nsocks /\ u.th = s.th /\ u.pend = s.pend
      /\ u.hand = s.hand /\ u.ep = s.ep /\ u.sess = s.sess /\ u.sock = s.sock
      /\ u.bound = s.bound /\ u.connected = s.connected /\ u.eventsto = s.eventsto
      /\ u.abort = s.abort /\ u.events = E
  BY DEF ProcType, Good
<1>11. s.events \in Seq(OwnEvent) /\ E = Tail(s.events) /\ v = s.events[1]
  BY DEF Good, ProcType, E, v
<1> HIDE DEF u
<1>12. Flow(u) /\ Handed(u, v)
  <2> DEFINE n == <<"events", NoThread>>
  <2>1. n \in At /\ QueueAt(s, n) = s.events /\ QueueAt(u, n) = Tail(s.events)
    BY <1>3, <1>11 DEF At, QueueAt
  <2>2. \A k \in At \ {n} : QueueAt(u, k) = QueueAt(s, k)
    BY <1>3 DEF At, QueueAt
  <2>3. Flow(s) /\ (Hands(s) => Hands(u))
    BY <1>3 DEF Good, Hands
  <2> HIDE DEF n
  <2>4. Flow(u) /\ Handed(u, QueueAt(s, n)[1])
    BY <1>3, <1>11, <2>1, <2>2, <2>3, FlowTail
  <2> QED
    BY <2>1, <2>4, <1>11
<1>4. Peers(u) /\ Homes(u)
  BY <1>3 DEF Good, Peers, Homes
<1>5. Bases(u) /\ Addressed(u)
  BY <1>3 DEF Good, Bases, Addressed
<1>6. AllFit(u)
  <2>1. \A w : Fits(u, w) <=> Fits(s, w)
    BY <1>3 DEF Fits
  <2> QED
    BY <2>1, <1>3 DEF Good, AllFit
<1>7. FreedClean(u) /\ Life(u)
  BY <1>3, LifeSame DEF Good, FreedClean
<1>8. Step(s, u)
  BY <1>2, <1>3, <1>4, <1>5, <1>6, <1>7, <1>12 DEF Step, Good, Kept
<1>9. Fits(u, v)
  BY <1>0 DEF Fits, OwnEvent, EventOf, Way
<1> QED
  BY <1>0, <1>1, <1>3, <1>8, <1>9, <1>11, <1>12 DEF v

(* One round of nn_ctx_leave's loop over ctx->events is a step.            *)
LEMMA NextEventStep ==
  ASSUME NEW s, Good(s)
  PROVE  Step(s, NextEvent(s))
<1> SUFFICES ASSUME s.events # <<>> PROVE Step(s, NextEvent(s))
  BY StepNot DEF NextEvent
<1> DEFINE v == Head(s.events)
           u == Popped(s)
<1>1. NextEvent(s) \in {s, Handle(u, v)}
  BY DEF NextEvent, Popped
<1>2. Step(s, u) /\ v \in OwnEvent /\ Fits(u, v) /\ Handed(u, v)
  BY PopStep
<1> HIDE DEF u, v
<1>3. Step(u, Handle(u, v))
  BY <1>2, HandleStep DEF Step
<1> QED
  BY <1>1, <1>2, <1>3, StepTwice, StepNot

(* What every round of nn_ctx_leave's loop keeps, the loop keeps, for any  *)
(* bound on its rounds.                                                    *)
LEMMA DrainedStays ==
  ASSUME NEW S, NEW s \in S, \A u \in S : NextEvent(u) \in S
  PROVE  \E u \in S : Drained(s) = IF u.events = <<>> THEN u ELSE Abort(u, "out_of_rounds")
<1> DEFINE IsRun(f) == f = [n \in 0 .. MaxRounds |-> IF n = 0 THEN s ELSE NextEvent(f[n - 1])]
           run == CHOOSE f : IsRun(f)
<1>0. PICK F \in [S \X Nat -> S] : \A u \in S, n \in Nat : F[<<u, n>>] = NextEvent(u)
  <2> DEFINE F == [x \in S \X Nat |-> NextEvent(x[1])]
  <2>1. F \in [S \X Nat -> S]
    OBVIOUS
  <2>2. \A u \in S, n \in Nat : F[<<u, n>>] = NextEvent(u)
    OBVIOUS
  <2> QED
    BY <2>1, <2>2
<1>1. LoopBody(F, S)
  BY <1>0 DEF LoopBody
<1>2. MaxRounds \in Nat
  BY GlobalBounds
<1>3. PICK f : LoopRun(f, S, s, F, MaxRounds)
  <2>1. \E f : LoopRun(f, S, s, F, MaxRounds)
    BY <1>1, <1>2, LoopExists
  <2> QED
    BY <2>1
<1>4. /\ f \in [0 .. MaxRounds -> S]
      /\ \A n \in 0 .. MaxRounds : f[n] = IF n = 0 THEN s ELSE F[<<f[n - 1], n>>]
  BY <1>3 DEF LoopRun
<1>5. ASSUME NEW n \in 0 .. MaxRounds PROVE f[n] = IF n = 0 THEN s ELSE NextEvent(f[n - 1])
  <2>1. CASE n = 0
    BY <2>1, <1>4
  <2>2. CASE n # 0
    <3>1. f[n] = F[<<f[n - 1], n>>] /\ n \in Nat /\ n - 1 \in 0 .. MaxRounds
      BY <2>2, <1>4, <1>2
    <3>2. f[n - 1] \in S
      BY <3>1, <1>4
    <3> QED
      BY <3>1, <3>2, <1>0, <2>2
  <2> QED
    BY <2>1, <2>2
<1>6. IsRun(run)
  <2>1. f = [n \in 0 .. MaxRounds |-> IF n = 0 THEN s ELSE NextEvent(f[n - 1])]
    BY <1>4, <1>5
  <2>2. IsRun(f)
    BY <2>1, Zenon
  <2> QED
    BY <2>2, Zenon
<1>7. \A n \in 0 .. MaxRounds : run[n] = IF n = 0 THEN s ELSE NextEvent(run[n - 1])
  <2>1. run = [n \in 0 .. MaxRounds |-> IF n = 0 THEN s ELSE NextEvent(run[n - 1])]
    BY <1>6, Zenon
  <2> HIDE DEF run
  <2> QED
    BY <2>1, Zenon
<1>8. Drained(s) = IF run[MaxRounds].events = <<>> THEN run[MaxRounds]
                   ELSE Abort(run[MaxRounds], "out_of_rounds")
  BY Zenon DEF Drained
<1> HIDE DEF run, IsRun
<1> DEFINE T == {n \in Nat : n \in 0 .. MaxRounds => run[n] \in S}
<1>9. 0 \in T
  <2>1. 0 \in 0 .. MaxRounds
    BY <1>2
  <2> QED
    BY <2>1, <1>7
<1>10. ASSUME NEW n \in Nat, n \in T PROVE n + 1 \in T
  <2> SUFFICES ASSUME n + 1 \in 0 .. MaxRounds PROVE run[n + 1] \in S
    OBVIOUS
  <2>1. n \in 0 .. MaxRounds /\ run[n] \in S /\ n + 1 # 0 /\ (n + 1) - 1 = n
    BY <1>10, <1>2
  <2>2. run[n + 1] = NextEvent(run[n])
    BY <2>1, <1>7
  <2> QED
    BY <2>1, <2>2
<1> HIDE DEF T
<1>11. run[MaxRounds] \in S
  <2>1. Nat \subseteq T
    BY <1>9, <1>10, Induction
  <2> QED
    BY <2>1, <1>2 DEF T
<1> QED
  BY <1>8, <1>11

(* nn_ctx_leave's loop over ctx->events is a step.                         *)
LEMMA DrainedStep ==
  ASSUME NEW s, Good(s)
  PROVE  Step(s, Drained(s))
<1> DEFINE S == {u \in ProcType : Step(s, u)}
<1>1. s \in S
  BY StepNot DEF Good
<1>2. \A u \in S : NextEvent(u) \in S
  <2> SUFFICES ASSUME NEW u \in S PROVE NextEvent(u) \in S
    OBVIOUS
  <2>1. Step(u, NextEvent(u))
    BY NextEventStep DEF Step
  <2> QED
    BY <2>1, StepTwice DEF Step, Good
<1>3. \A u \in S : Step(s, u)
  OBVIOUS
<1> HIDE DEF S
<1>4. PICK u \in S : Drained(s) = IF u.events = <<>> THEN u ELSE Abort(u, "out_of_rounds")
  <2>1. \E u \in S : Drained(s) = IF u.events = <<>> THEN u ELSE Abort(u, "out_of_rounds")
    BY <1>1, <1>2, DrainedStays
  <2> QED
    BY <2>1
<1>5. Step(u, Abort(u, "out_of_rounds"))
  BY <1>3, AbortStep DEF Step, Why
<1> QED
  BY <1>3, <1>4, <1>5, StepTwice

(* A session without a pipe becomes another one without; it may get an      *)
(* endpoint if it had none.                                                 *)
IdleChange(s, u, q, r) ==
  /\ u.abort = s.abort /\ u.events = s.events /\ u.sock = s.sock /\ u.sess = [s.sess EXCEPT ![q] = r]
  /\ \A e \in Endpoint : /\ u.ep[e].sock = s.ep[e].sock
                         /\ u.ep[e].sessions \subseteq s.ep[e].sessions \cup {q}
                         /\ q \in u.ep[e].sessions => q \in s.ep[e].sessions \/ r.ep = e

(* Such a change is a turn.                                                *)
LEMMA IdleTurn ==
  ASSUME NEW s, Good(s), NEW u, u \in ProcType, NEW q \in Session, NEW r \in SessType,
         IdleChange(s, u, q, r), r.pipe = "IDLE", r.queue = <<>>, ~r.sending, r.st # "NONE",
         s.sess[q].st # "NONE" => r.ep = s.sess[q].ep /\ s.sess[q].pipe # "ACTIVE",
         s.sess[q].st \in Early
           \/ \A i \in DOMAIN s.events : s.events[i].type \in Way => s.events[i].from # q,
         NEW o
  PROVE  Turn(s, u, o)
<1> SUFFICES ASSUME u.abort = "no", Led(s, o) PROVE Led(u, o) /\ Stays(s, u)
  BY DEF Turn, IdleChange
<1>1. s \in ProcType /\ s.sess \in [Session -> SessType]
  BY DEF Good, ProcType
<1>2. /\ u.sess[q] = r /\ \A y \in Session \ {q} : u.sess[y] = s.sess[y]
      /\ u.events = s.events /\ u.sock = s.sock
      /\ \A e \in Endpoint : u.ep[e].sock = s.ep[e].sock
  BY <1>1 DEF IdleChange
<1>3. s.sess[q].pipe # "ACTIVE"
  BY DEF Led, Links, Link, Early
<1>4. Stays(s, u)
  BY <1>2 DEF Stays
<1>5. Links(u)
  <2>1. Link(r)
    BY DEF Link
  <2> QED
    BY <1>2, <2>1 DEF Led, Links
<1>6. ASSUME NEW x \in Socket PROVE Wired(u, x) /\ nn_xpair_events(u, x) = nn_xpair_events(s, x)
  <2>1. Wired(s, x)
    BY DEF Led, Wires
  <2> DEFINE y == s.sock[x].excl.pipe
  <2>2. y \in Session \cup {None}
    BY <1>1, ExclOf DEF ExclType, PipeName
  <2>3. y # None => y \in Session /\ y # q
    BY <1>3, <2>1, <2>2 DEF Wired
  <2>4. y # None => s.sess[y].ep \in Endpoint /\ u.sess[y] = s.sess[y]
    BY <1>1, <1>2, <2>3 DEF SessType
  <2>5. y # None => u.ep[u.sess[y].ep].sock = s.ep[s.sess[y].ep].sock
    BY <1>2, <2>4
  <2>6. (Signals(u, y, "IN") <=> Signals(s, y, "IN")) /\ (Signals(u, y, "OUT") <=> Signals(s, y, "OUT"))
    BY <1>2 DEF Signals
  <2>7. SameSock(u.sock[x], s.sock[x])
    BY <1>2 DEF SameSock
  <2>8. y # None => /\ SamePipe(u.sess[y], s.sess[y])
                    /\ u.ep[u.sess[y].ep].sock = s.ep[s.sess[y].ep].sock
                    /\ Signals(u, y, "IN") <=> Signals(s, y, "IN")
                    /\ Signals(u, y, "OUT") <=> Signals(s, y, "OUT")
    <3>1. y # None => SamePipe(u.sess[y], s.sess[y])
      BY <2>4 DEF SamePipe
    <3> QED
      BY ONLY <2>5, <2>6, <3>1, Zenon
  <2>9. PipeKept(s, u, y)
    BY ONLY <2>8 DEF PipeKept
  <2> QED
    BY ONLY <2>1, <2>7, <2>9, WiredKept
<1>7. Heard(u)
  <2> SUFFICES ASSUME NEW i \in DOMAIN s.events, s.events[i].type \in Way
               PROVE  u.sess[s.events[i].from].st \notin Early
    BY <1>2 DEF Heard
  <2>1. s.events[i] \in OwnEvent
    BY <1>1 DEF ProcType
  <2>2. s.events[i].from \in Session /\ s.sess[s.events[i].from].st \notin Early
    BY <2>1 DEF OwnEvent, EventOf, Way, Led, Heard
  <2>3. s.events[i].from # q
    BY <2>2
  <2> QED
    BY <1>2, <2>2, <2>3
<1>8. Rested(u, o)
  BY <1>2, <1>6 DEF Led, Rested
<1>9. Local(u, o)
  <2> SUFFICES ASSUME NEW i \in DOMAIN s.events PROVE OwnHome(u, s.events[i].to) = o
    BY <1>2 DEF Local
  <2>1. s.events[i] \in OwnEvent /\ OwnHome(s, s.events[i].to) = o
    BY <1>1 DEF ProcType, Led, Local
  <2>2. s.events[i].to[1] = "sock" \/ s.events[i].to[2] \in Endpoint
    BY <2>1 DEF OwnEvent, EventOf, SocketName, BaseName, EndpointName
  <2> QED
    BY <1>2, <2>1, <2>2 DEF OwnHome
<1>10. Kin(u)
  <2>1. ASSUME NEW e \in Endpoint, NEW y \in u.ep[e].sessions PROVE u.sess[y].ep = e /\ u.sess[y].st # "NONE"
    <3>1. y \in Session
      <4>1. u.ep[e] \in EpType
        BY DEF ProcType
      <4> QED
        BY <2>1, <4>1 DEF EpType, Session
    <3>2. y \in s.ep[e].sessions => s.sess[y].ep = e /\ s.sess[y].st # "NONE"
      BY DEF Led, Kin
    <3>3. CASE y = q
      BY <1>2, <2>1, <3>2, <3>3 DEF IdleChange
    <3>4. CASE y # q
      BY <1>2, <2>1, <3>1, <3>2, <3>4 DEF IdleChange
    <3> QED
      BY <3>3, <3>4
  <2>2. ASSUME NEW x \in Socket, NEW e \in u.sock[x].eps PROVE u.ep[e].sock = x
    <3>1. e \in Endpoint
      BY <2>2, u.sock[x] \in SockType DEF ProcType, SockType
    <3> QED
      BY <1>2, <2>2, <3>1 DEF Led, Kin
  <2> QED
    BY <2>1, <2>2 DEF Kin
<1> QED
  BY <1>2, <1>4, <1>5, <1>6, <1>7, <1>8, <1>9, <1>10 DEF Led, Wires

(* A new session and a freed one have no pipe in use.                      *)
LEMMA NewSessionPipe ==
  ASSUME NEW e
  PROVE  NewSession(e).pipe = "IDLE" /\ [NewSession(e) EXCEPT !.st = "FREED"].pipe = "IDLE"
         /\ [NewSession(e) EXCEPT !.st = "FREED"].st = "FREED"
         /\ [NewSession(e) EXCEPT !.st = "FREED"].ep = e
         /\ [NewSession(e) EXCEPT !.st = "FREED"].queue = <<>>
         /\ [NewSession(e) EXCEPT !.st = "FREED"].sending = FALSE
BY DEF NewSession, nn_pipebase_init, nn_msgqueue_init

(* nn_sinproc_term is a turn.                                               *)
LEMMA SinprocTermTurn ==
  ASSUME NEW s, Good(s), NEW q \in Session, NEW o
  PROVE  Turn(s, nn_sinproc_term(s, q), o)
<1> DEFINE e == s.sess[q].ep
           r == [NewSession(e) EXCEPT !.st = "FREED"]
           u == [s EXCEPT !.sess[q] = r]
<1>1. Turn(s, Bad(s), o) /\ Turn(s, Abort(s, "frees_queued_event"), o)
  BY BadTurn, AbortTurn DEF Why
<1>2. s \in ProcType /\ s.sess \in [Session -> SessType] /\ e \in Endpoint
  BY SessOf DEF SessType, Good, ProcType
<1>3. \/ nn_sinproc_term(s, q) \in {Bad(s), Abort(s, "frees_queued_event")}
      \/ /\ nn_sinproc_term(s, q) = u /\ s.sess[q].pipe = "IDLE"
         /\ ~InQueue(s, <<q, "in">>) /\ ~InQueue(s, <<q, "out">>)
  BY DEF nn_sinproc_term
<1>4. r.pipe = "IDLE" /\ r.st = "FREED" /\ r.ep = e /\ r.queue = <<>> /\ ~r.sending
  BY NewSessionPipe
<1>5. r \in SessType
  <2> DEFINE n == NewSession(e)
  <2>1. n \in SessType
    BY <1>2, NewSessionType
  <2> HIDE DEF n
  <2>2. [n EXCEPT !.st = "FREED"] \in SessType
    BY <2>1 DEF SessType, SessState
  <2> QED
    BY <2>2 DEF n
<1>6. s.sess[q].ep = e
  OBVIOUS
<1> HIDE DEF r, e
<1> SUFFICES ASSUME s.sess[q].pipe = "IDLE", ~InQueue(s, <<q, "in">>), ~InQueue(s, <<q, "out">>)
             PROVE  Turn(s, u, o)
  BY <1>1, <1>3
<1>7. u \in ProcType /\ IdleChange(s, u, q, r)
  BY <1>2, <1>5 DEF ProcType, IdleChange
<1> HIDE DEF u
<1>8. ASSUME NEW i \in DOMAIN s.events, s.events[i].type \in Way PROVE s.events[i].from # q
  <2>1. s.events[i] \in OwnEvent
    BY <1>2 DEF ProcType
  <2>2. s.events[i].slot = SlotOf(s.events[i])
    BY <2>1 DEF OwnEvent, EventOf
  <2>3. s.events[i].slot \in {<<s.events[i].from, "in">>, <<s.events[i].from, "out">>}
    BY <1>8, <2>2 DEF SlotOf, Way
  <2>4. \A slot : ~InQueue(s, slot) => s.events[i].slot # slot
    BY DEF InQueue
  <2> QED
    BY <2>3, <2>4
<1> QED
  BY <1>4, <1>5, <1>6, <1>7, <1>8, IdleTurn

(* A bound endpoint's new session is a turn.                                *)
LEMMA NewSessTurn ==
  ASSUME NEW s, Good(s), NEW q \in Session, s.sess[q].st = "NONE", NEW e \in Endpoint, NEW u,
         u \in ProcType, IdleChange(s, u, q, NewSession(e)), NEW o
  PROVE  Turn(s, u, o)
<1> DEFINE r == NewSession(e)
<1>1. r \in SessType /\ r.st = "IDLE" /\ r.pipe = "IDLE" /\ r.queue = <<>> /\ ~r.sending
  BY NewSessionType, NewSessionPipe
<1>2. s.sess[q].st \in Early
  BY DEF Early
<1> HIDE DEF r
<1> QED
  BY <1>1, <1>2, IdleTurn DEF r

(* A session made for a connection to a bound endpoint (binproc.c) is a    *)
(* turn.                                                                   *)
LEMMA WithSessionTurn ==
  ASSUME NEW s, Good(s), NEW e \in Endpoint, NEW c \in Endpoint, s.ep[e].st = "ACTIVE", NEW o
  PROVE  Turn(s, WithSession(s, e, c), o)
<1> DEFINE q == <<"b", c>>
           r == NewSession(e)
           u == [s EXCEPT !.sess[<<"b", c>>] = NewSession(e), !.ep[e].sessions = @ \cup {<<"b", c>>}]
<1>1. q \in Session /\ s \in ProcType /\ s.ep \in [Endpoint -> EpType] /\ s.sess \in [Session -> SessType]
  BY DEF Session, Good, ProcType
<1>2. Turn(s, Abort(s, "no_session_left"), o)
  BY AbortTurn DEF Why
<1>3. WithSession(s, e, c) = IF s.sess[q].st # "NONE" THEN Abort(s, "no_session_left") ELSE u
  BY DEF WithSession
<1> SUFFICES ASSUME s.sess[q].st = "NONE" PROVE Turn(s, u, o)
  BY <1>2, <1>3
<1>4. u \in ProcType
  <2>1. WithSession(s, e, c) = u
    BY <1>3
  <2> QED
    BY <2>1, WithSessionStep DEF Step, Good
<1>5. /\ u.abort = s.abort /\ u.events = s.events /\ u.sock = s.sock
      /\ u.sess = [s.sess EXCEPT ![q] = NewSession(e)]
      /\ u.ep = [s.ep EXCEPT ![e].sessions = @ \cup {q}]
  BY <1>1 DEF ProcType
<1>6. NewSession(e).ep = e
  BY NewSessionType
<1> HIDE DEF u, q
<1>7. IdleChange(s, u, q, NewSession(e))
  BY <1>1, <1>5, <1>6 DEF IdleChange, EpType
<1> QED
  BY <1>1, <1>4, <1>7, NewSessTurn

(* A change of an endpoint or of a socket that keeps its pipe is a turn.    *)
LEMMA EpTurn ==
  ASSUME NEW s, Good(s), NEW u, u \in ProcType, u.abort = s.abort, u.sess = s.sess, u.sock = s.sock,
         u.events = s.events, CalmEps(s, u), NEW o
  PROVE  Turn(s, u, o)
<1>1. Calm(s, u, o)
  BY DEF Calm, CalmSocks, CalmEvents, CalmSess, SamePipe
<1> QED
  BY <1>1, CalmTurn

(* A socket that keeps its pipe and what its efds show makes a turn.       *)
LEMMA SockTurn ==
  ASSUME NEW s, Good(s), NEW x \in Socket, NEW k \in SockType, k.excl = s.sock[x].excl,
         k.eps \subseteq s.sock[x].eps,
         k.st = "ACTIVE" => /\ s.sock[x].st = "ACTIVE" /\ k.flags = s.sock[x].flags
                            /\ k.efd = s.sock[x].efd,
         NEW o
  PROVE  Turn(s, [s EXCEPT !.sock[x] = k], o)
<1> DEFINE u == [s EXCEPT !.sock[x] = k]
<1>1. s \in ProcType /\ s.sock \in [Socket -> SockType]
  BY DEF Good, ProcType
<1>2. /\ u \in ProcType /\ u.abort = s.abort /\ u.sess = s.sess /\ u.ep = s.ep /\ u.events = s.events
      /\ u.sock = [s.sock EXCEPT ![x] = k]
  BY <1>1 DEF ProcType
<1> HIDE DEF u
<1>3. Calm(s, u, o)
  BY <1>1, <1>2 DEF Calm, CalmSocks, CalmEps, CalmEvents, CalmSess, SamePipe
<1> QED
  BY <1>2, <1>3, CalmTurn DEF u

(* An endpoint keeps its socket and gets no session: a turn.                *)
LEMMA EpPartTurn ==
  ASSUME NEW s, Good(s), NEW e \in Endpoint, NEW r \in EpType, r.sock = s.ep[e].sock,
         r.sessions \subseteq s.ep[e].sessions, NEW o
  PROVE  Turn(s, [s EXCEPT !.ep[e] = r], o)
<1> DEFINE u == [s EXCEPT !.ep[e] = r]
<1>1. s \in ProcType /\ s.ep \in [Endpoint -> EpType]
  BY DEF Good, ProcType
<1>2. /\ u \in ProcType /\ u.abort = s.abort /\ u.sess = s.sess /\ u.sock = s.sock /\ u.events = s.events
      /\ u.ep = [s.ep EXCEPT ![e] = r]
  BY <1>1 DEF ProcType
<1> HIDE DEF u
<1>3. CalmEps(s, u)
  BY <1>1, <1>2 DEF CalmEps
<1> QED
  BY <1>2, <1>3, EpTurn DEF u

(* An endpoint whose base changes its state makes a turn.                  *)
LEMMA SetBaseTurn ==
  ASSUME NEW s, Good(s), NEW e \in Endpoint, NEW x \in BaseState, NEW o
  PROVE  Turn(s, [s EXCEPT !.ep[e].base = x], o) /\ Stays(s, [s EXCEPT !.ep[e].base = x])
         /\ [s EXCEPT !.ep[e].base = x].sess = s.sess
         /\ [s EXCEPT !.ep[e].base = x].ep[e].sock = s.ep[e].sock
         /\ [s EXCEPT !.ep[e].base = x].ep[e].sessions = s.ep[e].sessions
<1> DEFINE r == [s.ep[e] EXCEPT !.base = x]
           u == [s EXCEPT !.ep[e] = r]
<1>1. s.ep[e] \in EpType
  BY EpOf
<1>2. r \in EpType /\ r.sock = s.ep[e].sock /\ r.sessions = s.ep[e].sessions
  BY <1>1 DEF EpType
<1> HIDE DEF r
<1>3. Turn(s, u, o)
  BY <1>2, EpPartTurn
<1>4. u.sess = s.sess /\ u.ep = [s.ep EXCEPT ![e] = r] /\ s.ep \in [Endpoint -> EpType]
  BY DEF Good, ProcType
<1>5. u.ep[e] = r /\ Stays(s, u)
  <2> HIDE DEF u
  <2> QED
    BY <1>2, <1>4 DEF Stays
<1>6. u = [s EXCEPT !.ep[e].base = x]
  BY DEF r
<1> HIDE DEF u
<1> QED
  BY <1>2, <1>3, <1>4, <1>5, <1>6

(* The addresses are of no socket.                                          *)
LEMMA AddressTurn ==
  ASSUME NEW s, Good(s), NEW u, u \in ProcType, u.abort = s.abort, u.sess = s.sess, u.sock = s.sock,
         u.events = s.events, u.ep = s.ep, NEW o
  PROVE  Turn(s, u, o)
<1>1. CalmEps(s, u)
  BY DEF CalmEps
<1> QED
  BY <1>1, EpTurn

(* The marks that a bind leaves are of no socket.                           *)
LEMMA MarksTurn ==
  ASSUME NEW s, Good(s), NEW e \in Endpoint, NEW o
  PROVE  /\ Turn(s, [s EXCEPT !.ep[e].connects = TRUE], o)
         /\ Turn(s, [s EXCEPT !.ep[e].lonely = TRUE], o)
<1> DEFINE r == [s.ep[e] EXCEPT !.connects = TRUE]
           k == [s.ep[e] EXCEPT !.lonely = TRUE]
<1>1. s.ep[e] \in EpType
  BY EpOf
<1>2. /\ r \in EpType /\ r.sock = s.ep[e].sock /\ r.sessions = s.ep[e].sessions
      /\ k \in EpType /\ k.sock = s.ep[e].sock /\ k.sessions = s.ep[e].sessions
  BY <1>1 DEF EpType
<1> HIDE DEF r, k
<1>3. Turn(s, [s EXCEPT !.ep[e] = r], o) /\ Turn(s, [s EXCEPT !.ep[e] = k], o)
  BY <1>2, EpPartTurn
<1> QED
  BY <1>3 DEF r, k

(* The CONNECT to an endpoint that has connected itself is a turn.          *)
LEMMA AnotherSessionTurn ==
  ASSUME NEW s, Good(s), NEW e \in Endpoint, NEW c \in Endpoint, NEW o
  PROVE  Turn(s, AnotherSession(s, e, c), o)
<1> DEFINE u == [s EXCEPT !.ep[e].lonely = TRUE]
<1>1. Good(u) /\ Turn(s, u, o)
  BY MarksStep, MarksTurn DEF Step
<1>2. AnotherSession(s, e, c)
      = RaiseTo(u, <<<<"base", c>>, "connect">>, <<"base", c>>, "CONNECT", <<"b", c>>)
  BY DEF AnotherSession
<1> HIDE DEF u
<1> QED
  BY <1>1, <1>2, RaiseToTurn, TurnTwice

(* What connects endpoints is a turn of any context.                        *)
LEMMA BinprocConnectTurn ==
  ASSUME NEW s, Good(s), NEW e \in Endpoint, NEW c \in Endpoint, s.ep[e].st = "ACTIVE", NEW o
  PROVE  Turn(s, nn_binproc_connect(s, e, c), o)
<1> SUFFICES ASSUME s.ep[c].base = "DISCONNECTED"
             PROVE  Turn(s, nn_binproc_connect(s, e, c), o)
  BY AnotherSessionTurn DEF nn_binproc_connect
<1> DEFINE q == <<"b", c>>
           u == WithSession(s, e, c)
           w == nn_sinproc_connect(u, q, <<"base", c>>)
<1>1. Good(u) /\ Turn(s, u, o) /\ (u.abort = "no" => u.sess[q] = NewSession(e))
  BY WithSessionStep, WithSessionTurn DEF Step
<1>2. nn_binproc_connect(s, e, c) = IF u.abort # "no" THEN u ELSE w
  BY DEF nn_binproc_connect
<1>3. q \in Session
  BY DEF Session
<1> HIDE DEF u, q
<1>4. u.abort = "no" => Turn(u, w, o)
  BY <1>1, <1>3, NewSessionType, SinprocConnectTurn
<1> HIDE DEF w
<1> QED
  BY <1>1, <1>2, <1>4, TurnTwice

(* What a bind does with an endpoint that it finds is a turn.              *)
LEMMA FoundTurn ==
  ASSUME NEW s, Good(s), NEW e \in Endpoint, NEW c \in Endpoint, s.ep[e].st = "ACTIVE", NEW o
  PROVE  Turn(s, Found(s, e, c), o)
<1> DEFINE a == Abort(s, "address_bound_again")
           u == [s EXCEPT !.ep[c].connects = TRUE]
           w == nn_binproc_connect(u, e, c)
<1>1. Found(s, e, c) \in {a, w}
  BY DEF Found
<1>2. Turn(s, a, o)
  BY AbortTurn DEF Why
<1>3. Step(s, u) /\ SameEps(s, u) /\ Turn(s, u, o)
  BY MarksStep, MarksTurn
<1> HIDE DEF a, u
<1>4. Turn(u, w, o)
  BY <1>3, BinprocConnectTurn DEF Step, SameEps
<1> HIDE DEF w
<1> QED
  BY <1>1, <1>2, <1>3, <1>4, TurnTwice

(* nn_ins_bind, which connects all that wait for the address, is a turn.   *)
LEMMA InsBindTurn ==
  ASSUME NEW s, Good(s), NEW e \in Endpoint, s.ep[e].st = "ACTIVE", s.ep[e].kind = "bind", NEW o
  PROVE  Turn(s, nn_ins_bind(s, e), o)
<1> DEFINE b == [s EXCEPT !.bound = e]
           S == {u \in ProcType : Step(b, u) /\ SameEps(b, u) /\ Turn(b, u, o)}
<1>1. Step(s, b) /\ b.ep = s.ep /\ b.connected = s.connected
  <2>1. [s EXCEPT !.bound = e, !.connected = s.connected] = b
    BY DEF Good, ProcType
  <2>2. s.connected \in SUBSET Endpoint
    BY DEF Good, ProcType
  <2>3. Step(s, [s EXCEPT !.bound = e, !.connected = s.connected])
    BY <2>2, AddressStep DEF Good, Addressed
  <2> QED
    BY <2>1, <2>3 DEF Good, ProcType
<1>t. Turn(s, b, o)
  BY <1>1, AddressTurn DEF Step, Good, ProcType
<1> HIDE DEF b
<1>2. b \in S
  BY <1>1, StepNot, TurnNot DEF Step, Good, SameEps
<1>3. \A u \in S, c \in Endpoint : c \in s.connected => Found(u, e, c) \in S
  <2> SUFFICES ASSUME NEW u \in S, NEW c \in Endpoint, c \in s.connected
               PROVE  Found(u, e, c) \in S
    OBVIOUS
  <2> DEFINE w == Found(u, e, c)
  <2>1. Good(u) /\ u.ep[e].st = "ACTIVE" /\ u.ep[c].kind = "connect" /\ Step(b, u) /\ SameEps(b, u)
        /\ Turn(b, u, o)
    BY <1>1 DEF Step, SameEps, Good, Addressed
  <2>2. Step(u, w) /\ SameEps(u, w) /\ Turn(u, w, o)
    BY <2>1, FoundStep, FoundTurn
  <2> HIDE DEF S, w
  <2>3. Step(b, w) /\ Turn(b, w, o)
    BY <2>1, <2>2, StepTwice, TurnTwice
  <2>4. SameEps(b, w)
    BY <2>1, <2>2 DEF SameEps
  <2>5. w \in ProcType
    BY <2>2 DEF Step, Good
  <2> QED
    BY <2>3, <2>4, <2>5 DEF S, w
<1>4. PICK u \in S : nn_ins_bind(s, e) = u
  <2> HIDE DEF S
  <2>1. \E u \in S : nn_ins_bind(s, e) = u
    BY <1>2, <1>3, BindLoop DEF b
  <2> QED
    BY <2>1
<1>5. Turn(b, u, o)
  OBVIOUS
<1> HIDE DEF S
<1> QED
  BY <1>t, <1>4, <1>5, TurnTwice

(* nn_binproc_create is a turn.                                            *)
LEMMA BinprocCreateTurn ==
  ASSUME NEW s, Good(s), NEW e \in Endpoint, s.ep[e].st = "ACTIVE", s.ep[e].kind = "bind", NEW o
  PROVE  Turn(s, nn_binproc_create(s, e), o)
<1> DEFINE u == [s EXCEPT !.ep[e].base = "ACTIVE"]
<1>1. Good(u) /\ u.ep[e].st = "ACTIVE" /\ u.ep[e].kind = "bind"
  BY SetBaseStep, ZenonT(90) DEF BaseState, Step
<1>2. Turn(s, u, o)
  BY SetBaseTurn DEF BaseState
<1>3. nn_binproc_create(s, e) = nn_ins_bind(u, e)
  BY DEF nn_binproc_create
<1> HIDE DEF u
<1> QED
  BY <1>1, <1>2, <1>3, InsBindTurn, TurnTwice

(* nn_ins_connect is a turn.                                               *)
LEMMA InsConnectTurn ==
  ASSUME NEW s, Good(s), NEW e \in Endpoint, s.ep[e].st = "ACTIVE", s.ep[e].kind = "connect",
         s.sess[<<"c", e>>].st = "IDLE", NEW o
  PROVE  Turn(s, nn_ins_connect(s, e), o)
<1> DEFINE q == <<"c", e>>
           C == s.connected \cup {e}
           b == s.bound
           u == [s EXCEPT !.bound = b, !.connected = C]
           z == [u EXCEPT !.ep[e].base = "ACTIVE"]
           w == nn_sinproc_connect(z, q, <<"base", b>>)
<1>1. q \in Session /\ s \in ProcType /\ s.ep \in [Endpoint -> EpType]
  BY DEF Session, Good, ProcType
<1>2. C \in SUBSET Endpoint /\ b \in Endpoint \cup {0}
  BY <1>1 DEF ProcType
<1>3. b # 0 => s.ep[b].st = "ACTIVE" /\ s.ep[b].kind = "bind"
  BY DEF Good, Addressed
<1>4. \A x \in C : s.ep[x].st = "ACTIVE" /\ s.ep[x].kind = "connect"
  BY DEF Good, Addressed
<1>5. nn_ins_connect(s, e) = IF b = 0 THEN u ELSE w
  <2> DEFINE x == [s EXCEPT !.connected = @ \cup {e}]
  <2>1. u = x
    BY <1>1 DEF ProcType
  <2>2. nn_ins_connect(s, e) = IF b = 0 THEN x ELSE nn_cinproc_connect(x, e, b)
    BY DEF nn_ins_connect
  <2>3. nn_cinproc_connect(u, e, b) = w
    BY DEF nn_cinproc_connect
  <2> HIDE DEF u, x, w, b
  <2> QED
    BY <2>1, <2>2, <2>3
<1> HIDE DEF q, C, b
<1>6. Good(u)
  BY <1>2, <1>3, <1>4, AddressStep DEF Step
<1>7. u.ep = s.ep /\ u.sess = s.sess /\ Turn(s, u, o)
  BY <1>1, <1>6, AddressTurn DEF Good, ProcType
<1> HIDE DEF u
<1>8. Good(z)
  <2>1. "ACTIVE" \in BaseState /\ u.ep[e].st = "ACTIVE" /\ u.ep[e].st # "NONE"
    BY <1>7 DEF BaseState
  <2>2. Step(u, z)
    BY ONLY <1>6, <2>1, e \in Endpoint, SetBaseStep, Zenon
  <2> HIDE DEF z
  <2> QED
    BY <2>2 DEF Step
<1>9. Turn(u, z, o) /\ z.sess = u.sess
  <2>1. "ACTIVE" \in BaseState
    BY DEF BaseState
  <2> QED
    BY ONLY <1>6, <2>1, e \in Endpoint, SetBaseTurn, Zenon
<1> HIDE DEF z
<1>10. Turn(z, w, o)
  BY <1>1, <1>7, <1>8, <1>9, SinprocConnectTurn DEF q
<1> HIDE DEF w
<1> QED
  BY <1>5, <1>7, <1>9, <1>10, TurnTwice

(* nn_cinproc_create is a turn.                                            *)
LEMMA CinprocCreateTurn ==
  ASSUME NEW s, Good(s), NEW e \in Endpoint, s.ep[e].st = "ACTIVE", s.ep[e].kind = "connect",
         s.sess[<<"c", e>>].st = "NONE", NEW o
  PROVE  Turn(s, nn_cinproc_create(s, e), o)
<1> DEFINE u == [s EXCEPT !.ep[e].base = "DISCONNECTED"]
           q == <<"c", e>>
           w == [u EXCEPT !.sess[q] = NewSession(e)]
<1>0. "DISCONNECTED" \in BaseState /\ s.ep[e].st # "NONE"
  BY DEF BaseState
<1>1. Step(s, u) /\ u.ep[e].st = "ACTIVE" /\ u.ep[e].kind = "connect"
  BY <1>0, SetBaseStep, ZenonT(90)
<1>2. Turn(s, u, o) /\ u.sess = s.sess
  BY ONLY <1>0, Good(s), e \in Endpoint, SetBaseTurn, Zenon
<1>3. q \in Session /\ q[2] = e /\ q[1] = "c"
  BY DEF Session
<1>4. nn_cinproc_create(s, e) = nn_ins_connect(w, e)
  <2>1. w = [s EXCEPT !.ep[e].base = "DISCONNECTED", !.sess[q] = NewSession(e)]
    BY DEF Good, ProcType
  <2> QED
    BY <2>1 DEF nn_cinproc_create
<1>5. Good(u) /\ u \in ProcType /\ u.sess[q].st = "NONE"
  BY <1>1, <1>2 DEF Step, Good
<1> HIDE DEF u, q
<1>6. Good(w)
  BY <1>1, <1>3, <1>5, NewSessStep DEF Step, HousedAt, InUse
<1>7. /\ w.ep = u.ep /\ w.abort = u.abort /\ w.sock = u.sock /\ w.events = u.events
      /\ w.sess = [u.sess EXCEPT ![q] = NewSession(e)] /\ u.sess \in [Session -> SessType]
  BY <1>5 DEF ProcType
<1> HIDE DEF w
<1>8. IdleChange(u, w, q, NewSession(e))
  BY <1>7 DEF IdleChange
<1>9. Turn(u, w, o)
  BY <1>3, <1>5, <1>6, <1>8, NewSessTurn DEF Good
<1>10. w.sess[q].st = "IDLE"
  BY <1>3, <1>7, NewSessionType, ZenonT(60)
<1>11. Turn(w, nn_ins_connect(w, e), o)
  BY <1>1, <1>6, <1>7, <1>10, InsConnectTurn DEF q
<1> QED
  BY <1>2, <1>4, <1>9, <1>11, TurnTwice

(* What stops an endpoint is a turn of its socket's context.                *)
LEMMA EpStoppedTurn ==
  ASSUME NEW s, Good(s), NEW e \in Endpoint, s.ep[e].st # "NONE"
  PROVE  Turn(s, EpStopped(s, e), s.ep[e].sock)
<1> DEFINE u == [s EXCEPT !.ep[e].base = "IDLE"]
           o == s.ep[e].sock
           to == <<"ep", e>>
           slot == <<<<"ep", e>>, "stopped">>
<1>1. "IDLE" \in BaseState
  BY DEF BaseState
<1>2. Step(s, u)
  BY <1>1, SetBaseStep
<1>3. Turn(s, u, o) /\ u.ep[e].sock = o
  BY ONLY <1>1, Good(s), e \in Endpoint, SetBaseTurn, Zenon
<1>4. [slot |-> slot, to |-> to, type |-> "STOPPED", from |-> None] \in OwnEvent
  BY EpEvent
<1>5. EpStopped(s, e) = Raise(u, slot, to, "STOPPED", None)
  BY DEF EpStopped
<1> HIDE DEF u
<1>6. OwnHome(u, to) = o
  BY <1>3 DEF OwnHome
<1> HIDE DEF slot, to, o
<1>7. Turn(u, Raise(u, slot, to, "STOPPED", None), OwnHome(u, to))
  BY <1>2, <1>4, RaiseTurn DEF Step, Way
<1> QED
  BY <1>3, <1>5, <1>6, <1>7, TurnTwice DEF o

(* nn_epbase_stopped of both kinds of endpoint is a turn.                  *)
LEMMA BaseStoppedTurn ==
  ASSUME NEW s, Good(s), NEW e \in Endpoint, s.ep[e].st # "NONE"
  PROVE  Turn(s, BinprocStopped(s, e), s.ep[e].sock) /\ Turn(s, CinprocStopped(s, e), s.ep[e].sock)
BY EpStoppedTurn, TurnNot DEF BinprocStopped, CinprocStopped

(* nn_binproc_stop, which stops all its sessions, is a turn.               *)
LEMMA BinprocStopTurn ==
  ASSUME NEW s, Good(s), NEW e \in Endpoint, s.ep[e].st = "ACTIVE", s.ep[e].kind = "bind"
  PROVE  Turn(s, nn_binproc_stop(s, e), s.ep[e].sock)
<1> DEFINE n == nn_ins_unbind(s)
           b == [n EXCEPT !.ep[e].base = "STOPPING"]
           o == s.ep[e].sock
           S == {u \in ProcType : Step(b, u) /\ u.ep = b.ep /\ Turn(b, u, o)}
<1>0. "STOPPING" \in BaseState
  BY DEF BaseState
<1>1. Step(s, n) /\ n.ep = s.ep /\ n.sess = s.sess /\ n.abort = s.abort /\ n.sock = s.sock
      /\ n.events = s.events
  BY UnbindStep DEF nn_ins_unbind, Good, ProcType
<1>2. Turn(s, n, o)
  BY <1>1, AddressTurn DEF Step, Good
<1> HIDE DEF n
<1>3. Step(n, b) /\ b.ep[e].st = n.ep[e].st
  <2>1. Good(n) /\ n.ep[e].st = "ACTIVE" /\ n.ep[e].st # "NONE" /\ "STOPPING" \in BaseState
    BY <1>0, <1>1 DEF Step
  <2> QED
    BY ONLY <2>1, e \in Endpoint, SetBaseStep, SMTT(30)
<1>4. Turn(n, b, o) /\ b.sess = n.sess /\ b.ep[e].sock = n.ep[e].sock
      /\ b.ep[e].sessions = n.ep[e].sessions
  <2>1. Good(n)
    BY <1>1 DEF Step
  <2> QED
    BY ONLY <2>1, <1>0, e \in Endpoint, SetBaseTurn, Zenon
<1> HIDE DEF b
<1>5. b \in S
  BY <1>3, StepNot, TurnNot DEF Step, Good
<1>6. \A u \in S, c \in Endpoint : c \in {q[2] : q \in s.ep[e].sessions}
                                   => nn_sinproc_stop(u, <<"b", c>>) \in S
  <2> SUFFICES ASSUME NEW u \in S, NEW q \in Session, q \in s.ep[e].sessions
               PROVE  nn_sinproc_stop(u, q) \in S
    <3>1. s.ep[e].sessions \subseteq {"b"} \X Endpoint
      BY EpOf DEF EpType
    <3>2. \A c \in Endpoint : c \in {q[2] : q \in s.ep[e].sessions}
                              => <<"b", c>> \in s.ep[e].sessions /\ <<"b", c>> \in Session
      BY <3>1 DEF Session
    <3> HIDE DEF S
    <3> QED
      BY <3>2
  <2>0. Good(u) /\ Step(b, u) /\ u.ep = b.ep /\ Turn(b, u, o)
    BY DEF Step
  <2> DEFINE w == nn_sinproc_stop(u, q)
  <2>1. Step(u, w)
    BY <2>0, SinprocStopStep
  <2>2. Step(b, w)
    BY <2>0, <2>1, StepTwice
  <2>3. w.ep = b.ep
    BY <2>0, SinprocStopEps
  <2>4. Turn(u, w, HomeOf(u, q))
    BY <2>0, SinprocStopTurn
  <2>5. ASSUME Led(b, o), Stays(b, u) PROVE HomeOf(u, q) = o
    <3>1. b.ep[e].sessions = s.ep[e].sessions /\ b.ep[e].sock = o
      BY <1>1, <1>4
    <3>2. b.sess[q].ep = e /\ b.sess[q].st # "NONE"
      BY <2>5, <3>1 DEF Led, Kin
    <3> QED
      BY <2>5, <3>1, <3>2 DEF HomeOf, Stays
  <2> HIDE DEF w, S, o
  <2>6. w.abort = "no" => u.abort = "no"
    BY <2>4 DEF Turn
  <2>7. Turn(b, w, o)
    BY <2>0, <2>4, <2>5, <2>6, TurnThen
  <2>8. w \in ProcType
    BY <2>1 DEF Step, Good
  <2> QED
    BY <2>2, <2>3, <2>7, <2>8 DEF S, w
<1> HIDE DEF S
<1>7. PICK u \in S : nn_binproc_stop(s, e) = IF s.ep[e].lonely THEN Abort(u, "stops_without_peer")
                                             ELSE BinprocStopped(u, e)
  <2>1. \E u \in S : nn_binproc_stop(s, e) = IF s.ep[e].lonely THEN Abort(u, "stops_without_peer")
                                             ELSE BinprocStopped(u, e)
    BY <1>5, <1>6, StopLoop DEF b, n
  <2> QED
    BY <2>1
<1>8. Good(u) /\ u.ep = b.ep /\ Turn(b, u, o)
  BY DEF S, Step
<1>9. Turn(u, BinprocStopped(u, e), u.ep[e].sock) /\ u.ep[e].sock = o
  BY <1>1, <1>3, <1>4, <1>8, BaseStoppedTurn
<1> HIDE DEF o
<1>10. Turn(s, u, o)
  BY <1>2, <1>4, <1>8, TurnTwice
<1>11. Turn(s, BinprocStopped(u, e), o)
  BY <1>9, <1>10, TurnTwice
<1>12. Turn(s, Abort(u, "stops_without_peer"), o)
  <2>1. Turn(u, Abort(u, "stops_without_peer"), o)
    BY <1>8, AbortTurn DEF Why
  <2> QED
    BY <2>1, <1>10, TurnTwice
<1> QED
  BY <1>7, <1>11, <1>12 DEF o

(* nn_cinproc_stop is a turn.                                              *)
LEMMA CinprocStopTurn ==
  ASSUME NEW s, Good(s), NEW e \in Endpoint, s.ep[e].st = "ACTIVE"
  PROVE  Turn(s, nn_cinproc_stop(s, e), s.ep[e].sock)
<1> DEFINE n == nn_ins_disconnect(s, e)
           b == [n EXCEPT !.ep[e].base = "STOPPING"]
           o == s.ep[e].sock
           q == <<"c", e>>
           w == nn_sinproc_stop(b, q)
           z == CinprocStopped(w, e)
<1>0. q \in Session /\ "STOPPING" \in BaseState /\ s.sess[q].ep = e
  BY DEF Session, BaseState, Good, Homes
<1>s. nn_cinproc_stop(s, e) = z
  BY DEF nn_cinproc_stop
<1> HIDE DEF q
<1>1. Step(s, n) /\ n.ep = s.ep /\ n.sess = s.sess /\ n.abort = s.abort /\ n.sock = s.sock
      /\ n.events = s.events
  BY DisconnectInsStep DEF nn_ins_disconnect, Good, ProcType
<1>2. Turn(s, n, o)
  BY <1>1, AddressTurn DEF Step, Good
<1> HIDE DEF n
<1>3. Step(n, b) /\ b.ep[e].st = n.ep[e].st
  <2>1. Good(n) /\ n.ep[e].st = "ACTIVE" /\ n.ep[e].st # "NONE" /\ "STOPPING" \in BaseState
    BY <1>0, <1>1 DEF Step
  <2> QED
    BY ONLY <2>1, e \in Endpoint, SetBaseStep, SMTT(30)
<1>4. Turn(n, b, o) /\ b.sess = n.sess /\ b.ep[e].sock = n.ep[e].sock
  <2>1. Good(n)
    BY <1>1 DEF Step
  <2> QED
    BY ONLY <2>1, <1>0, e \in Endpoint, SetBaseTurn, SMTT(30)
<1> HIDE DEF b
<1>5. Good(w) /\ w.ep = b.ep
  BY <1>0, <1>3, SinprocStopStep, SinprocStopEps DEF Step
<1>6. HomeOf(b, q) = o
  BY <1>0, <1>1, <1>4 DEF HomeOf
<1>7. Turn(b, w, o)
  <2>1. Good(b)
    BY <1>3 DEF Step
  <2> QED
    BY <1>0, <1>6, <2>1, SinprocStopTurn
<1> HIDE DEF w
<1>8. Turn(w, z, o)
  BY <1>1, <1>3, <1>4, <1>5, BaseStoppedTurn
<1> HIDE DEF z, o
<1>9. Turn(s, w, o)
  BY <1>2, <1>4, <1>7, TurnTwice
<1> QED
  BY <1>s, <1>8, <1>9, TurnTwice DEF o

(* nn_ep_stop is a turn of its socket's context.                            *)
LEMMA SetEpTurn ==
  ASSUME NEW s, Good(s), NEW e \in Endpoint, NEW x \in EpState, NEW o
  PROVE  Turn(s, [s EXCEPT !.ep[e].st = x], o) /\ [s EXCEPT !.ep[e].st = x].ep[e].sock = s.ep[e].sock
<1> DEFINE r == [s.ep[e] EXCEPT !.st = x]
           u == [s EXCEPT !.ep[e] = r]
<1>1. s.ep[e] \in EpType
  BY EpOf
<1>2. r \in EpType /\ r.sock = s.ep[e].sock /\ r.sessions = s.ep[e].sessions
  BY <1>1 DEF EpType
<1> HIDE DEF r
<1>3. Turn(s, u, o)
  BY <1>2, EpPartTurn
<1>4. u.ep[e] = r
  BY DEF Good, ProcType
<1>5. u = [s EXCEPT !.ep[e].st = x]
  BY DEF r
<1> HIDE DEF u
<1> QED
  BY <1>2, <1>3, <1>4, <1>5

(* nn_ep_stop is a turn of its socket's context.                           *)
LEMMA EpStopTurn ==
  ASSUME NEW s, Good(s), NEW e \in Endpoint
  PROVE  Turn(s, nn_ep_stop(s, e), s.ep[e].sock)
<1> SUFFICES ASSUME s.ep[e].st = "ACTIVE" PROVE Turn(s, nn_ep_stop(s, e), s.ep[e].sock)
  BY TurnNot DEF nn_ep_stop
<1> DEFINE u == IF s.ep[e].kind = "bind" THEN nn_binproc_stop(s, e) ELSE nn_cinproc_stop(s, e)
           w == [u EXCEPT !.ep[e].st = "STOPPING"]
           o == s.ep[e].sock
<1>1. Step(s, u) /\ Turn(s, u, o)
  BY BinprocStopStep, CinprocStopStep, BinprocStopTurn, CinprocStopTurn
<1>2. nn_ep_stop(s, e) = w
  BY DEF nn_ep_stop
<1> HIDE DEF u
<1>3. Turn(u, w, o)
  BY <1>1, SetEpTurn DEF Step, EpState
<1> HIDE DEF w
<1> QED
  BY <1>1, <1>2, <1>3, TurnTwice

(* A bound endpoint handles its events in a turn.                          *)
LEMMA BinprocHandlerTurn ==
  ASSUME NEW s, Good(s), NEW e \in Endpoint, s.ep[e].kind = "bind",
         NEW v \in OwnEvent \cup ToEvent, v.to = <<"base", e>>, Fits(s, v)
  PROVE  Turn(s, nn_binproc_handler(s, e, v), s.ep[e].sock)
<1> DEFINE o == s.ep[e].sock
<1>0. Turn(s, Abort(s, "connects_to_stopping"), o) /\ Turn(s, Bad(s), o)
  BY AbortTurn, BadTurn DEF Why
<1>1. v.from \in Session
  BY DEF OwnEvent, ToEvent, SessEvent, FurtherEvent, EventOf, SocketName, EndpointName, BaseName, Session
<1>2. CASE s.ep[e].base = "ACTIVE" /\ v.type = "CONNECT"
  <2>1. s.ep[e].st = "ACTIVE"
    BY <1>2, EpOf DEF EpFits
  <2>2. v.from[1] = "c" /\ v.from[2] \in Endpoint
    BY <1>1, <1>2, <2>1 DEF Fits, Session
  <2> DEFINE c == v.from[2]
             q == <<"b", c>>
             u == WithSession(s, e, c)
             w == nn_sinproc_accept(u, q, Twin(q))
  <2>3. q \in Session /\ Twin(q) = v.from
    BY <1>1, <2>2 DEF Session, Twin
  <2>4. nn_binproc_handler(s, e, v) = IF u.abort # "no" THEN u ELSE w
    BY <1>2, <2>3 DEF nn_binproc_handler
  <2> HIDE DEF c, o
  <2>5. Good(u) /\ Turn(s, u, o)
    BY <2>1, <2>2, WithSessionStep, WithSessionTurn DEF c, Step
  <2> HIDE DEF u, q
  <2>6. Turn(u, w, o)
    BY <2>3, <2>5, SinprocAcceptTurn
  <2> HIDE DEF w
  <2> QED
    BY <2>4, <2>5, <2>6, TurnTwice DEF o
<1>3. CASE s.ep[e].base = "STOPPING" /\ v.type = "STOPPED"
  <2> DEFINE u == nn_sinproc_term(s, v.from)
             Q == u.ep[e].sessions \ {v.from}
             r == [u.ep[e] EXCEPT !.sessions = Q]
             w == [u EXCEPT !.ep[e] = r]
  <2>1. Step(s, u) /\ Turn(s, u, o) /\ u.ep = s.ep /\ (u.abort = "no" => Blank(u.sess[v.from]))
    BY <1>1, SinprocTermStep, SinprocTermEps, SinprocTermTurn
  <2>q. u.ep[e].sessions \ Q \subseteq {v.from}
    OBVIOUS
  <2>2. nn_binproc_handler(s, e, v) = BinprocStopped(w, e)
    BY <1>3 DEF nn_binproc_handler
  <2>3. u.ep[e] \in EpType
    BY <2>1, EpOf DEF Step
  <2>4. Q \in SUBSET ({"b"} \X Endpoint) /\ Q \subseteq u.ep[e].sessions
    BY <2>3 DEF EpType
  <2> HIDE DEF u, Q
  <2>5. r \in EpType /\ r.sock = u.ep[e].sock /\ r.sessions = Q
    BY <2>3, <2>4 DEF EpType
  <2>6. Good(w)
    <3>1. w = [u EXCEPT !.ep[e].sessions = Q]
      OBVIOUS
    <3> HIDE DEF w
    <3> QED
      BY <2>1, <2>4, <2>q, <3>1, SetSessionsStep DEF Step
  <2>7. Turn(u, w, o)
    <3> HIDE DEF r, o
    <3> QED
      BY <2>1, <2>4, <2>5, EpPartTurn DEF Step
  <2>8. w.ep[e] = r
    BY <2>1 DEF Step, Good, ProcType
  <2>9. w.ep[e].st # "NONE" /\ w.ep[e].sock = o
    BY <1>3, <2>1, <2>3, <2>5, <2>8, EpOf DEF EpFits, EpType
  <2> HIDE DEF w, r
  <2>10. Turn(w, BinprocStopped(w, e), o)
    BY <2>6, <2>9, BaseStoppedTurn
  <2> HIDE DEF o
  <2>11. Turn(s, w, o)
    BY <2>1, <2>7, TurnTwice
  <2> QED
    BY <2>2, <2>10, <2>11, TurnTwice DEF o
<1>4. CASE s.ep[e].base = "STOPPING" /\ v.type = "CONNECT"
  BY <1>0, <1>4 DEF nn_binproc_handler
<1>5. CASE /\ ~(s.ep[e].base = "ACTIVE" /\ v.type = "CONNECT")
           /\ ~(s.ep[e].base = "STOPPING" /\ v.type \in {"STOPPED", "CONNECT"})
  <2>1. nn_binproc_handler(s, e, v) = Bad(s)
    BY <1>5 DEF nn_binproc_handler
  <2> QED
    BY <1>0, <2>1
<1> QED
  BY <1>2, <1>3, <1>4, <1>5

(* A connected endpoint handles its events in a turn.                      *)
LEMMA CinprocHandlerTurn ==
  ASSUME NEW s, Good(s), NEW e \in Endpoint, s.ep[e].kind # "bind",
         NEW v \in OwnEvent \cup ToEvent, v.to = <<"base", e>>, Fits(s, v)
  PROVE  Turn(s, nn_cinproc_handler(s, e, v), s.ep[e].sock)
<1> DEFINE o == s.ep[e].sock
<1>1. v.from \in Session
  BY DEF OwnEvent, ToEvent, SessEvent, FurtherEvent, EventOf, SocketName, EndpointName, BaseName, Session
<1>2. CASE s.ep[e].base = "DISCONNECTED" /\ v.type = "CONNECT"
  <2>1. s.ep[e].st = "ACTIVE" /\ s.ep[e].st # "NONE" /\ "ACTIVE" \in BaseState
    BY <1>2, EpOf DEF EpFits, BaseState
  <2>2. v.from = <<"b", e>>
    BY <1>1, <1>2, <2>1 DEF Fits, Session
  <2> DEFINE q == <<"c", e>>
             u == [s EXCEPT !.ep[e].base = "ACTIVE"]
             w == nn_sinproc_accept(u, q, Twin(q))
  <2>3. q \in Session /\ Twin(q) = v.from
    BY <2>2 DEF Session, Twin
  <2>4. nn_cinproc_handler(s, e, v) = w
    BY <1>2, <2>3 DEF nn_cinproc_handler
  <2>5. Step(s, u)
    BY ONLY Good(s), e \in Endpoint, <2>1, SetBaseStep, Zenon
  <2>6. Turn(s, u, o)
    BY ONLY Good(s), e \in Endpoint, <2>1, SetBaseTurn, Zenon
  <2> HIDE DEF u, q
  <2>7. Turn(u, w, o)
    BY <2>3, <2>5, SinprocAcceptTurn DEF Step
  <2> HIDE DEF w, o
  <2> QED
    BY <2>4, <2>6, <2>7, TurnTwice DEF o
<1>3. CASE s.ep[e].base = "STOPPING"
  <2>1. nn_cinproc_handler(s, e, v) = CinprocStopped(s, e)
    BY <1>3 DEF nn_cinproc_handler
  <2>2. s.ep[e].st # "NONE"
    BY <1>3, EpOf DEF EpFits
  <2> QED
    BY <2>1, <2>2, BaseStoppedTurn
<1>4. CASE /\ ~(s.ep[e].base = "DISCONNECTED" /\ v.type = "CONNECT")
           /\ s.ep[e].base # "STOPPING"
  <2>1. nn_cinproc_handler(s, e, v) \in {Bad(s), Abort(s, "address_bound_again")}
    BY <1>4 DEF nn_cinproc_handler
  <2>2. Turn(s, Abort(s, "address_bound_again"), o)
    BY AbortTurn DEF Why
  <2> QED
    BY <2>1, <2>2, BadTurn
<1> QED
  BY <1>2, <1>3, <1>4

(* nn_ep_handler is a turn.                                                *)
LEMMA EpHandlerTurn ==
  ASSUME NEW s, Good(s), NEW e \in Endpoint
  PROVE  Turn(s, nn_ep_handler(s, e), s.ep[e].sock)
<1> SUFFICES ASSUME s.ep[e].st = "STOPPING" PROVE Turn(s, nn_ep_handler(s, e), s.ep[e].sock)
  BY BadTurn DEF nn_ep_handler
<1> DEFINE o == s.ep[e].sock
           u == [s EXCEPT !.ep[e].st = "IDLE"]
           slot == <<<<"ep", e>>, "stopped">>
           to == <<"sock", o>>
           from == <<"ep", e>>
           w == Raise(u, slot, to, "EP_STOPPED", from)
<1>1. o \in Socket \cup {0}
  <2>1. s.ep[e] \in EpType
    BY EpOf
  <2> QED
    BY <2>1 DEF EpType
<1>2. nn_ep_handler(s, e) = w
  BY DEF nn_ep_handler
<1>3. Step(s, u)
  BY SetEpStep, NotAddressed
<1>4. Turn(s, u, o)
  BY SetEpTurn DEF EpState
<1>5. [slot |-> slot, to |-> to, type |-> "EP_STOPPED", from |-> from] \in OwnEvent
  BY <1>1, EpEvent
<1>6. OwnHome(u, to) = o
  BY DEF OwnHome
<1> HIDE DEF u, o, slot, to, from
<1>7. Turn(u, w, OwnHome(u, to))
  BY <1>3, <1>5, RaiseTurn DEF Step, Way
<1> HIDE DEF w
<1> QED
  BY <1>2, <1>4, <1>6, <1>7, TurnTwice DEF o

(* An endpoint is freed in any context.                                     *)
LEMMA EpTermOfTurn ==
  ASSUME NEW s, Good(s), NEW e \in Endpoint, NEW o
  PROVE  Turn(s, nn_ep_term(s, e), o)
<1> SUFFICES ASSUME s.ep[e].st = "IDLE", s.ep[e].sessions = {}
             PROVE  Turn(s, nn_ep_term(s, e), o)
  BY BadTurn DEF nn_ep_term
<1> DEFINE u == IF s.ep[e].kind = "bind" THEN s ELSE nn_sinproc_term(s, <<"c", e>>)
           r == [u.ep[e] EXCEPT !.st = "FREED", !.kind = "none"]
           w == [u EXCEPT !.ep[e] = r]
<1>1. Step(s, u) /\ Turn(s, u, o)
  <2> DEFINE q == <<"c", e>>
  <2>1. q \in Session
    BY DEF Session
  <2> HIDE DEF q
  <2>2. Step(s, nn_sinproc_term(s, q)) /\ Turn(s, nn_sinproc_term(s, q), o)
    BY <2>1, SinprocTermStep, SinprocTermTurn
  <2> QED
    BY <2>2, StepNot, TurnNot DEF q
<1>2. nn_ep_term(s, e) = w
  BY DEF nn_ep_term
<1> HIDE DEF u
<1>3. u.ep[e] \in EpType
  BY <1>1, EpOf DEF Step
<1>4. r \in EpType /\ r.sock = u.ep[e].sock /\ r.sessions = u.ep[e].sessions
  BY <1>3 DEF EpType, EpState
<1> HIDE DEF r
<1>5. Turn(u, w, o)
  BY <1>1, <1>4, EpPartTurn DEF Step
<1> HIDE DEF w
<1> QED
  BY <1>1, <1>2, <1>5, TurnTwice

(* nn_ep_term, and the socket's list of stopping endpoints without it, are *)
(* a turn.                                                                 *)
LEMMA EpTermTurn ==
  ASSUME NEW s, Good(s), NEW o \in Socket \cup {0}, NEW v, v.from \in EndpointName
  PROVE  Turn(s, EpTerm(s, o, v), o)
<1> DEFINE e == v.from[2]
           k == [s.sock[o] EXCEPT !.sdeps = @ \ {e}]
           u == [s EXCEPT !.sock[o] = k]
           x == nn_ep_term(s, e)
           w == [x EXCEPT !.sock[o] = k]
<1>1. e \in Endpoint
  BY DEF EndpointName
<1>2. EpTerm(s, o, v) = nn_ep_term(u, e)
  BY DEF EpTerm
<1> HIDE DEF e
<1>4. Good(x) /\ Turn(s, x, o) /\ x.sock = s.sock
  BY <1>1, EpTermOfStep, EpTermOfTurn DEF Step
<1>3. nn_ep_term(u, e) = w
  <2> DEFINE S == [s.sock EXCEPT ![o] = k]
  <2>1. u = [s EXCEPT !.sock = S]
    OBVIOUS
  <2>2. w = [x EXCEPT !.sock = S]
    BY <1>4
  <2> HIDE DEF S, w
  <2>3. nn_ep_term([s EXCEPT !.sock = S], e) = [x EXCEPT !.sock = S]
    BY <1>1, EpTermOtherSock
  <2> QED
    BY <2>1, <2>2, <2>3
<1> HIDE DEF x
<1>5. Turn(x, w, o)
  <2>1. CASE o = 0
    <3>1. w = x
      BY <2>1, <1>4, ZeroSock DEF Good
    <3> QED
      BY <3>1, TurnNot
  <2>2. CASE o \in Socket
    <3>1. s.sock[o] \in SockType
      BY <2>2, SockOf
    <3>2. /\ k \in SockType /\ k.st = x.sock[o].st /\ k.excl = x.sock[o].excl /\ k.eps = x.sock[o].eps
          /\ k.flags = x.sock[o].flags /\ k.efd = x.sock[o].efd
      BY <1>4, <3>1 DEF SockType
    <3> HIDE DEF k
    <3> QED
      BY <2>2, <3>2, <1>4, SockTurn
  <2> QED
    BY <2>1, <2>2
<1> HIDE DEF w, u
<1> QED
  BY <1>2, <1>3, <1>4, <1>5, TurnTwice

(* The end of nn_sock_shutdown, which wakes nn_close, is a turn.           *)
LEMMA SockStoppedTurn ==
  ASSUME NEW s, Good(s), NEW o \in Socket \cup {0}
  PROVE  Turn(s, SockStopped(s, o), o)
<1> DEFINE k == [s.sock[o] EXCEPT !.st = "CLOSED", !.sem = TRUE]
           u == [s EXCEPT !.sock[o] = k]
<1>1. Turn(s, s, o) /\ Turn(s, Bad(s), o)
  BY TurnNot, BadTurn
<1>2. SockStopped(s, o) \in {s, Bad(s), u}
  <2>1. u = [s EXCEPT !.sock[o].st = "CLOSED", !.sock[o].sem = TRUE]
    <3>1. CASE o = 0
      <4> DEFINE a == [s EXCEPT !.sock[0].st = "CLOSED"]
                 c == [a EXCEPT !.sock[0].sem = TRUE]
      <4>1. u = s /\ a = s
        BY <3>1, ZeroSock DEF Good
      <4>2. c = a
        <5> HIDE DEF a
        <5> QED
          BY <4>1, ZeroSock DEF Good
      <4>3. [s EXCEPT !.sock[0].st = "CLOSED", !.sock[0].sem = TRUE] = c
        OBVIOUS
      <4> HIDE DEF a, c, u
      <4> QED
        BY <3>1, <4>1, <4>2, <4>3
    <3>2. CASE o \in Socket
      BY <3>2 DEF Good, ProcType
    <3> QED
      BY <3>1, <3>2
  <2> QED
    BY <2>1 DEF SockStopped
<1>3. Turn(s, u, o)
  <2>1. CASE o = 0
    <3>1. u = s
      BY <2>1, ZeroSock DEF Good
    <3> QED
      BY <3>1, TurnNot
  <2>2. CASE o \in Socket
    <3>1. s.sock[o] \in SockType
      BY <2>2, SockOf
    <3>2. k \in SockType /\ k.st = "CLOSED" /\ k.excl = s.sock[o].excl /\ k.eps = s.sock[o].eps
      BY <3>1 DEF SockType, SockState
    <3> HIDE DEF k
    <3> QED
      BY <2>2, <3>2, SockTurn
  <2> QED
    BY <2>1, <2>2
<1> HIDE DEF u
<1> QED
  BY <1>1, <1>2, <1>3

(* nn_sock_shutdown, when nn_close asks for it, is a turn: the efds are    *)
(* closed.                                                                 *)
LEMMA SockStopTurn ==
  ASSUME NEW s, Good(s), NEW o \in Socket
  PROVE  Turn(s, nn_sock_stop(s, o), o)
<1> SUFFICES ASSUME s.sock[o].st \in {"ACTIVE", "ZOMBIE"}, s.abort = "no", Led(s, o)
             PROVE  Turn(s, nn_sock_stop(s, o), o)
  <2>1. nn_sock_stop(s, o).abort = "no" => s.abort = "no"
    BY SockStopStep DEF Step, Kept
  <2> QED
    BY <2>1, TurnIf, TurnNot DEF nn_sock_stop
<1> DEFINE k == [s.sock[o] EXCEPT !.st = "STOPPING_EPS", !.efd = {}, !.eps = {},
                                  !.sdeps = s.sock[o].sdeps \cup s.sock[o].eps]
           b == [s EXCEPT !.sock[o] = k]
           S == {u \in ProcType : Step(s, u) /\ Turn(s, u, o)}
<1>1. s.sock[o] \in SockType
  BY SockOf
<1>2. /\ k \in SockType /\ k.st = "STOPPING_EPS" /\ k.lock = s.sock[o].lock
      /\ k.optset = s.sock[o].optset /\ k.eps = {} /\ k.sdeps = s.sock[o].sdeps \cup s.sock[o].eps
      /\ k.excl = s.sock[o].excl
  <2>1. s.sock[o].sdeps \cup s.sock[o].eps \in SUBSET Endpoint /\ {} \in SUBSET Endpoint
        /\ {} \in SUBSET Way
    BY <1>1 DEF SockType
  <2> DEFINE a == [s.sock[o] EXCEPT !.st = "STOPPING_EPS", !.efd = {}]
             D == s.sock[o].sdeps \cup s.sock[o].eps
  <2>2. /\ a \in SockType /\ a.st = "STOPPING_EPS" /\ a.lock = s.sock[o].lock
        /\ a.optset = s.sock[o].optset /\ a.sdeps = s.sock[o].sdeps /\ a.excl = s.sock[o].excl
    BY <1>1, <2>1 DEF SockType, SockState
  <2>3. k = [a EXCEPT !.eps = {}, !.sdeps = D]
    BY <1>1 DEF SockType
  <2> HIDE DEF a, k, D
  <2> QED
    BY <2>1, <2>2, <2>3 DEF SockType, D
<1>3. b = SockStopping(s, o)
  BY DEF SockStopping
<1> HIDE DEF k
<1>o. SameOwner(s, s.sock[o], k)
  BY <1>2 DEF SameOwner, InUse
<1>4. Step(s, b)
  BY <1>2, <1>o, SockStep
<1>5. Turn(s, b, o)
  BY <1>2, SockTurn
<1> HIDE DEF b
<1>6. b \in S
  BY <1>4, <1>5 DEF Step, Good
<1>7. \A u \in S, e \in Endpoint : e \in s.sock[o].eps => nn_ep_stop(u, e) \in S
  <2> SUFFICES ASSUME NEW u \in S, NEW e \in Endpoint, e \in s.sock[o].eps
               PROVE  nn_ep_stop(u, e) \in S
    OBVIOUS
  <2>1. Step(s, u) /\ Turn(s, u, o)
    OBVIOUS
  <2> DEFINE w == nn_ep_stop(u, e)
  <2>2. Step(u, w) /\ Turn(u, w, u.ep[e].sock)
    BY <2>1, EpStopStep, EpStopTurn DEF Step
  <2> HIDE DEF w, S
  <2>3. Step(s, w)
    BY <2>1, <2>2, StepTwice
  <2>4. w.abort = "no" => u.abort = "no"
    BY <2>2 DEF Turn
  <2>5. Stays(s, u) => u.ep[e].sock = o
    BY DEF Led, Kin, Stays
  <2>6. Turn(s, w, o)
    BY <2>1, <2>2, <2>4, <2>5, TurnThen
  <2> QED
    BY <2>3, <2>6 DEF Step, Good, S, w
<1> HIDE DEF S
<1>8. PICK u \in S : nn_sock_stop(s, o) = SockStopped(u, o)
  <2>1. \E u \in S : nn_sock_stop(s, o) = SockStopped(u, o)
    BY <1>3, <1>6, <1>7, SockLoop
  <2> QED
    BY <2>1
<1>9. Good(u) /\ Turn(s, u, o)
  BY DEF S, Step
<1>10. Turn(u, SockStopped(u, o), o)
  BY <1>9, SockStoppedTurn
<1> QED
  BY <1>8, <1>9, <1>10, TurnTwice

(* A socket handles an event but IN and OUT in a turn.                     *)
LEMMA SockHandlerTurn ==
  ASSUME NEW s, Good(s), NEW v \in OwnEvent, NEW o \in Socket \cup {0}, v.to = <<"sock", o>>,
         v.type \notin Way
  PROVE  Turn(s, SockHandler(s, o, v), o)
<1> DEFINE k == s.sock[o]
           u == EpTerm(s, o, v)
<1>0. Turn(s, Abort(s, "event_of_zombie"), o) /\ Turn(s, Bad(s), o)
  BY AbortTurn, BadTurn DEF Why
<1>1. v.type = "EP_STOPPED" /\ v.from \in EndpointName
  BY DEF OwnEvent, EventOf, SocketName, EndpointName, BaseName
<1>2. "EP_STOPPED" \notin Way
  BY DEF Way
<1>3. Good(u) /\ Turn(s, u, o)
  BY <1>1, EpTermStep, EpTermTurn DEF Step
<1>4. CASE k.st = "ACTIVE"
  BY <1>1, <1>3, <1>4 DEF SockHandler
<1>5. CASE k.st = "ZOMBIE"
  BY <1>0, <1>5 DEF SockHandler
<1>6. CASE k.st = "STOPPING_EPS"
  <2>1. SockHandler(s, o, v) = SockStopped(u, o)
    BY <1>1, <1>6, <1>2 DEF SockHandler
  <2> HIDE DEF u
  <2>2. Turn(u, SockStopped(u, o), o)
    BY <1>3, SockStoppedTurn
  <2> QED
    BY <1>3, <2>1, <2>2, TurnTwice
<1>7. CASE k.st \notin {"ACTIVE", "ZOMBIE", "STOPPING_EPS"}
  <2>1. SockHandler(s, o, v) = Bad(s)
    BY <1>7 DEF SockHandler
  <2> QED
    BY <1>0, <2>1
<1> QED
  BY <1>4, <1>5, <1>6, <1>7

(* An event but IN and OUT is handled in a turn of its receiver's context.  *)
LEMMA HandleTurn ==
  ASSUME NEW s, Good(s), NEW v \in OwnEvent \cup ToEvent, Fits(s, v), Handed(s, v), v.type \notin Way
  PROVE  Turn(s, Handle(s, v), SocketOf(s, v.to))
<1>1. CASE v.to \in SocketName
  <2>1. v \in OwnEvent
    BY <1>1 DEF ToEvent, SessEvent, FurtherEvent, EventOf, SocketName, BaseName, Session
  <2>2. PICK o \in Socket \cup {0} : v.to = <<"sock", o>>
    BY <1>1 DEF SocketName
  <2>3. Handle(s, v) = SockHandler(s, o, v) /\ SocketOf(s, v.to) = o
    BY <2>2 DEF Handle, SocketOf
  <2> QED
    BY <2>1, <2>2, <2>3, SockHandlerTurn
<1>2. CASE v.to \in EndpointName
  <2>1. PICK e \in Endpoint : v.to = <<"ep", e>>
    BY <1>2 DEF EndpointName
  <2>2. Handle(s, v) = nn_ep_handler(s, e) /\ SocketOf(s, v.to) = s.ep[e].sock
    BY <2>1 DEF Handle, SocketOf
  <2> QED
    BY <2>1, <2>2, EpHandlerTurn
<1>3. CASE v.to \in BaseName
  <2>1. PICK e \in Endpoint : v.to = <<"base", e>>
    BY <1>3 DEF BaseName
  <2>2. Handle(s, v) = IF s.ep[e].kind = "bind" THEN nn_binproc_handler(s, e, v)
                       ELSE nn_cinproc_handler(s, e, v)
    BY <2>1 DEF Handle
  <2>3. SocketOf(s, v.to) = s.ep[e].sock
    BY <2>1 DEF SocketOf
  <2> QED
    BY <2>1, <2>2, <2>3, BinprocHandlerTurn, CinprocHandlerTurn
<1>4. CASE v.to \in Session
  <2>1. v \in SessEvent
    BY <1>4 DEF OwnEvent, ToEvent, FurtherEvent, EventOf, SocketName, EndpointName, BaseName, Session
  <2>2. Handle(s, v) = nn_sinproc_handler(s, v.to, v) /\ SocketOf(s, v.to) = HomeOf(s, v.to)
    BY <1>4 DEF Handle, Session, SocketOf, HomeOf
  <2> QED
    BY <1>4, <2>1, <2>2, SinprocHandlerTurn
<1>5. v.to \in SocketName \cup EndpointName \cup BaseName \cup Session
  BY DEF OwnEvent, ToEvent, SessEvent, FurtherEvent, EventOf
<1> QED
  BY <1>1, <1>2, <1>3, <1>4, <1>5

-----------------------------------------------------------------------------
(* Rounds of nn_ctx_leave                                                   *)

(* A sequence has its first member, and those of the rest.                 *)
LEMMA Unshifted ==
  ASSUME NEW X, NEW A \in Seq(X), A # <<>>, NEW i \in DOMAIN A, i # 1
  PROVE  \E j \in DOMAIN Tail(A) : Tail(A)[j] = A[i]
<1>1. Tail(A) \in Seq(X) /\ Len(Tail(A)) = Len(A) - 1 /\ Len(A) \in Nat /\ i \in 1 .. Len(A)
  OBVIOUS
<1>2. i - 1 \in 1 .. Len(Tail(A)) /\ (i - 1) + 1 = i
  BY <1>1
<1>3. Tail(A)[i - 1] = A[i] /\ i - 1 \in DOMAIN Tail(A)
  BY <1>1, <1>2
<1> QED
  BY <1>3

(* Only the first event is gone.                                           *)
LEMMA PopSignals ==
  ASSUME NEW s, s.events \in Seq(OwnEvent), s.events # <<>>, NEW u, u.events = Tail(s.events)
  PROVE  /\ \A q, way : Signals(s, q, way) <=>
              Signals(u, q, way) \/ (s.events[1].from = q /\ s.events[1].type = way)
         /\ \A i \in DOMAIN u.events :
              i + 1 \in DOMAIN s.events /\ u.events[i] = s.events[i + 1]
         /\ 1 \in DOMAIN s.events
<1>1. \A i \in DOMAIN u.events : i + 1 \in DOMAIN s.events /\ u.events[i] = s.events[i + 1]
  BY Shifted
<1>2. 1 \in DOMAIN s.events
  OBVIOUS
<1>3. \A i \in DOMAIN s.events : i = 1 \/ \E j \in DOMAIN u.events : u.events[j] = s.events[i]
  BY Unshifted
<1>4. ASSUME NEW q, NEW way
      PROVE  Signals(s, q, way) <=>
               Signals(u, q, way) \/ (s.events[1].from = q /\ s.events[1].type = way)
  <2>1. Signals(u, q, way) => Signals(s, q, way)
    BY <1>1 DEF Signals
  <2>2. s.events[1].from = q /\ s.events[1].type = way => Signals(s, q, way)
    BY <1>2 DEF Signals
  <2>3. ASSUME Signals(s, q, way), ~(s.events[1].from = q /\ s.events[1].type = way)
        PROVE  Signals(u, q, way)
    <3>1. PICK i \in DOMAIN s.events : s.events[i].from = q /\ s.events[i].type = way
      BY <2>3 DEF Signals
    <3>2. i # 1
      BY <2>3, <3>1
    <3> QED
      BY <1>3, <3>1, <3>2 DEF Signals
  <2> QED
    BY <2>1, <2>2, <2>3
<1> QED
  BY <1>1, <1>2, <1>4

(* What of a turn depends on the events but not on IN and OUT.             *)
LEMMA PopLed ==
  ASSUME NEW s, Good(s), s.events # <<>>, NEW o, Led(s, o), NEW u, u.events = Tail(s.events),
         u.sess = s.sess, u.ep = s.ep, \A x \in Socket : u.sock[x].eps = s.sock[x].eps
  PROVE  Links(u) /\ Heard(u) /\ Local(u, o) /\ Kin(u) /\ Stays(s, u)
<1>1. s.events \in Seq(OwnEvent)
  BY DEF Good, ProcType
<1>2. \A i \in DOMAIN u.events : i + 1 \in DOMAIN s.events /\ u.events[i] = s.events[i + 1]
  BY <1>1, PopSignals
<1>3. Links(u) /\ Kin(u) /\ Stays(s, u)
  BY DEF Led, Links, Kin, Stays
<1>4. Heard(u)
  BY <1>2 DEF Led, Heard
<1>5. Local(u, o)
  BY <1>2 DEF Led, Local, OwnHome
<1> QED
  BY <1>3, <1>4, <1>5

(* An event but IN and OUT leaves its queue in a turn.                     *)
LEMMA PopOfTurn ==
  ASSUME NEW s, Good(s), s.events # <<>>, Head(s.events).type \notin Way, NEW o, NEW u,
         u.abort = s.abort, u.sess = s.sess, u.sock = s.sock, u.ep = s.ep, u.events = Tail(s.events)
  PROVE  Turn(s, u, o)
<1> SUFFICES ASSUME Led(s, o) PROVE Led(u, o) /\ Stays(s, u)
  BY DEF Turn
<1>1. s.events \in Seq(OwnEvent) /\ Head(s.events) = s.events[1]
  BY DEF Good, ProcType
<1>2. Links(u) /\ Heard(u) /\ Local(u, o) /\ Kin(u) /\ Stays(s, u)
  BY PopLed
<1>3. ASSUME NEW y PROVE /\ Signals(u, y, "IN") <=> Signals(s, y, "IN")
                         /\ Signals(u, y, "OUT") <=> Signals(s, y, "OUT")
  BY <1>1, PopSignals DEF Way
<1>4. ASSUME NEW x \in Socket PROVE Wired(u, x) /\ nn_xpair_events(u, x) = nn_xpair_events(s, x)
  <2> DEFINE y == s.sock[x].excl.pipe
  <2>1. Wired(s, x) /\ SameSock(u.sock[x], s.sock[x])
    BY DEF Led, Wires, SameSock
  <2>2. SamePipe(u.sess[y], s.sess[y]) /\ u.ep[u.sess[y].ep].sock = s.ep[s.sess[y].ep].sock
    BY DEF SamePipe
  <2>3. (Signals(u, y, "IN") <=> Signals(s, y, "IN")) /\ (Signals(u, y, "OUT") <=> Signals(s, y, "OUT"))
    BY <1>3
  <2>4. y # None => /\ SamePipe(u.sess[y], s.sess[y])
                    /\ u.ep[u.sess[y].ep].sock = s.ep[s.sess[y].ep].sock
                    /\ Signals(u, y, "IN") <=> Signals(s, y, "IN")
                    /\ Signals(u, y, "OUT") <=> Signals(s, y, "OUT")
    BY <2>2, <2>3
  <2>5. PipeKept(s, u, y)
    BY ONLY <2>4 DEF PipeKept
  <2> QED
    BY ONLY <2>1, <2>5, WiredKept
<1>5. Wires(u) /\ Rested(u, o)
  BY <1>4 DEF Led, Wires, Rested
<1> QED
  BY <1>2, <1>5 DEF Led

(* The first event leaves its queue in a turn if it is neither IN nor OUT. *)
LEMMA PopTurn ==
  ASSUME NEW s, Good(s), s.events # <<>>, Head(s.events).type \notin Way, NEW o
  PROVE  Turn(s, Popped(s), o)
BY PopStep, PopOfTurn

(* IN or OUT leaves its queue, and the socket knows what its pipe can do.  *)
LEMMA WayGives ==
  ASSUME NEW s, Good(s), s.events # <<>>, NEW o \in Socket, Led(s, o),
         NEW v, v = Head(s.events), v.type \in Way, NEW w,
         w.abort = "no" => s.abort = "no",
         w.sess = s.sess, w.ep = s.ep, w.events = Tail(s.events), s.sock[o].excl.pipe = v.from,
         \A x \in Socket \ {o} : w.sock[x] = s.sock[x],
         w.sock[o].st = s.sock[o].st, w.sock[o].eps = s.sock[o].eps,
         w.sock[o].flags = s.sock[o].flags, w.sock[o].efd = s.sock[o].efd,
         w.sock[o].excl.pipe = v.from,
         w.sock[o].excl.inpipe = IF v.type = "IN" THEN v.from ELSE s.sock[o].excl.inpipe,
         w.sock[o].excl.outpipe = IF v.type = "OUT" THEN v.from ELSE s.sock[o].excl.outpipe
  PROVE  Turn(s, w, o)
<1> DEFINE q == v.from
<1>0. s.events \in Seq(OwnEvent) /\ v = s.events[1]
  BY DEF Good, ProcType
<1>1. q \in Session /\ q # None
  <2>1. v \in OwnEvent
    BY <1>0
  <2>2. q \in Session
    BY <2>1 DEF OwnEvent, EventOf, Way
  <2> QED
    BY <2>2, Names
<1>2. Links(w) /\ Heard(w) /\ Local(w, o) /\ Kin(w) /\ Stays(s, w)
  BY PopLed
<1>3. ASSUME NEW y, NEW way
      PROVE  Signals(s, y, way) <=> Signals(w, y, way) \/ (q = y /\ v.type = way)
  BY <1>0, PopSignals
<1>4. Wired(s, o)
  BY DEF Led, Wires
<1>5. Wired(w, o)
  <2>1. s.sess[q].pipe = "ACTIVE" /\ s.ep[s.sess[q].ep].sock = o
    BY <1>1, <1>4 DEF Wired
  <2>2. CASE v.type = "IN"
    <3>1. s.sess[q].queue # <<>>
      BY <1>1, <1>3, <1>4, <2>2 DEF Wired
    <3>2. Signals(w, q, "OUT") <=> Signals(s, q, "OUT")
      BY <1>3, <2>2
    <3>3. ~s.sess[q].sending <=> w.sock[o].excl.outpipe = q \/ Signals(w, q, "OUT")
      BY <1>1, <1>4, <2>2, <3>2 DEF Wired
    <3> QED
      BY <1>1, <1>4, <2>1, <2>2, <3>1, <3>3, ZenonT(60) DEF Wired
  <2>3. CASE v.type = "OUT"
    <3>1. ~s.sess[q].sending
      BY <1>1, <1>3, <1>4, <2>3 DEF Wired
    <3>2. Signals(w, q, "IN") <=> Signals(s, q, "IN")
      BY <1>3, <2>3
    <3>3. s.sess[q].queue # <<>> <=> w.sock[o].excl.inpipe = q \/ Signals(w, q, "IN")
      BY <1>1, <1>4, <2>3, <3>2 DEF Wired
    <3> QED
      BY <1>1, <1>4, <2>1, <2>3, <3>1, <3>3, ZenonT(60) DEF Wired
  <2> QED
    BY <2>2, <2>3 DEF Way
<1>6. ASSUME NEW x \in Socket \ {o}
      PROVE  Wired(w, x) /\ nn_xpair_events(w, x) = nn_xpair_events(s, x)
  <2> DEFINE y == s.sock[x].excl.pipe
  <2>1. Wired(s, x) /\ SameSock(w.sock[x], s.sock[x])
    BY DEF Led, Wires, SameSock
  <2>2. y # None => y # q
    BY <1>1, <1>4, <2>1, ZenonT(60) DEF Wired
  <2>3. y # None => /\ SamePipe(w.sess[y], s.sess[y])
                    /\ w.ep[w.sess[y].ep].sock = s.ep[s.sess[y].ep].sock
                    /\ Signals(w, y, "IN") <=> Signals(s, y, "IN")
                    /\ Signals(w, y, "OUT") <=> Signals(s, y, "OUT")
    BY <1>3, <2>2 DEF SamePipe
  <2> QED
    <3>1. PipeKept(s, w, y)
      BY ONLY <2>3 DEF PipeKept
    <3> QED
      BY ONLY <2>1, <3>1, WiredKept
<1>7. Wires(w) /\ Rested(w, o)
  BY <1>5, <1>6 DEF Led, Wires, Rested
<1> QED
  BY <1>2, <1>7 DEF Led, Turn

(* IN and OUT of the own context's pipe are handled in a turn.             *)
LEMMA WayTurn ==
  ASSUME NEW s, Good(s), s.events # <<>>, Head(s.events).type \in Way, NEW o \in Socket
  PROVE  Turn(s, Handle(Popped(s), Head(s.events)), o)
<1> DEFINE v == Head(s.events)
           u == Popped(s)
           n == Handle(u, v)
           k == s.sock[o]
<1>1. /\ Step(s, u) /\ v \in OwnEvent /\ v = s.events[1] /\ Fits(u, v) /\ Handed(u, v)
      /\ u.abort = s.abort /\ u.sess = s.sess /\ u.sock = s.sock /\ u.ep = s.ep
      /\ u.events = Tail(s.events) /\ s.events \in Seq(OwnEvent)
  BY PopStep
<1>2. n.abort = "no" => u.abort = "no"
  <2> HIDE DEF u, v
  <2> QED
    BY <1>1, HandleStep DEF Step, Kept
<1> HIDE DEF u, v
<1> SUFFICES ASSUME n.abort = "no", Led(s, o) PROVE Turn(s, n, o)
  BY <1>1, <1>2 DEF Turn, u, v
<1>3. v.to = <<"sock", o>> /\ v.type \in Way
  <2>1. v.to \in SocketName /\ v.type \in Way
    BY <1>1 DEF OwnEvent, EventOf, Way, v
  <2>2. OwnHome(s, v.to) = o
    <3>1. 1 \in DOMAIN s.events
      BY <1>1
    <3> QED
      BY <1>1, <3>1 DEF Led, Local
  <2> QED
    BY <2>1, <2>2 DEF SocketName, OwnHome
<1>4. n = SockHandler(u, o, v) /\ Good(u) /\ u.sock[o] = k /\ k \in SockType /\ k.excl \in ExclType
  BY <1>1, <1>3, SockOf DEF Handle, Step, SockType
<1>5. u.abort = "no" /\ s.abort = "no"
  BY <1>1, <1>2
<1>6. Abort(u, "event_of_zombie").abort # "no" /\ Abort(u, "pipe_event_at_close").abort # "no"
      /\ Bad(u).abort # "no" /\ Abort(u, "event_of_removed_pipe").abort # "no"
  BY <1>4, AbortParts DEF Good, Why, Bad
<1>7. k.st = "ACTIVE" /\ n = IF v.type = "IN" THEN nn_excl_in(u, o, v.from) ELSE nn_excl_out(u, o, v.from)
  BY <1>3, <1>4, <1>6 DEF SockHandler, Way
<1>8. /\ k.excl.pipe = v.from
      /\ n = IF v.type = "IN" THEN [u EXCEPT !.sock[o].excl.inpipe = v.from]
             ELSE [u EXCEPT !.sock[o].excl.outpipe = v.from]
  BY <1>3, <1>4, <1>6, <1>7 DEF nn_excl_in, nn_excl_out, Way
<1> DEFINE x == [k.excl EXCEPT !.inpipe = IF v.type = "IN" THEN v.from ELSE @,
                               !.outpipe = IF v.type = "OUT" THEN v.from ELSE @]
<1>9. u \in ProcType /\ u.sock \in [Socket -> SockType] /\ u.sock = s.sock
  BY <1>1, <1>4 DEF Good, ProcType
<1>10. /\ x.pipe = v.from /\ x.inpipe = (IF v.type = "IN" THEN v.from ELSE k.excl.inpipe)
       /\ x.outpipe = (IF v.type = "OUT" THEN v.from ELSE k.excl.outpipe)
  BY <1>4, <1>8 DEF ExclType
<1>11. n = [u EXCEPT !.sock = [u.sock EXCEPT ![o].excl = x]]
  <2>1. CASE v.type = "IN"
    <3>1. x = [u.sock[o].excl EXCEPT !.inpipe = v.from]
      BY <1>4, <2>1 DEF ExclType
    <3> HIDE DEF x
    <3>2. n = [u EXCEPT !.sock[o].excl.inpipe = v.from]
      BY <1>8, <2>1
    <3> QED
      BY <1>9, <3>1, <3>2 DEF ProcType, SockType
  <2>2. CASE v.type = "OUT"
    <3>1. x = [u.sock[o].excl EXCEPT !.outpipe = v.from]
      BY <1>4, <2>2 DEF ExclType
    <3> HIDE DEF x
    <3>2. n = [u EXCEPT !.sock[o].excl.outpipe = v.from]
      BY <1>8, <2>2
    <3> QED
      BY <1>9, <3>1, <3>2 DEF ProcType, SockType
  <2> QED
    BY <1>3, <2>1, <2>2 DEF Way
<1> DEFINE T == [u.sock EXCEPT ![o].excl = x]
<1> HIDE DEF x, n
<1>12. /\ \A y \in Socket \ {o} : T[y] = s.sock[y]
       /\ T[o].excl = x /\ T[o].st = k.st /\ T[o].flags = k.flags /\ T[o].efd = k.efd /\ T[o].eps = k.eps
  BY <1>9, SetExcl
<1> HIDE DEF T
<1>13. n.sock = T /\ n.sess = s.sess /\ n.ep = s.ep /\ n.events = Tail(s.events)
  BY <1>1, <1>9, <1>11 DEF ProcType, T
<1>14. /\ s.sock[o].excl.pipe = v.from /\ (\A y \in Socket \ {o} : n.sock[y] = s.sock[y])
       /\ n.sock[o].st = s.sock[o].st /\ n.sock[o].eps = s.sock[o].eps
       /\ n.sock[o].flags = s.sock[o].flags /\ n.sock[o].efd = s.sock[o].efd
       /\ n.sock[o].excl.pipe = v.from
       /\ n.sock[o].excl.inpipe = (IF v.type = "IN" THEN v.from ELSE s.sock[o].excl.inpipe)
       /\ n.sock[o].excl.outpipe = (IF v.type = "OUT" THEN v.from ELSE s.sock[o].excl.outpipe)
  BY <1>8, <1>10, <1>12, <1>13
<1>15. s.events # <<>> /\ v = Head(s.events) /\ v.type \in Way
  BY <1>3 DEF v
<1> HIDE DEF k
<1> QED
  BY ONLY <1>5, <1>13, <1>14, <1>15, Good(s), Led(s, o), o \in Socket, WayGives

(* A round of nn_ctx_leave's loop is a turn.                               *)
LEMMA NextEventTurn ==
  ASSUME NEW s, Good(s), NEW o \in Socket
  PROVE  Turn(s, NextEvent(s), o)
<1> SUFFICES ASSUME s.events # <<>>, s.abort = "no" PROVE Turn(s, NextEvent(s), o)
  BY TurnNot DEF NextEvent
<1> DEFINE v == Head(s.events)
           u == Popped(s)
<1>1. NextEvent(s) = Handle(u, v)
  BY DEF NextEvent, Popped
<1>2. CASE v.type \in Way
  BY <1>1, <1>2, WayTurn
<1>3. CASE v.type \notin Way
  <2>1. /\ Step(s, u) /\ v \in OwnEvent /\ v = s.events[1] /\ Fits(u, v) /\ Handed(u, v)
        /\ u.sess = s.sess /\ u.ep = s.ep /\ s.events \in Seq(OwnEvent)
    BY PopStep
  <2>2. Turn(s, u, o)
    BY <1>3, PopTurn
  <2> HIDE DEF u, v
  <2>3. Good(u) /\ Step(u, Handle(u, v)) /\ Turn(u, Handle(u, v), SocketOf(u, v.to))
    BY <1>3, <2>1, HandleStep, HandleTurn DEF Step
  <2>4. Led(s, o) => SocketOf(u, v.to) = o
    <3>1. 1 \in DOMAIN s.events
      BY <2>1
    <3>2. Led(s, o) => OwnHome(s, v.to) = o
      BY <2>1, <3>1 DEF Led, Local
    <3>3. v.to[1] \in {"sock", "ep", "base"}
      BY <2>1 DEF OwnEvent, EventOf, SocketName, BaseName, EndpointName
    <3>4. SocketOf(u, v.to) = OwnHome(s, v.to)
      BY <2>1, <3>3 DEF SocketOf, OwnHome
    <3> QED
      BY <3>2, <3>4
  <2>5. Handle(u, v).abort = "no" => u.abort = "no"
    BY <2>3 DEF Turn
  <2>6. Turn(s, Handle(u, v), o)
    BY <2>2, <2>3, <2>4, <2>5, TurnThen
  <2> QED
    BY <1>1, <2>6
<1> QED
  BY <1>2, <1>3

(* The loop is one, and none of its context's events is left.              *)
LEMMA DrainedTurn ==
  ASSUME NEW s, Good(s), NEW o \in Socket
  PROVE  Turn(s, Drained(s), o) /\ (Drained(s).abort = "no" => Drained(s).events = <<>>)
<1> DEFINE S == {u \in ProcType : Step(s, u) /\ Turn(s, u, o)}
<1>1. s \in S
  BY StepNot, TurnNot DEF Good
<1>2. \A u \in S : NextEvent(u) \in S
  <2> SUFFICES ASSUME NEW u \in S PROVE NextEvent(u) \in S
    OBVIOUS
  <2>1. Step(u, NextEvent(u)) /\ Turn(u, NextEvent(u), o)
    BY NextEventStep, NextEventTurn DEF Step
  <2> QED
    BY <2>1, StepTwice, TurnTwice DEF Step, Good
<1>3. \A u \in S : Good(u) /\ Turn(s, u, o)
  BY DEF Step
<1> HIDE DEF S
<1>4. PICK u \in S : Drained(s) = IF u.events = <<>> THEN u ELSE Abort(u, "out_of_rounds")
  <2>1. \E u \in S : Drained(s) = IF u.events = <<>> THEN u ELSE Abort(u, "out_of_rounds")
    BY <1>1, <1>2, DrainedStays
  <2> QED
    BY <2>1
<1>5. Turn(u, Abort(u, "out_of_rounds"), o) /\ Abort(u, "out_of_rounds").abort # "no"
  BY <1>3, AbortTurn, AbortParts DEF Good, Why
<1> QED
  BY <1>3, <1>4, <1>5, TurnTwice
=============================================================================
