--------------------------- MODULE NnGlobalProofs ---------------------------
(***************************************************************************)
(* Theorems about NnGlobal for any number of threads, sockets, endpoints,  *)
(* slots and messages: types, the table of slots, what a freed socket      *)
(* leaves, that no message between inproc pair sockets is lost, doubled or *)
(* reordered, and that the efds of a socket show what it can do. The       *)
(* invariant is Whole: the contexts are Good, each call is where it may    *)
(* be, and the table of sockets fits its list of unused slots; for the     *)
(* efds, AtRest holds with it: no event of a context waits and all is Led. *)
(***************************************************************************)
EXTENDS NnContextProofs, FiniteSetTheorems, SequenceTheorems

-----------------------------------------------------------------------------
(* The whole invariant: contexts, calls and slots                          *)

(* Where a call can be.                                                    *)
CallFits(s, t) ==
  LET c == s.th[t] IN
  /\ c.at = "none" => c = NoCall
  /\ c.at # "none" => c.call # "none"
  /\ c.call \notin {"none", "term"} => c.slot \in SlotNumber
  /\ c.call = "close" => /\ c.at \in {"glock", "enter", "sem", "return"}
                         /\ c.at \in {"glock", "enter"} => c.o = 0
                         /\ c.at = "enter" => s.glock = t
  /\ c.call \in {"bind", "connect"} => c.at \in {"glock", "enter", "return"}
  /\ c.call = "term" => c.at \in {"glock", "zombify", "return"}
  /\ c.at = "sem" => /\ c.call = "close" /\ s.glock = t /\ c.o # 0 /\ s.table[c.slot] = c.o
  /\ c.at = "zombify" => c.call = "term"
  /\ c.at \in {"poll", "again"} => c.call \in {"send", "recv"} /\ c.o # 0
  /\ c.at = "transport" => c.call = "setsockopt" /\ c.o # 0
  /\ c.o # 0 => s.sock[c.o].st # "NONE"
CallsFit(s) == \A t \in Thread : CallFits(s, t)

(* The table of sockets: a socket in use is in one slot, the stack of      *)
(* unused slots names each free one once, and nsocks counts the used ones. *)
UsedSlots(s) == {i \in SlotNumber : s.table[i] # 0}
TableFits(s) ==
  /\ \A i, j \in SlotNumber : s.table[i] = s.table[j] /\ s.table[i] # 0 => i = j
  /\ \A i \in SlotNumber : s.table[i] # 0 => s.sock[s.table[i]].st \notin {"NONE", "FREED"}
  /\ \A o \in Socket : s.sock[o].st \notin {"NONE", "FREED"} => \E i \in SlotNumber : s.table[i] = o
  /\ \A n \in 1 .. MaxSlots - s.nsocks : s.table[s.unused[n]] = 0
  /\ \A n, m \in 1 .. MaxSlots - s.nsocks : s.unused[n] = s.unused[m] => n = m
  /\ \A i \in SlotNumber : s.table[i] = 0 => \E n \in 1 .. MaxSlots - s.nsocks : s.unused[n] = i
  /\ s.nsocks = Cardinality(UsedSlots(s))

(* The invariant of NnGlobal.                                              *)
Whole(s) == Good(s) /\ CallsFit(s) /\ TableFits(s)

(* A step moves no call and no slot of the table.                          *)
LEMMA WholeKept ==
  ASSUME NEW s, NEW u, Whole(s), Step(s, u)
  PROVE  Whole(u)
<1>1. /\ u.glock = s.glock /\ u.table = s.table /\ u.unused = s.unused /\ u.nsocks = s.nsocks
      /\ u.th = s.th
      /\ \A o \in Socket : (u.sock[o].st = "NONE" <=> s.sock[o].st = "NONE")
                           /\ (u.sock[o].st = "FREED" <=> s.sock[o].st = "FREED")
  BY DEF Step, Kept
<1>2. /\ \A t \in Thread : s.th[t].o \in Socket \cup {0}
      /\ \A i \in SlotNumber : s.table[i] \in Socket \cup {0}
  <2>1. s.th \in [Thread -> CallType] /\ s.table \in [SlotNumber -> Socket \cup {0}]
    BY DEF Whole, Good, ProcType
  <2> QED
    BY <2>1 DEF CallType
<1>3. CallsFit(u)
  BY <1>1, <1>2 DEF Whole, CallsFit, CallFits
<1>4. TableFits(u)
  <2>1. UsedSlots(u) = UsedSlots(s)
    BY <1>1 DEF UsedSlots
  <2> QED
    BY <2>1, <1>1, <1>2 DEF Whole, TableFits
<1> QED
  BY <1>3, <1>4 DEF Whole, Step

(* A call moves on.                                                        *)
WithCall(s, t, c, g) == [s EXCEPT !.th[t] = c, !.glock = g]

(* A call and the global lock may change without touching the contexts.    *)
LEMMA ThGood ==
  ASSUME NEW s, Good(s), NEW t \in Thread, NEW c \in CallType, NEW g \in Thread \cup {NoThread}
  PROVE  LET u == WithCall(s, t, c, g) IN
         /\ Good(u)
         /\ u.table = s.table /\ u.unused = s.unused /\ u.nsocks = s.nsocks /\ u.sock = s.sock
         /\ u.th[t] = c /\ u.glock = g /\ \A x \in Thread \ {t} : u.th[x] = s.th[x]
<1> DEFINE S == [s.th EXCEPT ![t] = c]
           a == [s EXCEPT !.th = S]
           u == [a EXCEPT !.glock = g]
<1>1. u \in ProcType
  <2>1. S \in [Thread -> CallType]
    BY DEF Good, ProcType
  <2> HIDE DEF S
  <2>2. a \in ProcType
    BY <2>1 DEF Good, ProcType
  <2> HIDE DEF a
  <2> QED
    BY <2>2 DEF ProcType
<1>2. /\ u.overlap = s.overlap /\ u.term = s.term /\ u.table = s.table
      /\ u.unused = s.unused /\ u.nsocks = s.nsocks /\ u.pend = s.pend
      /\ u.hand = s.hand /\ u.ep = s.ep /\ u.sess = s.sess /\ u.sock = s.sock
      /\ u.bound = s.bound /\ u.connected = s.connected /\ u.eventsto = s.eventsto
      /\ u.abort = s.abort /\ u.events = s.events
      /\ u.th[t] = c /\ u.glock = g /\ \A x \in Thread \ {t} : u.th[x] = s.th[x]
  BY DEF ProcType, Good
<1>3. WithCall(s, t, c, g) = u
  BY DEF WithCall
<1> HIDE DEF u
<1>4. Peers(u) /\ Homes(u)
  BY <1>2 DEF Good, Peers, Homes
<1>5. Bases(u) /\ Addressed(u)
  BY <1>2 DEF Good, Bases, Addressed
<1>6. AllFit(u)
  <2>1. \A w : Fits(u, w) <=> Fits(s, w)
    BY <1>2 DEF Fits
  <2> QED
    BY <2>1, <1>2 DEF Good, AllFit
<1>7. FreedClean(u) /\ Life(u)
  BY <1>2, LifeSame DEF Good, FreedClean
<1>8. Flow(u)
  BY <1>2, FlowSame DEF Good, SameQueues
<1> QED
  BY <1>1, <1>2, <1>3, <1>4, <1>5, <1>6, <1>7, <1>8 DEF Good

(* A call that goes on to where it may be keeps the whole invariant.       *)
LEMMA ThWhole ==
  ASSUME NEW s, Whole(s), NEW t \in Thread, NEW c \in CallType, NEW g \in Thread \cup {NoThread},
         g = s.glock \/ (g = t /\ s.glock = NoThread) \/ (g = NoThread /\ s.glock = t),
         CallFits(WithCall(s, t, c, g), t)
  PROVE  Whole(WithCall(s, t, c, g))
<1> DEFINE u == WithCall(s, t, c, g)
<1>1. /\ Good(u)
      /\ u.table = s.table /\ u.unused = s.unused /\ u.nsocks = s.nsocks /\ u.sock = s.sock
      /\ u.th[t] = c /\ u.glock = g /\ \A x \in Thread \ {t} : u.th[x] = s.th[x]
  BY ThGood DEF Whole
<1>2. CallFits(u, t)
  OBVIOUS
<1> HIDE DEF u
<1>3. ASSUME NEW x \in Thread \ {t} PROVE CallFits(u, x)
  <2>1. s.glock = x => u.glock = x
    BY <1>1, GlobalBounds
  <2> QED
    BY <1>1, <2>1 DEF Whole, CallsFit, CallFits
<1>4. TableFits(u)
  <2>1. UsedSlots(u) = UsedSlots(s)
    BY <1>1 DEF UsedSlots
  <2> QED
    BY <2>1, <1>1 DEF Whole, TableFits
<1>5. Whole(u)
  BY <1>1, <1>2, <1>3, <1>4 DEF Whole, CallsFit
<1> QED
  BY <1>5 DEF u

(* Only events move.                                                       *)
SameButEvents(s, u) ==
  /\ u.overlap = s.overlap /\ u.glock = s.glock /\ u.term = s.term /\ u.table = s.table
  /\ u.unused = s.unused /\ u.nsocks = s.nsocks /\ u.th = s.th /\ u.ep = s.ep
  /\ u.sess = s.sess /\ u.sock = s.sock /\ u.bound = s.bound /\ u.connected = s.connected
  /\ u.abort = s.abort

(* A change of the event queues alone keeps what is said of calls and      *)
(* slots.                                                                  *)
LEMMA EventsWhole ==
  ASSUME NEW s, Whole(s), NEW u \in ProcType, SameButEvents(s, u), AllFit(u), Flow(u)
  PROVE  Whole(u)
<1> USE DEF SameButEvents
<1>1. Peers(u) /\ Homes(u)
  BY DEF Whole, Good, Peers, Homes
<1>2. Bases(u) /\ Addressed(u)
  BY DEF Whole, Good, Bases, Addressed
<1>3. FreedClean(u) /\ Life(u)
  BY LifeSame DEF Whole, Good, FreedClean
<1>4. CallsFit(u)
  BY DEF Whole, CallsFit, CallFits
<1>5. TableFits(u)
  <2>1. UsedSlots(u) = UsedSlots(s)
    BY DEF UsedSlots
  <2> QED
    BY <2>1 DEF Whole, TableFits
<1> QED
  BY <1>1, <1>2, <1>3, <1>4, <1>5 DEF Whole, Good

(* No call is a call, and fits.                                            *)
LEMMA NoCallFits ==
  /\ NoCall \in CallType
  /\ \A s : \A t \in Thread : s.th[t] = NoCall => CallFits(s, t)
BY DEF NoCall, CallType, CallFits

(* A call that has been put off for the events of another context comes    *)
(* back to its place.                                                      *)
LEMMA SettledWhole ==
  ASSUME NEW s, Whole(s), NEW t \in Thread
  PROVE  Whole(Settled(s, t))
<1> DEFINE g == IF s.glock = t THEN NoThread ELSE s.glock
           u == WithCall(s, t, NoCall, g)
<1>1. Settled(s, t) \in {s, Abort(s, "counts_on_closed_socket"), u}
  BY DEF Settled, WithCall
<1>2. Whole(Abort(s, "counts_on_closed_socket"))
  <2>1. Step(s, Abort(s, "counts_on_closed_socket"))
    BY AbortStep DEF Why, Whole
  <2> QED
    BY <2>1, WholeKept
<1>3. g \in Thread \cup {NoThread} /\ (g = s.glock \/ (g = NoThread /\ s.glock = t))
  BY DEF Whole, Good, ProcType
<1> HIDE DEF g
<1>4. u.th[t] = NoCall
  BY <1>3, NoCallFits, ThGood DEF Whole
<1>5. CallFits(u, t)
  BY <1>4, NoCallFits
<1>6. Whole(u)
  BY <1>3, <1>5, NoCallFits, ThWhole
<1> HIDE DEF u
<1> QED
  BY <1>1, <1>2, <1>6

(* A member of two sequences put together is a member of one of them.      *)
LEMMA Concatenated ==
  ASSUME NEW X, NEW A \in Seq(X), NEW B \in Seq(X), NEW i \in DOMAIN (A \o B)
  PROVE  \/ i \in DOMAIN A /\ (A \o B)[i] = A[i]
         \/ \E j \in DOMAIN B : (A \o B)[i] = B[j]
<1>1. i \in 1 .. Len(A) + Len(B) /\ Len(A) \in Nat /\ Len(B) \in Nat
  OBVIOUS
<1>2. CASE i <= Len(A)
  BY <1>1, <1>2
<1>3. CASE i > Len(A)
  <2>1. i - Len(A) \in DOMAIN B /\ (A \o B)[i] = B[i - Len(A)]
    BY <1>1, <1>3
  <2> QED
    BY <2>1
<1> QED
  BY <1>1, <1>2, <1>3

(* nn_ctx_leave as a whole, with the events for other contexts handed to   *)
(* the thread, keeps the invariant.                                        *)
LEMMA LeaveWhole ==
  ASSUME NEW s, Whole(s), NEW t \in Thread, NEW o \in Socket \cup {0}
  PROVE  Whole(nn_ctx_leave(s, t, o))
<1> DEFINE d == Drained(s)
           u == nn_sock_onleave(d, o)
           Q == u.eventsto \o u.pend[t]
           S == [u.pend EXCEPT ![t] = Q]
           w == [u EXCEPT !.pend = S, !.eventsto = <<>>]
<1>1. Step(s, d)
  BY DrainedStep DEF Whole
<1> HIDE DEF d
<1>2. Step(d, u)
  BY <1>1, OnleaveStep DEF Step
<1>3. nn_ctx_leave(s, t, o) = Settled(w, t)
  <2>1. w = [u EXCEPT !.pend[t] = u.eventsto \o @, !.eventsto = <<>>]
    OBVIOUS
  <2> QED
    BY <2>1 DEF nn_ctx_leave, d
<1> HIDE DEF u
<1>4. Whole(u)
  BY <1>1, <1>2, StepTwice, WholeKept
<1>5. Q \in Seq(ToEvent) /\ S \in [Thread -> Seq(ToEvent)] /\ u \in ProcType
      /\ u.eventsto \in Seq(ToEvent) /\ u.pend[t] \in Seq(ToEvent)
  <2>1. u \in ProcType
    BY <1>4 DEF Whole, Good
  <2>2. u.eventsto \in Seq(ToEvent) /\ u.pend[t] \in Seq(ToEvent) /\ u.pend \in [Thread -> Seq(ToEvent)]
    BY <2>1 DEF ProcType
  <2>3. Q \in Seq(ToEvent)
    BY <2>2
  <2> HIDE DEF Q
  <2> QED
    BY <2>1, <2>2, <2>3
<1>6. S[t] = Q /\ \A x \in Thread \ {t} : S[x] = u.pend[x]
  BY <1>5 DEF ProcType
<1>7. \A i \in DOMAIN Q : (i \in DOMAIN u.eventsto /\ Q[i] = u.eventsto[i])
                          \/ (\E j \in DOMAIN u.pend[t] : Q[i] = u.pend[t][j])
  <2> DEFINE A == u.eventsto
             B == u.pend[t]
  <2>1. A \in Seq(ToEvent) /\ B \in Seq(ToEvent) /\ Q = A \o B
    BY <1>5
  <2> HIDE DEF A, B, Q
  <2>2. \A i \in DOMAIN Q : (i \in DOMAIN A /\ Q[i] = A[i]) \/ (\E j \in DOMAIN B : Q[i] = B[j])
    <3> SUFFICES ASSUME NEW i \in DOMAIN (A \o B)
                 PROVE  \/ i \in DOMAIN A /\ (A \o B)[i] = A[i]
                        \/ \E j \in DOMAIN B : (A \o B)[i] = B[j]
      BY <2>1
    <3> QED
      BY <2>1, Concatenated
  <2> QED
    BY <2>2 DEF A, B
<1> HIDE DEF Q, S
<1>12. w.events = u.events
  BY <1>5 DEF ProcType
<1>8. w \in ProcType /\ SameButEvents(u, w) /\ w.pend = S /\ w.eventsto = <<>> /\ w.hand = u.hand
  <2> DEFINE a == [u EXCEPT !.pend = S]
  <2>1. a \in ProcType /\ SameButEvents(u, a) /\ a.pend = S /\ a.hand = u.hand
    BY <1>5 DEF ProcType, SameButEvents
  <2>2. w = [a EXCEPT !.eventsto = <<>>] /\ <<>> \in Seq(ToEvent)
    OBVIOUS
  <2> HIDE DEF a, w
  <2> QED
    BY <2>1, <2>2 DEF ProcType, SameButEvents
<1> HIDE DEF w
<1>11. Flow(w)
  <2> DEFINE n == <<"pend", t>>
             m == <<"eventsto", NoThread>>
  <2>1. n \in At /\ m \in At /\ n # m
    BY DEF At
  <2>2. QueueAt(u, n) = u.pend[t] /\ QueueAt(u, m) = u.eventsto /\ QueueAt(w, n) = Q
        /\ QueueAt(w, m) = <<>>
    BY <1>6, <1>8 DEF QueueAt
  <2>3. \A k \in At \ {n, m} : QueueAt(w, k) = QueueAt(u, k)
    BY <1>6, <1>8, <1>12 DEF At, QueueAt
  <2>4. Flow(u) /\ (Hands(u) => Hands(w)) /\ w.sess = u.sess /\ w.abort = u.abort
    BY <1>4, <1>8 DEF Whole, Good, Hands, SameButEvents
  <2>5. Q = u.eventsto \o u.pend[t]
    BY DEF Q
  <2> HIDE DEF n, m
  <2>6. QueueAt(u, n) \in Seq(ToEvent) /\ QueueAt(u, m) \in Seq(ToEvent)
        /\ QueueAt(w, n) = QueueAt(u, m) \o QueueAt(u, n) /\ QueueAt(w, m) = <<>>
    BY <1>5, <2>2, <2>5
  <2> QED
    BY <2>1, <2>3, <2>4, <2>6, FlowJoin
<1>9. AllFit(w)
  <2>1. \A v : Fits(w, v) <=> Fits(u, v)
    BY <1>8 DEF Fits, SameButEvents
  <2>2. AllFit(u)
    BY <1>4 DEF Whole, Good
  <2>3. \A x \in Thread : \A i \in DOMAIN w.pend[x] : Fits(w, w.pend[x][i])
    <3> SUFFICES ASSUME NEW x \in Thread, NEW i \in DOMAIN w.pend[x] PROVE Fits(w, w.pend[x][i])
      OBVIOUS
    <3>1. CASE x = t
      BY <3>1, <1>6, <1>7, <1>8, <2>1, <2>2 DEF AllFit
    <3>2. CASE x # t
      BY <3>2, <1>6, <1>8, <2>1, <2>2 DEF AllFit
    <3> QED
      BY <3>1, <3>2
  <2>4. \A x \in Thread : \A i \in DOMAIN w.hand[x] : Fits(w, w.hand[x][i])
    BY <1>8, <2>1, <2>2 DEF AllFit
  <2>5. \A i \in DOMAIN w.eventsto : Fits(w, w.eventsto[i])
    BY <1>8
  <2> QED
    BY <2>3, <2>4, <2>5 DEF AllFit
<1>10. Whole(w)
  BY <1>4, <1>8, <1>9, <1>11, EventsWhole
<1> QED
  BY <1>3, <1>10, SettledWhole

(* The least of a set of numbers is in it.                                 *)
LEMMA FirstInIn ==
  ASSUME NEW S, S \subseteq Nat, S # {}
  PROVE  FirstIn(S) \in S /\ \A y \in S : FirstIn(S) <= y
<1>1. PICK x \in S : \A y \in S : ~ (<<y, x>> \in OpToRel(<, Nat))
  BY NatLessThanWellFounded, WFMin
<1>2. \A y \in S : x <= y
  <2> SUFFICES ASSUME NEW y \in S, ~(x <= y) PROVE FALSE
    OBVIOUS
  <2>1. y < x /\ x \in Nat /\ y \in Nat
    OBVIOUS
  <2>2. <<y, x>> \in OpToRel(<, Nat)
    BY <2>1 DEF OpToRel
  <2> QED
    BY <2>2, <1>1
<1> QED
  BY <1>1, <1>2 DEF FirstIn

(* The call of a thread is well typed and where it may be.                 *)
LEMMA CallOf ==
  ASSUME NEW s, Whole(s), NEW t \in Thread
  PROVE  s.th[t] \in CallType /\ CallFits(s, t) /\ s.glock \in Thread \cup {NoThread}
         /\ s \in ProcType /\ Good(s)
BY DEF Whole, Good, ProcType, CallsFit

(* A call may move to where it may be.                                     *)
LEMMA MoveWhole ==
  ASSUME NEW s, Whole(s), NEW t \in Thread, NEW c \in CallType,
         CallFits(WithCall(s, t, c, s.glock), t)
  PROVE  Whole([s EXCEPT !.th[t] = c])
<1>1. s.glock \in Thread \cup {NoThread}
  BY CallOf
<1>2. Whole(WithCall(s, t, c, s.glock))
  BY <1>1, ThWhole
<1>3. WithCall(s, t, c, s.glock) = [s EXCEPT !.th[t] = c]
  BY CallOf DEF WithCall, ProcType
<1> QED
  BY <1>2, <1>3

(* A call's move leaves the table and the sockets alone.                   *)
LEMMA WithCallParts ==
  ASSUME NEW s, Whole(s), NEW t \in Thread, NEW c \in CallType, NEW g \in Thread \cup {NoThread}
  PROVE  LET u == WithCall(s, t, c, g) IN
         u.th[t] = c /\ u.glock = g /\ u.table = s.table /\ u.sock = s.sock /\ u.abort = s.abort
         /\ u.nsocks = s.nsocks
BY CallOf DEF WithCall, ProcType

(* A call may return.                                                      *)
LEMMA ReturnWhole ==
  ASSUME NEW s, Whole(s), NEW t \in Thread, s.th[t].at # "none"
  PROVE  Whole(WithThread(s, t, "return"))
<1> DEFINE c == [s.th[t] EXCEPT !.at = "return"]
           u == WithCall(s, t, c, s.glock)
<1>1. s.th[t] \in CallType /\ CallFits(s, t) /\ s.glock \in Thread \cup {NoThread}
  BY CallOf
<1>2. /\ c \in CallType /\ c.at = "return" /\ c.call = s.th[t].call /\ c.o = s.th[t].o
      /\ c.slot = s.th[t].slot
  BY <1>1 DEF CallType
<1>3. WithThread(s, t, "return") = [s EXCEPT !.th[t] = c]
  BY DEF WithThread
<1> HIDE DEF c
<1>4. u.th[t] = c /\ u.glock = s.glock /\ u.table = s.table /\ u.sock = s.sock
  BY <1>1, <1>2, WithCallParts
<1> HIDE DEF u
<1>5. CallFits(u, t)
  BY <1>1, <1>2, <1>4 DEF CallFits
<1> QED
  BY <1>2, <1>3, <1>5, MoveWhole DEF u

(* nn_global_rele_socket and the return of the call keep the invariant.    *)
LEMMA ReturnedWhole ==
  ASSUME NEW s, Whole(s), NEW t \in Thread, s.th[t].at # "none", NEW o \in Socket \cup {0}
  PROVE  Whole(Returned(s, t, o))
BY ReturnWhole, LeaveWhole DEF Returned

(* A stop of the process keeps the invariant.                              *)
LEMMA AbortWhole ==
  ASSUME NEW s, Whole(s), NEW why \in Why \ {"no"}
  PROVE  Whole(Abort(s, why))
<1>1. Step(s, Abort(s, why))
  BY AbortStep DEF Whole
<1> QED
  BY <1>1, WholeKept

(* The two marks of the process may be set.                                *)
LEMMA MarkWhole ==
  ASSUME NEW s, Whole(s), NEW a \in BOOLEAN, NEW b \in BOOLEAN
  PROVE  Whole([s EXCEPT !.overlap = a, !.term = b])
<1> DEFINE u == [s EXCEPT !.overlap = a, !.term = b]
<1>1. /\ u.glock = s.glock /\ u.table = s.table
      /\ u.unused = s.unused /\ u.nsocks = s.nsocks /\ u.th = s.th /\ u.pend = s.pend
      /\ u.hand = s.hand /\ u.ep = s.ep /\ u.sess = s.sess /\ u.sock = s.sock
      /\ u.bound = s.bound /\ u.connected = s.connected /\ u.eventsto = s.eventsto
      /\ u.abort = s.abort /\ u.events = s.events
  BY DEF ProcType, Good, Whole
<1>2. u \in ProcType
  BY DEF ProcType, Good, Whole
<1> HIDE DEF u
<1>3. Peers(u) /\ Homes(u)
  BY <1>1 DEF Whole, Good, Peers, Homes
<1>4. Bases(u) /\ Addressed(u)
  BY <1>1 DEF Whole, Good, Bases, Addressed
<1>5. AllFit(u)
  <2>1. \A w : Fits(u, w) <=> Fits(s, w)
    BY <1>1 DEF Fits
  <2> QED
    BY <2>1, <1>1 DEF Whole, Good, AllFit
<1>6. FreedClean(u) /\ Life(u)
  BY <1>1, LifeSame DEF Whole, Good, FreedClean
<1>7. CallsFit(u)
  BY <1>1 DEF Whole, CallsFit, CallFits
<1>8. TableFits(u)
  <2>1. UsedSlots(u) = UsedSlots(s)
    BY <1>1 DEF UsedSlots
  <2> QED
    BY <2>1, <1>1 DEF Whole, TableFits
<1>10. Flow(u)
  BY <1>1, FlowSame DEF Whole, Good, SameQueues
<1>9. Whole(u)
  BY <1>10, <1>2, <1>3, <1>4, <1>5, <1>6, <1>7, <1>8 DEF Whole, Good
<1> QED
  BY <1>9 DEF u

(* A socket that stays in its state of life may change.                    *)
LEMMA SockWhole ==
  ASSUME NEW s, Whole(s), NEW o \in Socket, NEW k \in SockType,
         k.st = "NONE" <=> s.sock[o].st = "NONE", k.st = "FREED" <=> s.sock[o].st = "FREED",
         SameOwner(s, s.sock[o], k)
  PROVE  Whole([s EXCEPT !.sock[o] = k]) /\ [s EXCEPT !.sock[o] = k].sock[o] = k
         /\ [s EXCEPT !.sock[o] = k].th = s.th
<1> DEFINE u == [s EXCEPT !.sock[o] = k]
<1>1. /\ Good(u)
      /\ u.overlap = s.overlap /\ u.glock = s.glock /\ u.term = s.term /\ u.table = s.table
      /\ u.unused = s.unused /\ u.nsocks = s.nsocks /\ u.th = s.th /\ u.pend = s.pend
      /\ u.hand = s.hand /\ u.abort = s.abort
      /\ u.sock[o] = k /\ \A x \in Socket \ {o} : u.sock[x] = s.sock[x]
  BY SockGood DEF Whole
<1> HIDE DEF u
<1>2. \A x \in Socket : (u.sock[x].st = "NONE" <=> s.sock[x].st = "NONE")
                        /\ (u.sock[x].st = "FREED" <=> s.sock[x].st = "FREED")
  BY <1>1
<1>3. /\ \A t \in Thread : s.th[t].o \in Socket \cup {0}
      /\ \A i \in SlotNumber : s.table[i] \in Socket \cup {0}
  <2>1. s.th \in [Thread -> CallType] /\ s.table \in [SlotNumber -> Socket \cup {0}]
    BY DEF Whole, Good, ProcType
  <2> QED
    BY <2>1 DEF CallType
<1>4. CallsFit(u)
  BY <1>1, <1>2, <1>3 DEF Whole, CallsFit, CallFits
<1>5. TableFits(u)
  <2>1. UsedSlots(u) = UsedSlots(s)
    BY <1>1 DEF UsedSlots
  <2> QED
    BY <2>1, <1>1, <1>2, <1>3 DEF Whole, TableFits
<1>6. Whole(u)
  BY <1>1, <1>4, <1>5 DEF Whole
<1> QED
  BY <1>1, <1>6 DEF u

-----------------------------------------------------------------------------
(* Events of other contexts, and the start of calls (ctx.c, global.c)      *)

(* The first and the other members of a sequence.                          *)
LEMMA SeqTail ==
  ASSUME NEW X, NEW A \in Seq(X), A # <<>>
  PROVE  /\ Tail(A) \in Seq(X) /\ Head(A) \in X /\ Head(A) = A[1] /\ 1 \in DOMAIN A
         /\ \A i \in DOMAIN Tail(A) : i + 1 \in DOMAIN A /\ Tail(A)[i] = A[i + 1]
OBVIOUS

(* A sequence of one.                                                      *)
LEMMA One ==
  ASSUME NEW X, NEW x \in X
  PROVE  <<x>> \in Seq(X) /\ \A i \in DOMAIN <<x>> : <<x>>[i] = x
OBVIOUS

(* What a thread holds and what it has pending may change, if the flow is  *)
(* kept.                                                                   *)
LEMMA MailWhole ==
  ASSUME NEW s, Whole(s), NEW t \in Thread, NEW A \in Seq(ToEvent), NEW B \in Seq(ToEvent),
         \A i \in DOMAIN A : Fits(s, A[i]), \A i \in DOMAIN B : Fits(s, B[i]),
         Flow([s EXCEPT !.hand[t] = A, !.pend[t] = B])
  PROVE  Whole([s EXCEPT !.hand[t] = A, !.pend[t] = B])
<1> DEFINE H == [s.hand EXCEPT ![t] = A]
           P == [s.pend EXCEPT ![t] = B]
           a == [s EXCEPT !.hand = H]
           u == [a EXCEPT !.pend = P]
<1>1. s \in ProcType /\ AllFit(s)
  BY DEF Whole, Good
<1>2. /\ H \in [Thread -> Seq(ToEvent)] /\ P \in [Thread -> Seq(ToEvent)]
      /\ H[t] = A /\ P[t] = B
      /\ \A x \in Thread \ {t} : H[x] = s.hand[x] /\ P[x] = s.pend[x]
  BY <1>1 DEF ProcType
<1>3. u = [s EXCEPT !.hand[t] = A, !.pend[t] = B]
  BY <1>1 DEF ProcType
<1> HIDE DEF H, P
<1>4. a \in ProcType /\ SameButEvents(s, a) /\ a.hand = H /\ a.pend = s.pend /\ a.eventsto = s.eventsto
  BY <1>1, <1>2 DEF ProcType, SameButEvents
<1> HIDE DEF a
<1>5. u \in ProcType /\ SameButEvents(s, u) /\ u.hand = H /\ u.pend = P /\ u.eventsto = s.eventsto
  BY <1>4, <1>2 DEF ProcType, SameButEvents
<1> HIDE DEF u
<1>7. Flow(u)
  BY <1>3
<1>6. AllFit(u)
  <2>1. \A v : Fits(u, v) <=> Fits(s, v)
    BY <1>5 DEF Fits, SameButEvents
  <2>2. \A i \in DOMAIN u.eventsto : Fits(u, u.eventsto[i])
    BY <1>1, <1>5, <2>1 DEF AllFit
  <2>3. \A x \in Thread : \A i \in DOMAIN u.pend[x] : Fits(u, u.pend[x][i])
    BY <1>1, <1>2, <1>5, <2>1, ZenonT(60) DEF AllFit
  <2>4. \A x \in Thread : \A i \in DOMAIN u.hand[x] : Fits(u, u.hand[x][i])
    BY <1>1, <1>2, <1>5, <2>1, ZenonT(60) DEF AllFit
  <2> QED
    BY <2>2, <2>3, <2>4 DEF AllFit
<1> QED
  BY <1>3, <1>5, <1>6, <1>7, EventsWhole

(* The oldest pending event moves into the thread's hand.                  *)
LEMMA TakeFlow ==
  ASSUME NEW s, Whole(s), NEW t \in Thread, s.hand[t] = <<>>, s.pend[t] # <<>>
  PROVE  Flow([s EXCEPT !.hand[t] = <<Head(s.pend[t])>>, !.pend[t] = Tail(s.pend[t])])
<1> DEFINE v == Head(s.pend[t])
           a == [s EXCEPT !.pend[t] = Tail(s.pend[t])]
           u == [a EXCEPT !.hand[t] = <<v>>]
           n == <<"pend", t>>
           m == <<"hand", t>>
<1>1. s \in ProcType /\ Flow(s) /\ s.pend[t] \in Seq(ToEvent) /\ t \in DOMAIN s.pend
      /\ t \in DOMAIN s.hand
  BY DEF Whole, Good, ProcType
<1>2. u = [s EXCEPT !.hand[t] = <<Head(s.pend[t])>>, !.pend[t] = Tail(s.pend[t])]
  BY <1>1 DEF ProcType
<1>3. /\ a.pend[t] = Tail(s.pend[t]) /\ \A x \in Thread \ {t} : a.pend[x] = s.pend[x]
      /\ a.hand = s.hand /\ a.events = s.events /\ a.eventsto = s.eventsto
      /\ a.sess = s.sess /\ a.abort = s.abort
  BY <1>1 DEF ProcType
<1>4. /\ u.hand[t] = <<v>> /\ \A x \in Thread \ {t} : u.hand[x] = s.hand[x]
      /\ u.pend = a.pend /\ u.events = s.events /\ u.eventsto = s.eventsto
      /\ u.sess = s.sess /\ u.abort = s.abort
  BY <1>1 DEF ProcType
<1>5. n \in At /\ m \in At /\ n # m
  BY DEF At
<1>6. /\ QueueAt(s, n) = s.pend[t] /\ QueueAt(a, n) = Tail(s.pend[t])
      /\ QueueAt(a, m) = <<>> /\ QueueAt(u, m) = <<v>>
  BY <1>3, <1>4 DEF QueueAt
<1> HIDE DEF a, u
<1>7. \A k \in At \ {n} : QueueAt(a, k) = QueueAt(s, k)
  BY <1>3 DEF At, QueueAt
<1>8. \A k \in At \ {m} : QueueAt(u, k) = QueueAt(a, k)
  BY <1>3, <1>4 DEF At, QueueAt
<1>9. Hands(s) => Hands(a)
  BY <1>3 DEF Hands
<1> HIDE DEF n, m, v
<1>15. v = s.pend[t][1]
  BY <1>1, SeqTail DEF v
<1>10. Flow(a) /\ Handed(a, v)
  BY <1>15, <1>1, <1>3, <1>5, <1>6, <1>7, <1>9, FlowTail
<1>11. Hands(a) => Hands(u)
  <2>1. DOMAIN <<v>> = {1}
    OBVIOUS
  <2> QED
    BY <2>1, <1>3, <1>4 DEF Hands
<1>12. <<>> \in Seq(ToEvent) /\ <<v>> = Append(<<>>, v)
  OBVIOUS
<1>14. QueueAt(a, m) \in Seq(ToEvent) /\ QueueAt(u, m) = Append(QueueAt(a, m), v)
       /\ u.sess = a.sess /\ u.abort = a.abort
       /\ (a.abort = "no" => Gone(a, v.slot) /\ EvFits(a, v))
  BY <1>3, <1>4, <1>6, <1>10, <1>12 DEF Handed
<1>13. Flow(u)
  BY <1>5, <1>8, <1>10, <1>11, <1>14, FlowAppend
<1> QED
  BY <1>2, <1>13

(* Nothing is left of a sequence of one without its first.                 *)
LEMMA TailOfOne ==
  ASSUME NEW X, NEW A \in Seq(X), Len(A) = 1
  PROVE  Tail(A) = <<>>
<1> DEFINE T == Tail(A)
<1>0. Len(A) \in Nat
  BY LenProperties
<1>1. A # <<>> /\ Len(A) \in Nat
  <2>1. Len(<<>>) = 0
    BY EmptySeq
  <2>2. Len(A) # Len(<<>>)
    BY <2>1
  <2>3. A # <<>>
    BY <2>2, Zenon
  <2> QED
    BY <1>0, <2>3, Zenon
<1>2. T \in Seq(X) /\ Len(T) = Len(A) - 1
  BY <1>1, HeadTailProperties
<1> HIDE DEF T
<1>3. Len(T) = 0
  BY <1>2
<1>4. T = <<>>
  BY <1>2, <1>3, EmptySeq
<1> QED
  BY <1>4 DEF T

(* The event in a thread's hand leaves it.                                 *)
LEMMA DeliverFlow ==
  ASSUME NEW s, Whole(s), NEW t \in Thread, s.hand[t] # <<>>
  PROVE  Flow([s EXCEPT !.hand[t] = <<>>]) /\ Handed([s EXCEPT !.hand[t] = <<>>], s.hand[t][1])
<1> DEFINE u == [s EXCEPT !.hand[t] = <<>>]
           m == <<"hand", t>>
<1>1. s \in ProcType /\ Flow(s) /\ s.hand[t] \in Seq(ToEvent)
  BY DEF Whole, Good, ProcType
<1>2. /\ u.hand[t] = <<>> /\ \A x \in Thread \ {t} : u.hand[x] = s.hand[x]
      /\ u.pend = s.pend /\ u.events = s.events /\ u.eventsto = s.eventsto
      /\ u.sess = s.sess /\ u.abort = s.abort
  BY <1>1 DEF ProcType
<1> HIDE DEF u
<1>3. m \in At /\ QueueAt(s, m) = s.hand[t] /\ QueueAt(u, m) = <<>>
  BY <1>2 DEF At, QueueAt
<1>4. \A k \in At \ {m} : QueueAt(u, k) = QueueAt(s, k)
  BY <1>2 DEF At, QueueAt
<1>5. Hands(s) => Hands(u)
  BY <1>2 DEF Hands
<1> HIDE DEF m
<1>6. CASE s.abort = "no"
  <2>1. Len(s.hand[t]) = 1
    <3>1. DOMAIN s.hand[t] \subseteq {1}
      BY <1>1, <1>6 DEF Flow, Hands
    <3>2. Len(s.hand[t]) \in Nat /\ DOMAIN s.hand[t] = 1 .. Len(s.hand[t]) /\ Len(s.hand[t]) # 0
      BY <1>1
    <3>3. Len(s.hand[t]) \in DOMAIN s.hand[t]
      BY <3>2
    <3> QED
      BY <3>1, <3>3
  <2>2. Tail(s.hand[t]) = <<>>
    BY <1>1, <2>1, TailOfOne
  <2>3. Flow(u) /\ Handed(u, QueueAt(s, m)[1])
    BY <1>1, <1>2, <1>3, <1>4, <1>5, <2>2, FlowTail
  <2> QED
    BY <2>3, <1>3 DEF u
<1>7. CASE s.abort # "no"
  <2>1. Flow(u) /\ Handed(u, s.hand[t][1])
    BY <1>2, <1>7 DEF Flow, Handed
  <2> QED
    BY <2>1 DEF u
<1> QED
  BY <1>6, <1>7

(* Taking the next event for another context keeps the invariant.          *)
LEMMA TakeWhole ==
  ASSUME Whole(p), NEW t \in Thread, Take(t)
  PROVE  Whole(p')
<1> DEFINE A == <<Head(p.pend[t])>>
           B == Tail(p.pend[t])
<1>1. p.pend[t] \in Seq(ToEvent) /\ p.pend[t] # <<>> /\ AllFit(p)
      /\ p.hand[t] = <<>>
  BY DEF Whole, Good, ProcType, Take, CanTake
<1>2. p' = [p EXCEPT !.hand[t] = A, !.pend[t] = B]
  BY DEF Take
<1>3. A \in Seq(ToEvent) /\ \A i \in DOMAIN A : A[i] = p.pend[t][1]
  BY <1>1, SeqTail, One
<1>4. B \in Seq(ToEvent) /\ \A i \in DOMAIN B : i + 1 \in DOMAIN p.pend[t] /\ B[i] = p.pend[t][i + 1]
  BY <1>1, SeqTail
<1>5. 1 \in DOMAIN p.pend[t]
  BY <1>1, SeqTail
<1> HIDE DEF A, B
<1>7. Flow([p EXCEPT !.hand[t] = A, !.pend[t] = B])
  BY <1>1, TakeFlow DEF A, B
<1>6. (\A i \in DOMAIN A : Fits(p, A[i])) /\ (\A i \in DOMAIN B : Fits(p, B[i]))
  BY <1>1, <1>3, <1>4, <1>5 DEF AllFit
<1> QED
  BY <1>2, <1>3, <1>4, <1>6, <1>7, MailWhole

(* The receiver of an event is in the context of some socket.              *)
LEMMA SocketOfEvent ==
  ASSUME NEW s, s \in ProcType, NEW v \in ToEvent
  PROVE  SocketOf(s, v.to) \in Socket \cup {0}
<1>1. CASE v.to \in Session
  BY <1>1, SocketOfSession
<1>2. CASE v.to \in BaseName
  <2>1. PICK e \in Endpoint : v.to = <<"base", e>>
    BY <1>2 DEF BaseName
  <2>2. s.ep[e] \in EpType
    BY DEF ProcType
  <2> QED
    BY <2>1, <2>2 DEF SocketOf, EpType
<1> QED
  BY <1>1, <1>2 DEF ToEvent, SessEvent, FurtherEvent, EventOf

(* The event that a thread hands over, and the process without it.         *)
LEMMA HandedOver ==
  ASSUME Whole(p), NEW t \in Thread, Deliver(t)
  PROVE  LET v == p.hand[t][1]
             u == [p EXCEPT !.hand[t] = <<>>] IN
         /\ v \in ToEvent /\ Fits(u, v) /\ Handed(u, v) /\ Whole(u)
         /\ u.abort = "no" /\ u.events = p.events /\ u.sess = p.sess /\ u.sock = p.sock
         /\ u.ep = p.ep /\ p.abort = "no" /\ SocketOf(p, v.to) \in Socket \cup {0}
<1> DEFINE v == p.hand[t][1]
           u == [p EXCEPT !.hand[t] = <<>>]
<1>1. p.hand[t] \in Seq(ToEvent) /\ p.hand[t] # <<>> /\ AllFit(p) /\ p \in ProcType
      /\ p.pend[t] \in Seq(ToEvent) /\ p.abort = "no"
  BY DEF Whole, Good, ProcType, Deliver, CanDeliver
<1>2. v \in ToEvent /\ Fits(p, v)
  BY <1>1, SeqTail DEF AllFit
<1>3. SocketOf(p, v.to) \in Socket \cup {0}
  BY <1>1, <1>2, SocketOfEvent
<1>4. Flow(u) /\ Handed(u, v)
  BY <1>1, DeliverFlow
<1>5. Whole(u)
  <2>1. <<>> \in Seq(ToEvent) /\ \A i \in DOMAIN p.pend[t] : Fits(p, p.pend[t][i])
    BY <1>1 DEF AllFit
  <2> DEFINE A == <<>>
             B == p.pend[t]
  <2>2. A \in Seq(ToEvent) /\ B \in Seq(ToEvent) /\ \A i \in DOMAIN A : Fits(p, A[i])
    BY <1>1
  <2> HIDE DEF A, B
  <2>4. [p EXCEPT !.hand[t] = A, !.pend[t] = B] = u
    BY <1>1 DEF A, B, ProcType
  <2>5. Flow([p EXCEPT !.hand[t] = A, !.pend[t] = B])
    BY <1>4, <2>4
  <2>3. Whole([p EXCEPT !.hand[t] = A, !.pend[t] = B])
    BY <2>1, <2>2, <2>5, MailWhole DEF B
  <2> QED
    BY <2>3, <2>4
<1>6. /\ u.abort = "no" /\ u.events = p.events /\ u.sess = p.sess /\ u.sock = p.sock
      /\ u.ep = p.ep
  BY <1>1 DEF ProcType
<1> HIDE DEF u, v
<1>7. Fits(u, v)
  BY <1>2, <1>6 DEF Fits
<1> QED
  BY <1>1, <1>2, <1>3, <1>4, <1>5, <1>6, <1>7 DEF u, v

(* nn_ctx_leave's delivery of an event in its receiver's context keeps the *)
(* invariant.                                                              *)
LEMMA DeliverWhole ==
  ASSUME Whole(p), NEW t \in Thread, Deliver(t)
  PROVE  Whole(p')
<1> DEFINE v == p.hand[t][1]
           u == [p EXCEPT !.hand[t] = <<>>]
           o == SocketOf(p, v.to)
           w == Handle(u, v)
<1>1. v \in ToEvent /\ Fits(u, v) /\ Handed(u, v) /\ Whole(u) /\ o \in Socket \cup {0}
  BY HandedOver
<1>2. p' = IF Lost(v) THEN Abort(p, "event_to_freed") ELSE nn_ctx_leave(w, t, o)
  BY DEF Deliver
<1> HIDE DEF u, v, o
<1>3. Step(u, w)
  BY <1>1, HandleStep DEF Whole
<1> HIDE DEF w
<1>4. Whole(nn_ctx_leave(w, t, o))
  BY <1>1, <1>3, WholeKept, LeaveWhole
<1>5. Whole(Abort(p, "event_to_freed"))
  BY AbortWhole DEF Why
<1> QED
  BY <1>2, <1>4, <1>5

(* The start of a call keeps the invariant.                                *)
LEMMA BeginWhole ==
  ASSUME Whole(p), NEW t \in Thread, NEW i \in SlotNumber, NEW call \in Calls \ {"term"},
         NEW at \in {"glock", "enter"}, NEW wait \in BOOLEAN,
         call \in {"bind", "connect", "close"} <=> at = "glock", Begin(t, i, call, at, wait)
  PROVE  Whole(p')
<1>1. PICK o \in IF at = "glock" THEN {0} ELSE {0, p.table[i]} :
        p' = [p EXCEPT !.th[t] = [call |-> call, at |-> at, slot |-> i, o |-> o, wait |-> wait],
                       !.overlap = @ \/ Overlaps(t, call)]
  BY DEF Begin
<1> DEFINE c == [call |-> call, at |-> at, slot |-> i, o |-> o, wait |-> wait]
           u == [p EXCEPT !.th[t] = c]
           x == WithCall(p, t, c, p.glock)
           a == p.overlap \/ Overlaps(t, call)
<1>2. p.table[i] # 0 /\ p.table[i] \in Socket \cup {0} /\ i \in Nat
  <2>1. p.table[i] # 0
    BY DEF Begin
  <2>2. p.table \in [SlotNumber -> Socket \cup {0}]
    BY DEF Whole, Good, ProcType
  <2> QED
    BY <2>1, <2>2, GlobalBounds DEF SlotNumber
<1>3. c \in CallType
  <2>1. o \in Socket \cup {0}
    BY <1>2
  <2> QED
    BY <1>2, <2>1 DEF CallType
<1>4. CallFits(x, t)
  <2>1. x.th[t] = c /\ x.sock = p.sock
    BY <1>3, CallOf, WithCallParts
  <2>2. o # 0 => p.sock[o].st # "NONE"
    BY <1>2 DEF Whole, TableFits
  <2>3. c.call # "none" /\ c.call # "term"
    BY DEF Calls
  <2> HIDE DEF x
  <2> QED
    BY <2>1, <2>2, <2>3 DEF CallFits, Calls
<1>5. Whole(u)
  BY <1>3, <1>4, MoveWhole
<1>6. p' = [u EXCEPT !.overlap = a, !.term = u.term] /\ a \in BOOLEAN /\ u.term \in BOOLEAN
  <2>1. p \in ProcType
    BY CallOf
  <2>2. p' = [p EXCEPT !.th[t] = c, !.overlap = a]
    BY <1>1
  <2>3. a \in BOOLEAN
    BY <2>1 DEF ProcType, Overlaps
  <2> HIDE DEF a, c
  <2>4. u.term \in BOOLEAN /\ p' = [u EXCEPT !.overlap = a, !.term = u.term]
    BY <2>1, <2>2 DEF ProcType
  <2> QED
    BY <2>3, <2>4
<1> HIDE DEF a, u
<1> QED
  BY <1>5, <1>6, MarkWhole

(* The start of nn_term keeps the invariant.                               *)
LEMMA TermWhole ==
  ASSUME Whole(p), NEW t \in Thread, nn_term(t)
  PROVE  Whole(p')
<1> DEFINE c == [NoCall EXCEPT !.call = "term", !.at = "glock"]
           u == [p EXCEPT !.th[t] = c]
           x == WithCall(p, t, c, p.glock)
           a == p.overlap \/ Overlaps(t, "term")
<1>3. c \in CallType /\ c.call = "term" /\ c.at = "glock" /\ c.o = 0
  BY DEF CallType, NoCall, Calls
<1>1. p' = [p EXCEPT !.th[t] = c, !.overlap = a]
  BY DEF nn_term
<1> HIDE DEF c
<1>4. CallFits(x, t)
  <2>1. x.th[t] = c /\ x.sock = p.sock
    BY <1>3, CallOf, WithCallParts
  <2> HIDE DEF x
  <2> QED
    BY <2>1, <1>3 DEF CallFits
<1>5. Whole(u)
  BY <1>3, <1>4, MoveWhole
<1>6. p' = [u EXCEPT !.overlap = a, !.term = u.term] /\ a \in BOOLEAN /\ u.term \in BOOLEAN
  <2>1. p \in ProcType
    BY CallOf
  <2>3. a \in BOOLEAN
    BY <2>1 DEF ProcType, Overlaps
  <2> HIDE DEF a
  <2>4. u.term \in BOOLEAN /\ p' = [u EXCEPT !.overlap = a, !.term = u.term]
    BY <2>1, <1>1 DEF ProcType
  <2> QED
    BY <2>3, <2>4
<1> HIDE DEF a, u
<1> QED
  BY <1>5, <1>6, MarkWhole

-----------------------------------------------------------------------------
(* A call in the context of its socket (global.c, sock.c)                  *)

(* What nn_global_hold_socket finds is a socket that exists.               *)
LEMMA TargetOf ==
  ASSUME Whole(p), NEW t \in Thread, CanEnter(t)
  PROVE  /\ Target(t) \in Socket \cup {0} /\ (Target(t) # 0 => p.sock[Target(t)].st # "NONE")
         /\ p.abort = "no" /\ p.th[t].at \in {"enter", "again"} /\ p.th[t].at # "none"
         /\ Delivered(t) /\ p.th[t].call \notin {"none", "term"} /\ p.th[t].slot \in SlotNumber
<1>1. p.th[t] \in CallType /\ CallFits(p, t)
  BY CallOf
<1>2. p.abort = "no" /\ p.th[t].at \in {"enter", "again"} /\ Delivered(t)
  BY DEF CanEnter
<1>3. p.th[t].call \notin {"none", "term"} /\ p.th[t].slot \in SlotNumber
  BY <1>1, <1>2 DEF CallFits
<1>4. p.table[p.th[t].slot] \in Socket \cup {0}
  BY <1>3 DEF Whole, Good, ProcType
<1>5. p.table[p.th[t].slot] # 0 => p.sock[p.table[p.th[t].slot]].st # "NONE"
  BY <1>3 DEF Whole, TableFits
<1>6. p.th[t].o \in Socket \cup {0} /\ (p.th[t].o # 0 => p.sock[p.th[t].o].st # "NONE")
  BY <1>1 DEF CallType, CallFits
<1> QED
  BY <1>2, <1>3, <1>4, <1>5, <1>6 DEF Target

(* A call that finds its socket open finds it in use.                      *)
LEMMA OpenTarget ==
  ASSUME Whole(p), NEW t \in Thread, CanEnter(t), ~Closed(t)
  PROVE  Target(t) \in Socket /\ Target(t) # 0 /\ InUse(p.sock[Target(t)])
<1>1. Target(t) \in Socket /\ p.sock[Target(t)].st # "FREED"
  BY DEF Closed
<1>2. Target(t) # 0
  BY <1>1, InprocBounds DEF Socket
<1> QED
  BY <1>1, <1>2, TargetOf DEF InUse

(* A call that finds no socket, or a stopped one, returns EBADF or ETERM.  *)
LEMMA EnterClosedWhole ==
  ASSUME Whole(p), NEW t \in Thread, EnterClosed(t)
  PROVE  Whole(p')
<1> DEFINE why == IF Target(t) = 0 THEN "closed_under_call" ELSE "uses_freed_socket"
<1>1. p' = Abort(p, why)
  BY DEF EnterClosed
<1>2. why \in Why \ {"no"}
  BY DEF Why
<1> HIDE DEF why
<1> QED
  BY <1>1, <1>2, AbortWhole

(* Taking self.lock keeps the invariant.                                   *)
LEMMA LockGlobalWhole ==
  ASSUME Whole(p), NEW t \in Thread, LockGlobal(t)
  PROVE  Whole(p')
<1>1. p.th[t] \in CallType /\ CallFits(p, t) /\ p.th[t].at = "glock" /\ p.glock = NoThread
      /\ p \in ProcType
  BY CallOf DEF LockGlobal, CanLockGlobal, Running
<1>2. CASE p.th[t].call # "term"
  <2> DEFINE c == [p.th[t] EXCEPT !.at = "enter"]
             u == WithCall(p, t, c, t)
  <2>1. c \in CallType /\ c.at = "enter" /\ c.call = p.th[t].call /\ c.o = p.th[t].o
        /\ c.slot = p.th[t].slot
    BY <1>1 DEF CallType
  <2>2. p' = u
    <3>1. p' = [WithThread(p, t, "enter") EXCEPT !.glock = t]
      BY <1>2 DEF LockGlobal
    <3> QED
      BY <3>1 DEF WithThread, WithCall
  <2> HIDE DEF c
  <2>3. u.th[t] = c /\ u.glock = t /\ u.table = p.table /\ u.sock = p.sock
    BY <2>1, WithCallParts
  <2>4. CallFits(u, t)
    <3> HIDE DEF u
    <3> QED
      BY <1>1, <1>2, <2>1, <2>3 DEF CallFits
  <2> QED
    BY <1>1, <2>1, <2>2, <2>4, ThWhole
<1>3. CASE p.th[t].call = "term"
  <2> DEFINE c == [p.th[t] EXCEPT !.at = "zombify", !.slot = 1]
             u == WithCall(p, t, c, t)
  <2>1. c \in CallType /\ c.at = "zombify" /\ c.call = "term" /\ c.o = p.th[t].o
    BY <1>1, <1>3 DEF CallType
  <2>2. p' = [p EXCEPT !.glock = t, !.term = TRUE, !.th[t] = c]
    BY <1>3 DEF LockGlobal
  <2> HIDE DEF c
  <2>3. u.th[t] = c /\ u.glock = t /\ u.table = p.table /\ u.sock = p.sock
    BY <2>1, WithCallParts
  <2>4. CallFits(u, t)
    <3> HIDE DEF u
    <3> QED
      BY <1>1, <2>1, <2>3 DEF CallFits
  <2>5. Whole(u)
    BY <1>1, <2>1, <2>4, ThWhole
  <2>6. p' = [u EXCEPT !.overlap = u.overlap, !.term = TRUE] /\ u.overlap \in BOOLEAN
    BY <1>1, <2>2 DEF WithCall, ProcType
  <2> HIDE DEF u
  <2> QED
    BY <2>5, <2>6, MarkWhole
<1> QED
  BY <1>2, <1>3

(* nn_term's loop over the sockets keeps the invariant.                    *)
LEMMA ZombifyWhole ==
  ASSUME Whole(p), NEW t \in Thread, Zombify(t)
  PROVE  Whole(p')
<1>1. p.th[t] \in CallType /\ CallFits(p, t) /\ p.th[t].at = "zombify" /\ p \in ProcType
  BY CallOf DEF Zombify, CanZombify, Running
<1>2. CASE Left(t) = {}
  <2>1. p' = Settled(WithThread(p, t, "return"), t)
    BY <1>2 DEF Zombify
  <2> QED
    BY <1>1, <2>1, ReturnWhole, SettledWhole
<1>3. CASE Left(t) # {}
  <2> DEFINE i == FirstIn(Left(t))
             o == p.table[i]
             c == [p.th[t] EXCEPT !.slot = i + 1]
             u == [p EXCEPT !.th[t] = c]
             x == WithCall(p, t, c, p.glock)
  <2>1. Left(t) \subseteq Nat
    BY GlobalBounds DEF Left, SlotNumber
  <2>2. i \in Left(t)
    BY <1>3, <2>1, FirstInIn
  <2>3. i \in SlotNumber /\ p.table[i] # 0
    BY <2>2 DEF Left
  <2>4. p' = nn_ctx_leave(nn_sock_zombify(u, o), t, o)
    BY <1>3 DEF Zombify
  <2> HIDE DEF i
  <2>5. o \in Socket /\ i \in Nat
    <3>1. p.table \in [SlotNumber -> Socket \cup {0}]
      BY <1>1 DEF ProcType
    <3>2. i \in Nat
      BY <2>3, GlobalBounds DEF SlotNumber
    <3> QED
      BY <2>3, <3>1, <3>2
  <2>6. c \in CallType /\ c.at = "zombify" /\ c.call = p.th[t].call /\ c.o = p.th[t].o
    BY <1>1, <2>5 DEF CallType
  <2> HIDE DEF c
  <2>7. x.th[t] = c /\ x.sock = p.sock
    BY <2>6, CallOf, WithCallParts
  <2>8. CallFits(x, t)
    <3> HIDE DEF x
    <3> QED
      BY <1>1, <2>6, <2>7 DEF CallFits
  <2>9. Whole(u)
    BY <2>6, <2>8, MoveWhole
  <2> HIDE DEF u, o
  <2>10. Whole(nn_sock_zombify(u, o))
    BY <2>5, <2>9, SockZombifyStep, WholeKept DEF Whole
  <2> QED
    BY <2>4, <2>5, <2>10, LeaveWhole
<1> QED
  BY <1>2, <1>3

(* nn_efd_wait's end keeps the invariant.                                  *)
LEMMA PollReadyWhole ==
  ASSUME Whole(p), NEW t \in Thread, PollReady(t)
  PROVE  Whole(p')
<1> DEFINE c == [p.th[t] EXCEPT !.at = "again"]
           x == WithCall(p, t, c, p.glock)
<1>1. p.th[t] \in CallType /\ CallFits(p, t) /\ p.th[t].at = "poll"
  BY CallOf DEF PollReady, CanPoll, Running
<1>2. /\ c \in CallType /\ c.at = "again" /\ c.call = p.th[t].call /\ c.o = p.th[t].o
      /\ c.slot = p.th[t].slot
  BY <1>1 DEF CallType
<1>3. p' = [p EXCEPT !.th[t] = c]
  BY DEF PollReady, WithThread
<1> HIDE DEF c
<1>4. x.th[t] = c /\ x.sock = p.sock
  BY <1>2, CallOf, WithCallParts
<1>5. CallFits(x, t)
  <2> HIDE DEF x
  <2> QED
    BY <1>1, <1>2, <1>4 DEF CallFits
<1> QED
  BY <1>2, <1>3, <1>5, MoveWhole

(* A wait that fails keeps the invariant.                                  *)
LEMMA InterruptedWhole ==
  ASSUME Whole(p), NEW t \in Thread, Interrupted(t)
  PROVE  Whole(p')
<1>1. p.th[t].at # "none" /\ p' = Settled(WithThread(p, t, "return"), t)
  BY DEF Interrupted, PollInterrupted, SemInterrupted, Running
<1> QED
  BY <1>1, ReturnWhole, SettledWhole

(* A call that makes a step and returns keeps the invariant.               *)
LEMMA StepReturned ==
  ASSUME NEW s, Whole(s), NEW u, Step(s, u), NEW t \in Thread, s.th[t].at # "none",
         NEW o \in Socket \cup {0}
  PROVE  Whole(Returned(u, t, o))
<1>1. Whole(u) /\ u.th = s.th
  BY WholeKept DEF Step, Kept
<1> QED
  BY <1>1, ReturnedWhole

(* nn_global_create_ep (nn_bind and nn_connect) keeps the invariant.       *)
LEMMA CreateEpWhole ==
  ASSUME Whole(p), NEW t \in Thread, nn_global_create_ep(t)
  PROVE  Whole(p')
<1> DEFINE o == Target(t)
           e == FirstIn(NewEndpoints)
           kind == p.th[t].call
<1>1. CanEnter(t) /\ ~Closed(t) /\ kind \in {"bind", "connect"} /\ NewEndpoints # {}
      /\ p' = Returned(nn_sock_add_ep(p, o, e, kind), t, o)
  BY DEF nn_global_create_ep, Enters
<1>2. o \in Socket /\ o # 0 /\ InUse(p.sock[o]) /\ p.th[t].at # "none"
  BY <1>1, OpenTarget, TargetOf
<1>3. e \in Endpoint /\ p.ep[e].st = "NONE"
  <2>1. NewEndpoints \subseteq Nat
    BY InprocBounds DEF NewEndpoints, Endpoint
  <2>2. e \in NewEndpoints
    BY <1>1, <2>1, FirstInIn
  <2> QED
    BY <2>2 DEF NewEndpoints
<1> HIDE DEF o, e, kind
<1>4. Step(p, nn_sock_add_ep(p, o, e, kind))
  BY <1>1, <1>2, <1>3, SockAddEpStep DEF Whole
<1> QED
  BY <1>1, <1>2, <1>4, StepReturned DEF kind

(* nn_shutdown, by nn_sock_rm_ep, keeps the invariant.                     *)
LEMMA RmEpWhole ==
  ASSUME Whole(p), NEW t \in Thread, nn_sock_rm_ep(t)
  PROVE  Whole(p')
<1> DEFINE o == Target(t)
<1>1. CanEnter(t) /\ ~Closed(t)
  BY DEF nn_sock_rm_ep, Enters
<1>2. o \in Socket /\ o # 0 /\ InUse(p.sock[o]) /\ p.th[t].at # "none"
  BY <1>1, OpenTarget, TargetOf
<1>3. CASE p' = Returned(p, t, o)
  BY <1>2, <1>3, ReturnedWhole
<1>4. ASSUME NEW e \in p.sock[o].eps,
             p' = Returned(nn_ep_stop([p EXCEPT !.sock[o].eps = @ \ {e},
                                                !.sock[o].sdeps = @ \cup {e}], e), t, o)
      PROVE  Whole(p')
  <2> HIDE DEF o
  <2> DEFINE k == [p.sock[o] EXCEPT !.eps = @ \ {e}, !.sdeps = @ \cup {e}]
             u == [p EXCEPT !.sock[o] = k]
  <2>1. p.sock[o] \in SockType /\ p \in ProcType /\ Good(p)
    BY <1>2 DEF Whole, Good, ProcType
  <2>2. e \in Endpoint
    BY <2>1 DEF SockType
  <2>3. k \in SockType /\ k.st = p.sock[o].st /\ k.lock = p.sock[o].lock
        /\ k.optset = p.sock[o].optset /\ k.eps \cup k.sdeps = p.sock[o].eps \cup p.sock[o].sdeps
    BY <2>1, <2>2 DEF SockType
  <2>4. [p EXCEPT !.sock[o].eps = @ \ {e}, !.sock[o].sdeps = @ \cup {e}] = u
    BY <1>2, <2>1 DEF ProcType
  <2> HIDE DEF k
  <2>5. SameOwner(p, p.sock[o], k)
    BY <2>3, <1>2 DEF SameOwner, InUse
  <2>6. Step(p, u)
    BY <2>1, <2>3, <2>5, <1>2, SockStep
  <2> HIDE DEF u
  <2>7. Step(u, nn_ep_stop(u, e))
    BY <2>2, <2>6, EpStopStep DEF Step
  <2>8. Step(p, nn_ep_stop(u, e))
    BY <2>6, <2>7, StepTwice
  <2> QED
    BY <1>2, <1>4, <2>4, <2>8, StepReturned
<1> QED
  BY <1>3, <1>4 DEF nn_sock_rm_ep

(* nn_setsockopt up to the transport's options keeps the invariant.        *)
LEMMA SetoptWhole ==
  ASSUME Whole(p), NEW t \in Thread, nn_sock_setopt(t)
  PROVE  Whole(p')
<1> DEFINE o == Target(t)
<1>1. CanEnter(t) /\ ~Closed(t) /\ p.th[t].call = "setsockopt"
  BY DEF nn_sock_setopt, Enters
<1>2. o \in Socket /\ o # 0 /\ InUse(p.sock[o]) /\ p.th[t].at # "none" /\ p.th[t] \in CallType
      /\ CallFits(p, t)
  BY <1>1, OpenTarget, TargetOf, CallOf
<1>3. CASE p' = Returned(p, t, o)
  BY <1>2, <1>3, ReturnedWhole
<1>4. CASE p' = [p EXCEPT !.sock[o].lock = t, !.th[t] = [@ EXCEPT !.at = "transport", !.o = o]]
  <2> DEFINE k == [p.sock[o] EXCEPT !.lock = t]
             u == [p EXCEPT !.sock[o] = k]
             c == [p.th[t] EXCEPT !.at = "transport", !.o = o]
             x == WithCall(u, t, c, u.glock)
  <2> HIDE DEF o
  <2>1. p.sock[o] \in SockType /\ p \in ProcType /\ Good(p)
    BY <1>2 DEF Whole, Good, ProcType
  <2>2. k \in SockType /\ k.st = p.sock[o].st /\ k.eps = p.sock[o].eps /\ k.sdeps = p.sock[o].sdeps
    BY <2>1 DEF SockType
  <2>3. c \in CallType /\ c.at = "transport" /\ c.call = "setsockopt" /\ c.o = o
        /\ c.slot = p.th[t].slot
    BY <1>1, <1>2 DEF CallType
  <2>4. p' = [u EXCEPT !.th[t] = c]
    BY <1>4, <2>1 DEF ProcType
  <2> HIDE DEF k, c
  <2>5. SameOwner(p, p.sock[o], k)
    BY <1>2, <2>1, <2>2, SameOwnerKept DEF InUse
  <2>6. Whole(u) /\ u.sock[o] = k /\ u.th = p.th
    BY <1>2, <2>2, <2>5, SockWhole
  <2> HIDE DEF u
  <2>7. x.th[t] = c /\ x.sock = u.sock /\ u.glock \in Thread \cup {NoThread}
    BY <2>3, <2>6, CallOf, WithCallParts
  <2>8. CallFits(x, t)
    <3> HIDE DEF x
    <3> QED
      BY <1>1, <1>2, <2>2, <2>3, <2>6, <2>7 DEF CallFits, InUse, Calls
  <2> QED
    BY <2>3, <2>4, <2>6, <2>8, MoveWhole
<1> QED
  BY <1>3, <1>4 DEF nn_sock_setopt

(* nn_sock_optset, which makes the transport's options, keeps the          *)
(* invariant.                                                              *)
LEMMA OptsetWhole ==
  ASSUME Whole(p), NEW t \in Thread, nn_sock_optset(t)
  PROVE  Whole(p')
<1> DEFINE o == p.th[t].o
           k == [p.sock[o] EXCEPT !.optset = TRUE, !.lock = NoThread]
           u == [p EXCEPT !.sock[o] = k]
<1>1. p.th[t] \in CallType /\ CallFits(p, t) /\ p.th[t].at = "transport"
      /\ p \in ProcType /\ Good(p)
  BY CallOf DEF nn_sock_optset, CanLockGlobal, Running
<1>2. o \in Socket
  BY <1>1 DEF CallFits, CallType
<1>3. p' = Returned([p EXCEPT !.sock[o].optset = TRUE, !.sock[o].lock = NoThread], t, o)
  BY DEF nn_sock_optset
<1> HIDE DEF o
<1>4. p.sock[o] \in SockType
  BY <1>1, <1>2 DEF ProcType
<1>5. k \in SockType /\ k.st = p.sock[o].st /\ k.eps = p.sock[o].eps /\ k.sdeps = p.sock[o].sdeps
  BY <1>4 DEF SockType
<1>6. [p EXCEPT !.sock[o].optset = TRUE, !.sock[o].lock = NoThread] = u
  BY <1>1, <1>2 DEF ProcType
<1> HIDE DEF k
<1>7. SameOwner(p, p.sock[o], k)
  BY <1>1, <1>2, <1>5, SameOwnerKept DEF InUse
<1>8. Whole(u) /\ u.th = p.th
  BY <1>2, <1>5, <1>7, SockWhole
<1> HIDE DEF u
<1> QED
  BY <1>1, <1>2, <1>3, <1>6, <1>8, ReturnedWhole

(* nn_close up to its wait for termsem keeps the invariant.                *)
LEMMA SockTermWhole ==
  ASSUME Whole(p), NEW t \in Thread, nn_sock_term(t)
  PROVE  Whole(p')
<1> DEFINE o == Target(t)
           c == [p.th[t] EXCEPT !.at = "sem", !.o = o]
           u == [p EXCEPT !.th[t] = c]
           x == WithCall(p, t, c, p.glock)
<1>1. CanEnter(t) /\ ~Closed(t) /\ p.th[t].call = "close"
      /\ p' = nn_ctx_leave(nn_sock_stop(u, o), t, o)
  BY DEF nn_sock_term, Enters
<1>2. o \in Socket /\ o # 0 /\ InUse(p.sock[o]) /\ p.th[t] \in CallType /\ CallFits(p, t)
      /\ p.th[t].at \in {"enter", "again"} /\ p.th[t].slot \in SlotNumber
  BY <1>1, OpenTarget, TargetOf, CallOf
<1>3. p.glock = t /\ p.th[t].o = 0 /\ o = p.table[p.th[t].slot]
  BY <1>1, <1>2 DEF CallFits, Target
<1> HIDE DEF o
<1>4. c \in CallType /\ c.at = "sem" /\ c.call = "close" /\ c.o = o /\ c.slot = p.th[t].slot
  BY <1>1, <1>2 DEF CallType
<1> HIDE DEF c
<1>5. x.th[t] = c /\ x.sock = p.sock /\ x.table = p.table /\ x.glock = p.glock
  BY <1>4, CallOf, WithCallParts
<1>6. CallFits(x, t)
  <2> HIDE DEF x
  <2> QED
    BY <1>2, <1>3, <1>4, <1>5 DEF CallFits, InUse
<1>7. Whole(u)
  BY <1>4, <1>6, MoveWhole
<1> HIDE DEF u
<1>8. Whole(nn_sock_stop(u, o))
  BY <1>2, <1>7, SockStopStep, WholeKept DEF Whole
<1> QED
  BY <1>1, <1>2, <1>8, LeaveWhole

-----------------------------------------------------------------------------
(* nn_send and nn_recv (global.c, sock.c)                                  *)

(* The checks of a socket before its use keep the invariant.               *)
LEMMA CheckedWhole ==
  ASSUME Whole(p), NEW t \in Thread, Target(t) \in Socket, InUse(p.sock[Target(t)])
  PROVE  /\ Whole(Checked(t)) /\ Checked(t).th = p.th
         /\ Checked(t).sock[Target(t)].st = p.sock[Target(t)].st
<1> DEFINE o == Target(t)
           k == [p.sock[o] EXCEPT !.flags = @ \cup {WayOf(t)}]
           u == [p EXCEPT !.sock[o] = k]
<1>1. Checked(t) \in {p, [p EXCEPT !.sock[o].flags = @ \cup {WayOf(t)}]}
  BY DEF Checked
<1>2. p.sock[o] \in SockType /\ p \in ProcType /\ Good(p)
  BY DEF Whole, Good, ProcType
<1>3. o \in Socket /\ InUse(p.sock[o])
  OBVIOUS
<1> HIDE DEF o
<1>4. k \in SockType /\ k.st = p.sock[o].st /\ k.eps = p.sock[o].eps /\ k.sdeps = p.sock[o].sdeps
  <2>1. WayOf(t) \in Way
    BY DEF WayOf, Way
  <2> QED
    BY <1>2, <2>1 DEF SockType
<1>5. [p EXCEPT !.sock[o].flags = @ \cup {WayOf(t)}] = u
  BY <1>2, <1>3 DEF ProcType
<1> HIDE DEF k
<1>6. SameOwner(p, p.sock[o], k)
  BY <1>2, <1>3, <1>4, SameOwnerKept DEF InUse
<1>7. Whole(u) /\ u.sock[o] = k /\ u.th = p.th
  BY <1>3, <1>4, <1>6, SockWhole
<1> HIDE DEF u
<1> QED
  BY <1>1, <1>4, <1>5, <1>7 DEF o

(* A nn_send or nn_recv that is done, or that waits, is where it may be.   *)
LEMMA DataCallWhole ==
  ASSUME NEW s, Whole(s), NEW t \in Thread, s.th[t].at \in {"enter", "again"},
         s.th[t].call \in {"send", "recv"},
         NEW o \in Socket, o # 0, s.sock[o].st # "NONE", NEW at \in {"sent", "poll"},
         NEW c, c = [s.th[t] EXCEPT !.at = at] \/ c = [s.th[t] EXCEPT !.at = at, !.o = o],
         at = "poll" => c = [s.th[t] EXCEPT !.at = at, !.o = o]
  PROVE  Whole([s EXCEPT !.th[t] = c])
<1> DEFINE x == WithCall(s, t, c, s.glock)
<1>1. s.th[t] \in CallType /\ CallFits(s, t)
  BY CallOf
<1>2. /\ c \in CallType /\ c.at = at /\ c.call = s.th[t].call
      /\ c.slot = s.th[t].slot /\ c.o \in {s.th[t].o, o} /\ (at = "poll" => c.o = o)
  <2>1. CASE c = [s.th[t] EXCEPT !.at = at] /\ at # "poll"
    BY <1>1, <2>1 DEF CallType
  <2>2. CASE c = [s.th[t] EXCEPT !.at = at, !.o = o]
    BY <1>1, <2>2 DEF CallType
  <2> QED
    BY <2>1, <2>2
<1>3. x.th[t] = c /\ x.sock = s.sock
  BY <1>2, CallOf, WithCallParts
<1>4. CallFits(x, t)
  <2> HIDE DEF x
  <2> QED
    BY <1>1, <1>2, <1>3 DEF CallFits
<1> QED
  BY <1>2, <1>4, MoveWhole

(* A nn_send or nn_recv that finds its pipe busy waits or returns EAGAIN.  *)
LEMMA TryAgainWhole ==
  ASSUME NEW s, Whole(s), NEW t \in Thread, s.th[t].at \in {"enter", "again"},
         s.th[t].call \in {"send", "recv"},
         NEW o \in Socket, o # 0, s.sock[o].st # "NONE"
  PROVE  Whole(TryAgain(s, t, o))
<1> DEFINE c == [s.th[t] EXCEPT !.at = "poll", !.o = o]
           u == [s EXCEPT !.th[t] = c]
<1>1. Whole(u)
  BY DataCallWhole
<1>2. TryAgain(s, t, o) \in {nn_ctx_leave(u, t, o), Returned(s, t, o)}
  BY DEF TryAgain
<1> HIDE DEF u
<1> QED
  BY <1>1, <1>2, LeaveWhole, ReturnedWhole

(* nn_sock_send keeps the invariant.                                       *)
LEMMA SendWhole ==
  ASSUME Whole(p), NEW t \in Thread, nn_sock_send(t)
  PROVE  Whole(p')
<1> DEFINE o == Target(t)
           s == Checked(t)
           u == WithThread(s, t, "sent")
           w == nn_excl_send(u, o)
<1>1. CanEnter(t) /\ ~Closed(t) /\ p.th[t].call = "send"
  BY DEF nn_sock_send, Enters
<1>2. o \in Socket /\ o # 0 /\ InUse(p.sock[o]) /\ p.th[t].at \in {"enter", "again"}
  BY <1>1, OpenTarget, TargetOf
<1>3. Whole(s) /\ s.th = p.th /\ s.sock[o].st = p.sock[o].st
  BY <1>2, CheckedWhole
<1>4. \/ p' = Returned(s, t, o) \/ p' = Abort(s, "uses_closed_protocol")
      \/ p' = TryAgain(s, t, o)
      \/ s.sock[o].excl.outpipe # None /\ p' = nn_ctx_leave(w, t, o)
  <2> HIDE DEF o, s, w
  <2> QED
    BY DEF nn_sock_send, o, s, u, w
<1> HIDE DEF o, s
<1>5. Whole(u) /\ u.sock = s.sock
  <2> DEFINE c == [s.th[t] EXCEPT !.at = "sent"]
  <2>1. u = [s EXCEPT !.th[t] = c]
    BY DEF WithThread
  <2>2. Whole([s EXCEPT !.th[t] = c])
    BY <1>1, <1>2, <1>3, DataCallWhole DEF InUse
  <2>3. u.sock = s.sock
    BY <1>3, CallOf DEF ProcType, WithThread
  <2> QED
    BY <2>1, <2>2, <2>3
<1> HIDE DEF u
<1>6. CASE p' = Returned(s, t, o)
  BY <1>2, <1>3, <1>6, ReturnedWhole
<1>7. CASE p' = Abort(s, "uses_closed_protocol")
  BY <1>3, <1>7, AbortWhole DEF Why
<1>8. CASE p' = TryAgain(s, t, o)
  BY <1>1, <1>2, <1>3, <1>8, TryAgainWhole DEF InUse
<1>9. CASE s.sock[o].excl.outpipe # None /\ p' = nn_ctx_leave(w, t, o)
  <2>1. Step(u, w)
    BY <1>2, <1>5, <1>9, ExclSendStep DEF Whole
  <2>2. Whole(w)
    BY <1>5, <2>1, WholeKept
  <2> HIDE DEF w
  <2> QED
    BY <1>2, <1>9, <2>2, LeaveWhole
<1> QED
  BY <1>4, <1>6, <1>7, <1>8, <1>9

(* nn_sock_recv keeps the invariant.                                       *)
LEMMA RecvWhole ==
  ASSUME Whole(p), NEW t \in Thread, nn_sock_recv(t)
  PROVE  Whole(p')
<1> DEFINE o == Target(t)
           s == Checked(t)
           w == nn_excl_recv(s, o)
<1>1. CanEnter(t) /\ ~Closed(t) /\ p.th[t].call = "recv"
  BY DEF nn_sock_recv, Enters
<1>2. o \in Socket /\ o # 0 /\ InUse(p.sock[o]) /\ p.th[t].at \in {"enter", "again"}
  BY <1>1, OpenTarget, TargetOf
<1>3. Whole(s) /\ s.th = p.th /\ s.sock[o].st = p.sock[o].st
  BY <1>2, CheckedWhole
<1>4. \/ p' = Returned(s, t, o) \/ p' = Abort(s, "uses_closed_protocol")
      \/ p' = TryAgain(s, t, o)
      \/ s.sock[o].excl.inpipe # None /\ p' = Returned(w, t, o)
  <2> HIDE DEF o, s, w
  <2> QED
    BY DEF nn_sock_recv, o, s, w
<1> HIDE DEF o, s
<1>6. CASE p' = Returned(s, t, o)
  BY <1>2, <1>3, <1>6, ReturnedWhole
<1>7. CASE p' = Abort(s, "uses_closed_protocol")
  BY <1>3, <1>7, AbortWhole DEF Why
<1>8. CASE p' = TryAgain(s, t, o)
  BY <1>1, <1>2, <1>3, <1>8, TryAgainWhole DEF InUse
<1>9. CASE s.sock[o].excl.inpipe # None /\ p' = Returned(w, t, o)
  <2>1. Step(s, w)
    BY <1>2, <1>3, <1>9, ExclRecvStep DEF Whole
  <2> HIDE DEF w
  <2> QED
    BY <1>2, <1>3, <1>9, <2>1, StepReturned
<1> QED
  BY <1>4, <1>6, <1>7, <1>8, <1>9

-----------------------------------------------------------------------------
(* nn_socket and the table of sockets (global.c)                           *)

(* The table of sockets changes.                                           *)
WithTable(s, T, U, n) == [s EXCEPT !.table = T, !.unused = U, !.nsocks = n]

(* The slot table may change without touching the contexts.                *)
LEMMA TableGood ==
  ASSUME NEW s, Good(s), NEW T \in [SlotNumber -> Socket \cup {0}],
         NEW U \in [SlotNumber -> SlotNumber], NEW n \in 0 .. MaxSlots
  PROVE  LET u == WithTable(s, T, U, n) IN
         /\ Good(u)
         /\ u.overlap = s.overlap /\ u.glock = s.glock /\ u.term = s.term /\ u.th = s.th
         /\ u.pend = s.pend /\ u.hand = s.hand /\ u.abort = s.abort /\ u.sock = s.sock
         /\ u.table = T /\ u.unused = U /\ u.nsocks = n
<1> DEFINE a == [s EXCEPT !.table = T]
           b == [a EXCEPT !.unused = U]
           u == [b EXCEPT !.nsocks = n]
<1>1. a \in ProcType
  BY DEF Good, ProcType
<1>2. b \in ProcType
  <2> HIDE DEF a
  <2> QED
    BY <1>1 DEF ProcType
<1>3. u \in ProcType
  <2> HIDE DEF b
  <2> QED
    BY <1>2 DEF ProcType
<1>4. /\ u.overlap = s.overlap /\ u.term = s.term /\ u.table = T
      /\ u.unused = U /\ u.nsocks = n /\ u.pend = s.pend
      /\ u.hand = s.hand /\ u.ep = s.ep /\ u.sess = s.sess /\ u.sock = s.sock
      /\ u.bound = s.bound /\ u.connected = s.connected /\ u.eventsto = s.eventsto
      /\ u.abort = s.abort /\ u.th = s.th /\ u.glock = s.glock /\ u.events = s.events
  BY DEF ProcType, Good
<1>5. WithTable(s, T, U, n) = u
  BY DEF WithTable
<1> HIDE DEF u
<1>6. Peers(u) /\ Homes(u)
  BY <1>4 DEF Good, Peers, Homes
<1>7. Bases(u) /\ Addressed(u)
  BY <1>4 DEF Good, Bases, Addressed
<1>8. AllFit(u)
  <2>1. \A w : Fits(u, w) <=> Fits(s, w)
    BY <1>4 DEF Fits
  <2> QED
    BY <2>1, <1>4 DEF Good, AllFit
<1>9. FreedClean(u) /\ Life(u)
  BY <1>4, LifeSame DEF Good, FreedClean
<1>10. Flow(u)
  BY <1>4, FlowSame DEF Good, SameQueues
<1> QED
  BY <1>3, <1>4, <1>5, <1>6, <1>7, <1>8, <1>9, <1>10 DEF Good

(* nn_sock_init gives a socket without endpoints.                          *)
LEMMA NewSocketType ==
  NewSocket \in SockType /\ NewSocket.st = "ACTIVE" /\ NewSocket.eps = {} /\ NewSocket.sdeps = {}
BY NoExcl DEF NewSocket, SockType, SockState

(* The index of the last unused slot is in range while a slot is free.     *)
LEMMA Room ==
  ASSUME NEW n \in 0 .. MaxSlots, n < MaxSlots
  PROVE  /\ MaxSlots - n \in SlotNumber /\ MaxSlots - (n + 1) = (MaxSlots - n) - 1
         /\ n + 1 \in 0 .. MaxSlots /\ MaxSlots - n \in 1 .. MaxSlots
BY GlobalBounds DEF SlotNumber

(* Taking the last unused slot for a new socket keeps the table and the    *)
(* list of unused slots complementary (nn_global_create_socket).           *)
LEMMA SlotTaken ==
  ASSUME NEW s, TableFits(s), NEW u, NEW o \in Socket, o # 0,
         s.table \in [SlotNumber -> Socket \cup {0}], s.unused \in [SlotNumber -> SlotNumber],
         s.nsocks \in 0 .. MaxSlots, s.nsocks < MaxSlots, s.sock[o].st = "NONE",
         u.table = [s.table EXCEPT ![s.unused[MaxSlots - s.nsocks]] = o],
         u.unused = s.unused, u.nsocks = s.nsocks + 1,
         u.sock[o].st = "ACTIVE", \A x \in Socket \ {o} : u.sock[x] = s.sock[x]
  PROVE  TableFits(u)
<1> DEFINE m == MaxSlots - s.nsocks
           i == s.unused[m]
           T == s.table
           V == u.table
           N == s.unused
<1>1. m \in 1 .. MaxSlots /\ MaxSlots - u.nsocks = m - 1 /\ m \in SlotNumber
  BY Room
<1>2. i \in SlotNumber /\ T[i] = 0
  BY <1>1 DEF TableFits
<1>3. V[i] = o /\ \A j \in SlotNumber \ {i} : V[j] = T[j]
  BY <1>2
<1>4. \A j \in SlotNumber : T[j] # o /\ T[j] \in Socket \cup {0}
  BY DEF TableFits
<1>5. /\ \A j, l \in SlotNumber : T[j] = T[l] /\ T[j] # 0 => j = l
      /\ \A j \in SlotNumber : T[j] # 0 => s.sock[T[j]].st \notin {"NONE", "FREED"}
      /\ \A x \in Socket : s.sock[x].st \notin {"NONE", "FREED"} => \E j \in SlotNumber : T[j] = x
      /\ \A n \in 1 .. m : T[N[n]] = 0
      /\ \A n, l \in 1 .. m : N[n] = N[l] => n = l
      /\ \A j \in SlotNumber : T[j] = 0 => \E n \in 1 .. m : N[n] = j
      /\ s.nsocks = Cardinality(UsedSlots(s))
  BY DEF TableFits
<1>6. \A n \in 1 .. m : N[n] \in SlotNumber
  <2>1. \A n \in 1 .. m : n \in SlotNumber
    BY <1>1, GlobalBounds DEF SlotNumber
  <2> HIDE DEF m
  <2> QED
    BY <2>1
<1>7. UsedSlots(u) = UsedSlots(s) \cup {i} /\ i \notin UsedSlots(s)
  BY <1>2, <1>3 DEF UsedSlots
<1>8. u.nsocks = Cardinality(UsedSlots(u))
  <2>1. IsFiniteSet(SlotNumber)
    BY FS_Interval, GlobalBounds DEF SlotNumber
  <2>2. IsFiniteSet(UsedSlots(s))
    BY <2>1, FS_Subset DEF UsedSlots
  <2>3. Cardinality(UsedSlots(s) \cup {i}) = Cardinality(UsedSlots(s)) + 1
    <3> HIDE DEF i
    <3> QED
      BY <2>2, <1>7, FS_AddElement
  <2> QED
    BY <2>3, <1>5, <1>7
<1>9. m \in Nat /\ m # 0 /\ N = u.unused
  BY <1>1
<1> HIDE DEF m, i, T, V, N
<1>10. \A j, l \in SlotNumber : V[j] = V[l] /\ V[j] # 0 => j = l
  BY <1>3, <1>4, <1>5
<1>11. \A j \in SlotNumber : V[j] # 0 => u.sock[V[j]].st \notin {"NONE", "FREED"}
  BY <1>2, <1>3, <1>4, <1>5
<1>12. \A x \in Socket : u.sock[x].st \notin {"NONE", "FREED"} => \E j \in SlotNumber : V[j] = x
  <2> SUFFICES ASSUME NEW x \in Socket, u.sock[x].st \notin {"NONE", "FREED"}
               PROVE  \E j \in SlotNumber : V[j] = x
    OBVIOUS
  <2>1. CASE x = o
    BY <2>1, <1>2, <1>3
  <2>2. CASE x # o
    <3>1. PICK j \in SlotNumber : T[j] = x
      BY <2>2, <1>5
    <3>2. j # i
      BY <3>1, <1>2, InprocBounds DEF Socket
    <3> QED
      BY <3>1, <3>2, <1>3
  <2> QED
    BY <2>1, <2>2
<1>13. \A n \in 1 .. m - 1 : n \in 1 .. m /\ n # m
  BY <1>9
<1>14. m \in 1 .. m /\ N[m] = i
  BY <1>9 DEF i
<1>15. \A n \in 1 .. m - 1 : V[N[n]] = 0
  <2> SUFFICES ASSUME NEW n \in 1 .. m - 1 PROVE V[N[n]] = 0
    OBVIOUS
  <2>1. n \in 1 .. m /\ N[n] # i
    BY <1>5, <1>13, <1>14
  <2> QED
    BY <2>1, <1>3, <1>5, <1>6
<1>16. \A n, l \in 1 .. m - 1 : N[n] = N[l] => n = l
  BY <1>5, <1>13
<1>17. \A j \in SlotNumber : V[j] = 0 => \E n \in 1 .. m - 1 : N[n] = j
  <2> SUFFICES ASSUME NEW j \in SlotNumber, V[j] = 0 PROVE \E n \in 1 .. m - 1 : N[n] = j
    OBVIOUS
  <2>1. j # i /\ T[j] = 0
    BY <1>3
  <2>2. PICK n \in 1 .. m : N[n] = j
    BY <2>1, <1>5
  <2>3. n # m
    BY <2>1, <2>2, <1>14
  <2>4. n \in 1 .. m - 1
    BY <2>3, <1>9
  <2> QED
    BY <2>2, <2>4
<1> QED
  BY <1>1, <1>8, <1>9, <1>10, <1>11, <1>12, <1>15, <1>16, <1>17 DEF TableFits, V

(* nn_socket keeps the invariant.                                          *)
LEMMA SocketWhole ==
  ASSUME Whole(p), NEW t \in Thread, nn_socket(t)
  PROVE  Whole(p')
<1> DEFINE new == {o \in Socket : p.sock[o].st = "NONE"}
           o == FirstIn(new)
           i == p.unused[MaxSlots - p.nsocks]
           T == [p.table EXCEPT ![i] = o]
           s == [p EXCEPT !.sock[o] = NewSocket]
           u == WithTable(s, T, p.unused, p.nsocks + 1)
<1>1. new # {} /\ p.glock = NoThread /\ p.nsocks < MaxSlots /\ p' = nn_global_create_socket(o)
  BY DEF nn_socket
<1>2. p \in ProcType /\ Good(p) /\ TableFits(p) /\ CallsFit(p)
  BY DEF Whole, Good
<1>3. o \in Socket /\ p.sock[o].st = "NONE" /\ o # 0
  <2>1. new \subseteq Nat /\ 0 \notin Socket
    BY InprocBounds DEF Socket
  <2>2. o \in new
    BY <1>1, <2>1, FirstInIn
  <2> QED
    BY <2>1, <2>2
<1>4. p' = [p EXCEPT !.sock[o] = NewSocket, !.nsocks = @ + 1, !.table[i] = o]
  BY <1>1 DEF nn_global_create_socket
<1> HIDE DEF o
<1>5. p.table \in [SlotNumber -> Socket \cup {0}] /\ p.unused \in [SlotNumber -> SlotNumber]
      /\ p.nsocks \in 0 .. MaxSlots
  BY <1>2 DEF ProcType
<1>6. T \in [SlotNumber -> Socket \cup {0}] /\ p.nsocks + 1 \in 0 .. MaxSlots
  BY <1>1, <1>3, <1>5, Room
<1>7. SameOwner(p, p.sock[o], NewSocket)
  BY <1>2, <1>3, NewSocketType DEF Good, Life, Bare, InUse, SameOwner
<1>8. /\ Good(s)
      /\ s.glock = p.glock /\ s.table = p.table
      /\ s.unused = p.unused /\ s.nsocks = p.nsocks /\ s.th = p.th
      /\ s.sock[o] = NewSocket /\ \A x \in Socket \ {o} : s.sock[x] = p.sock[x]
  BY <1>2, <1>3, <1>7, NewSocketType, SockGood
<1>9. p' = u
  BY <1>2, <1>4 DEF WithTable, ProcType
<1> HIDE DEF s
<1>10. /\ Good(u)
       /\ u.glock = s.glock /\ u.th = s.th
       /\ u.sock = s.sock /\ u.table = T /\ u.unused = p.unused /\ u.nsocks = p.nsocks + 1
  BY <1>5, <1>6, <1>8, TableGood
<1> HIDE DEF u
<1>11. TableFits(u)
  BY <1>1, <1>2, <1>3, <1>5, <1>8, <1>10, NewSocketType, SlotTaken
<1>12. CallsFit(u)
  <2>0. p.th \in [Thread -> CallType]
    BY <1>2 DEF ProcType
  <2>1. \A x \in Thread : p.th[x].o \in Socket \cup {0} /\ p.th[x].at # "sem"
    BY <2>0, <1>1, <1>2, GlobalBounds DEF CallsFit, CallFits, CallType
  <2>2. \A x \in Socket : u.sock[x].st = "NONE" => p.sock[x].st = "NONE"
    BY <1>8, <1>10, NewSocketType
  <2>3. \A x \in Thread : CallFits(u, x)
    BY <1>2, <1>8, <1>10, <2>1, <2>2 DEF CallsFit, CallFits
  <2> QED
    BY <2>3 DEF CallsFit
<1> QED
  BY <1>9, <1>10, <1>11, <1>12 DEF Whole

-----------------------------------------------------------------------------
(* nn_close after termsem (global.c, sock.c)                               *)

(* The used slots can be counted.                                          *)
LEMMA UsedFinite ==
  ASSUME NEW s
  PROVE  IsFiniteSet(UsedSlots(s)) /\ Cardinality(UsedSlots(s)) \in Nat
<1>1. IsFiniteSet(SlotNumber)
  BY FS_Interval, GlobalBounds DEF SlotNumber
<1>2. IsFiniteSet(UsedSlots(s))
  BY <1>1, FS_Subset DEF UsedSlots
<1> QED
  BY <1>2, FS_CardinalityType

(* The index of a slot given back is in range while a slot is used.        *)
LEMMA Taken ==
  ASSUME NEW n \in 1 .. MaxSlots
  PROVE  /\ MaxSlots - n + 1 \in SlotNumber /\ MaxSlots - (n - 1) = MaxSlots - n + 1
         /\ n - 1 \in 0 .. MaxSlots /\ MaxSlots - n \in Nat
         /\ \A m \in 1 .. MaxSlots - n + 1 : m \in SlotNumber
                                             /\ (m # MaxSlots - n + 1 => m \in 1 .. MaxSlots - n)
         /\ \A m \in 1 .. MaxSlots - n : m \in 1 .. MaxSlots - n + 1 /\ m # MaxSlots - n + 1
                                         /\ m \in SlotNumber
         /\ MaxSlots - n + 1 \in 1 .. MaxSlots - n + 1
BY GlobalBounds DEF SlotNumber

(* nn_global_init's list of unused slots names every slot once.            *)
LEMMA FreshType ==
  /\ Fresh \in [SlotNumber -> SlotNumber]
  /\ \A n, m \in SlotNumber : Fresh[n] = Fresh[m] => n = m
  /\ \A i \in SlotNumber : \E n \in SlotNumber : Fresh[n] = i
<1>1. \A n \in SlotNumber : Fresh[n] = MaxSlots - n + 1 /\ MaxSlots - n + 1 \in SlotNumber
                            /\ n \in Int
  BY GlobalBounds DEF Fresh, SlotNumber
<1>2. Fresh \in [SlotNumber -> SlotNumber]
  BY <1>1 DEF Fresh
<1>3. \A n, m \in SlotNumber : Fresh[n] = Fresh[m] => n = m
  BY <1>1, GlobalBounds
<1>4. \A i \in SlotNumber : \E n \in SlotNumber : Fresh[n] = i
  <2> SUFFICES ASSUME NEW i \in SlotNumber PROVE \E n \in SlotNumber : Fresh[n] = i
    OBVIOUS
  <2> DEFINE n == MaxSlots - i + 1
  <2>1. n \in SlotNumber /\ MaxSlots - n + 1 = i
    BY GlobalBounds DEF SlotNumber
  <2> QED
    BY <1>1, <2>1
<1> QED
  BY <1>2, <1>3, <1>4

(* Giving a slot back, into the list or by the nn_global_init of the next  *)
(* nn_socket, keeps table and list complementary (nn_close's end in        *)
(* global.c).                                                              *)
LEMMA SlotFreed ==
  ASSUME NEW s, TableFits(s), NEW u, NEW i \in SlotNumber, NEW U,
         s.table \in [SlotNumber -> Socket \cup {0}], s.unused \in [SlotNumber -> SlotNumber],
         s.nsocks \in 0 .. MaxSlots, s.table[i] # 0,
         u.table = [s.table EXCEPT ![i] = 0], u.nsocks = s.nsocks - 1, u.unused = U,
         \/ U = [s.unused EXCEPT ![MaxSlots - s.nsocks + 1] = i]
         \/ U = Fresh /\ s.nsocks - 1 = 0,
         u.sock[s.table[i]].st = "FREED",
         \A x \in Socket \ {s.table[i]} : u.sock[x] = s.sock[x]
  PROVE  TableFits(u) /\ U \in [SlotNumber -> SlotNumber] /\ u.nsocks \in 0 .. MaxSlots
         /\ u.table \in [SlotNumber -> Socket \cup {0}]
<1> DEFINE T == s.table
           V == u.table
           N == s.unused
           k == s.nsocks
           o == T[i]
<1>1. /\ \A j, l \in SlotNumber : T[j] = T[l] /\ T[j] # 0 => j = l
      /\ \A j \in SlotNumber : T[j] # 0 => s.sock[T[j]].st \notin {"NONE", "FREED"}
      /\ \A x \in Socket : s.sock[x].st \notin {"NONE", "FREED"} => \E j \in SlotNumber : T[j] = x
      /\ \A n \in 1 .. MaxSlots - k : T[N[n]] = 0
      /\ \A n, l \in 1 .. MaxSlots - k : N[n] = N[l] => n = l
      /\ \A j \in SlotNumber : T[j] = 0 => \E n \in 1 .. MaxSlots - k : N[n] = j
      /\ k = Cardinality(UsedSlots(s))
  BY DEF TableFits
<1>2. V[i] = 0 /\ (\A j \in SlotNumber \ {i} : V[j] = T[j]) /\ V \in [SlotNumber -> Socket \cup {0}]
      /\ \A j \in SlotNumber : T[j] \in Socket \cup {0}
  OBVIOUS
<1>3. UsedSlots(u) = UsedSlots(s) \ {i} /\ i \in UsedSlots(s)
  BY <1>2 DEF UsedSlots
<1>4. Cardinality(UsedSlots(u)) = k - 1 /\ k # 0
  <2>1. Cardinality(UsedSlots(s) \ {i}) = Cardinality(UsedSlots(s)) - 1
    BY <1>3, UsedFinite, FS_RemoveElement
  <2>2. Cardinality(UsedSlots(s)) # 0
    BY <1>3, UsedFinite, FS_EmptySet
  <2> QED
    BY <1>1, <1>3, <2>1, <2>2
<1>5. k \in 1 .. MaxSlots
  BY <1>4, GlobalBounds
<1>6. u.nsocks = k - 1 /\ k - 1 \in 0 .. MaxSlots /\ MaxSlots - (k - 1) = MaxSlots - k + 1
  BY <1>5, Taken
<1>7. o \in Socket /\ o # 0 /\ u.sock[o].st = "FREED" /\ \A x \in Socket \ {o} : u.sock[x] = s.sock[x]
  BY <1>2
<1>8. N \in [SlotNumber -> SlotNumber] /\ V = u.table
  OBVIOUS
<1>9. \/ U = [N EXCEPT ![MaxSlots - k + 1] = i]
      \/ U = Fresh /\ k - 1 = 0
  OBVIOUS
<1>10. o = T[i]
  OBVIOUS
<1> HIDE DEF T, V, N, k, o
<1>11. \A j, l \in SlotNumber : V[j] = V[l] /\ V[j] # 0 => j = l
  BY <1>1, <1>2
<1>12. \A j \in SlotNumber : V[j] # 0 => u.sock[V[j]].st \notin {"NONE", "FREED"}
  <2> SUFFICES ASSUME NEW j \in SlotNumber, V[j] # 0 PROVE u.sock[V[j]].st \notin {"NONE", "FREED"}
    OBVIOUS
  <2>1. j # i /\ V[j] = T[j] /\ T[j] \in Socket
    BY <1>2
  <2>2. T[j] # o
    BY <2>1, <1>1, <1>7, <1>10
  <2> QED
    BY <2>1, <2>2, <1>1, <1>7
<1>13. \A x \in Socket : u.sock[x].st \notin {"NONE", "FREED"} => \E j \in SlotNumber : V[j] = x
  <2> SUFFICES ASSUME NEW x \in Socket, u.sock[x].st \notin {"NONE", "FREED"}
               PROVE  \E j \in SlotNumber : V[j] = x
    OBVIOUS
  <2>1. x # o /\ u.sock[x] = s.sock[x]
    BY <1>7
  <2>2. PICK j \in SlotNumber : T[j] = x
    BY <2>1, <1>1
  <2>3. j # i
    BY <2>1, <2>2, <1>10
  <2> QED
    BY <2>2, <2>3, <1>2
<1>14. CASE U = [N EXCEPT ![MaxSlots - k + 1] = i]
  <2> DEFINE m == MaxSlots - k
             top == MaxSlots - k + 1
  <2>1. /\ top \in SlotNumber /\ top \in 1 .. top
        /\ \A n \in 1 .. top : n \in SlotNumber /\ (n # top => n \in 1 .. m)
        /\ \A n \in 1 .. m : n \in 1 .. top /\ n # top /\ n \in SlotNumber
    BY <1>5, Taken
  <2>2. /\ \A n \in 1 .. m : T[N[n]] = 0
        /\ \A n, l \in 1 .. m : N[n] = N[l] => n = l
        /\ \A j \in SlotNumber : T[j] = 0 => \E n \in 1 .. m : N[n] = j
    BY <1>1
  <2>3. U = [N EXCEPT ![top] = i]
    BY <1>14
  <2> HIDE DEF m, top
  <2>4. U \in [SlotNumber -> SlotNumber] /\ U[top] = i /\ \A n \in 1 .. m : U[n] = N[n] /\ N[n] \in SlotNumber
    BY <1>8, <2>1, <2>3
  <2>5. \A n \in 1 .. top : V[U[n]] = 0
    <3> SUFFICES ASSUME NEW n \in 1 .. top PROVE V[U[n]] = 0
      OBVIOUS
    <3>1. CASE n = top
      BY <3>1, <2>4, <1>2
    <3>2. CASE n # top
      BY <3>2, <2>1, <2>2, <2>4, <1>2
    <3> QED
      BY <3>1, <3>2
  <2>6. \A n \in 1 .. m : N[n] # i
    BY <2>2, <1>7, <1>10
  <2>7. \A n, l \in 1 .. top : U[n] = U[l] => n = l
    <3> SUFFICES ASSUME NEW n \in 1 .. top, NEW l \in 1 .. top, U[n] = U[l] PROVE n = l
      OBVIOUS
    <3>1. CASE n # top /\ l # top
      BY <3>1, <2>1, <2>2, <2>4
    <3>2. CASE n = top /\ l # top
      BY <3>2, <2>1, <2>4, <2>6
    <3>3. CASE n # top /\ l = top
      BY <3>3, <2>1, <2>4, <2>6
    <3> QED
      BY <3>1, <3>2, <3>3
  <2>8. \A j \in SlotNumber : V[j] = 0 => \E n \in 1 .. top : U[n] = j
    <3> SUFFICES ASSUME NEW j \in SlotNumber, V[j] = 0 PROVE \E n \in 1 .. top : U[n] = j
      OBVIOUS
    <3>1. CASE j = i
      BY <3>1, <2>1, <2>4
    <3>2. CASE j # i
      <4>1. PICK n \in 1 .. m : N[n] = j
        BY <3>2, <1>2, <2>2
      <4> QED
        BY <4>1, <2>1, <2>4
    <3> QED
      BY <3>1, <3>2
  <2>9. MaxSlots - u.nsocks = top
    BY <1>6 DEF top
  <2> QED
    BY <1>2, <1>4, <1>6, <1>8, <1>11, <1>12, <1>13, <2>4, <2>5, <2>7, <2>8, <2>9 DEF TableFits
<1>15. CASE U = Fresh /\ k - 1 = 0
  <2>1. u.nsocks = 0 /\ MaxSlots - u.nsocks = MaxSlots
    BY <1>6, <1>15, GlobalBounds
  <2>2. UsedSlots(u) = {}
    BY <1>4, <1>15, UsedFinite, FS_EmptySet
  <2>3. \A j \in SlotNumber : V[j] = 0
    BY <2>2, <1>8 DEF UsedSlots
  <2>4. 1 .. MaxSlots = SlotNumber
    BY DEF SlotNumber
  <2>5. /\ U \in [SlotNumber -> SlotNumber]
        /\ \A n, m \in SlotNumber : U[n] = U[m] => n = m
        /\ \A j \in SlotNumber : \E n \in SlotNumber : U[n] = j
    BY <1>15, FreshType
  <2> DEFINE R == 1 .. MaxSlots - u.nsocks
  <2>9. R = SlotNumber
    BY <2>1, <2>4
  <2> HIDE DEF R
  <2>6. \A n \in R : V[U[n]] = 0
    BY <2>3, <2>9, <2>5
  <2>7. \A n, m \in R : U[n] = U[m] => n = m
    BY <2>9, <2>5
  <2>8. \A j \in SlotNumber : V[j] = 0 => \E n \in R : U[n] = j
    BY <2>9, <2>5
  <2> USE DEF R
  <2> QED
    BY <1>2, <1>4, <1>6, <1>8, <1>11, <1>12, <1>13, <2>5, <2>6, <2>7, <2>8 DEF TableFits
<1> QED
  BY <1>9, <1>14, <1>15

(* The socket in the slot is freed by the thread that has the global lock. *)
FreedIn(s, o, i, U) ==
  [s EXCEPT !.sock[o] = [NewSocket EXCEPT !.st = "FREED"], !.table[i] = 0, !.nsocks = @ - 1,
            !.unused = U]

(* nn_sock_term's end and nn_close free a socket without endpoints: what   *)
(* belonged to it has been freed.                                          *)
LEMMA FreeWhole ==
  ASSUME NEW s, Whole(s), NEW t \in Thread, s.glock = t, s.th[t].at = "return",
         NEW i \in SlotNumber, NEW o \in Socket, o # 0, s.table[i] = o, s.abort = "no",
         s.sock[o].eps = {}, s.sock[o].sdeps = {}, NEW U,
         \/ U = [s.unused EXCEPT ![MaxSlots - s.nsocks + 1] = i]
         \/ U = Fresh /\ s.nsocks - 1 = 0
  PROVE  Whole(FreedIn(s, o, i, U))
<1> DEFINE k == [NewSocket EXCEPT !.st = "FREED"]
           T == [s.table EXCEPT ![i] = 0]
           a == [s EXCEPT !.sock[o] = k]
           u == WithTable(a, T, U, s.nsocks - 1)
<1>1. s \in ProcType /\ Good(s) /\ CallsFit(s) /\ TableFits(s)
  BY DEF Whole, Good
<1>2. k \in SockType /\ k.st = "FREED" /\ k.eps = {} /\ k.sdeps = {}
  BY NewSocketType DEF SockType, SockState
<1>3. FreedIn(s, o, i, U) = u
  BY <1>1 DEF FreedIn, WithTable, ProcType
<1> HIDE DEF k
<1>4. \A e \in Endpoint : s.ep[e].sock = o => ~InUse(s.ep[e])
  BY <1>1 DEF Good, Life, Owned
<1>5. Unowned(s, o)
  <2> SUFFICES ASSUME NEW e \in Endpoint, s.ep[e].sock = o
               PROVE  s.ep[e].st = "FREED" /\ \A q \in Session : s.sess[q].ep = e => Blank(s.sess[q])
    BY DEF Unowned
  <2>1. EpFits(s.ep[e]) /\ ~InUse(s.ep[e])
    BY <1>1, <1>4, EpOf
  <2>2. s.ep[e].st = "FREED"
    BY <2>1 DEF EpFits, InUse
  <2> QED
    BY <1>1, <2>1, <2>2 DEF Good, Life, Housed, HousedAt
<1>6. SameOwner(s, s.sock[o], k)
  BY <1>2 DEF SameOwner
<1>7. /\ Good(a)
      /\ a.glock = s.glock /\ a.table = s.table
      /\ a.unused = s.unused /\ a.nsocks = s.nsocks /\ a.th = s.th
      /\ a.sock[o] = k /\ \A x \in Socket \ {o} : a.sock[x] = s.sock[x]
  BY <1>1, <1>2, <1>5, <1>6, SockGood
<1> HIDE DEF a
<1>8. s.table \in [SlotNumber -> Socket \cup {0}] /\ s.unused \in [SlotNumber -> SlotNumber]
      /\ s.nsocks \in 0 .. MaxSlots
  BY <1>1 DEF ProcType
<1>9. TableFits(u) /\ U \in [SlotNumber -> SlotNumber] /\ s.nsocks - 1 \in 0 .. MaxSlots
      /\ T \in [SlotNumber -> Socket \cup {0}]
  <2> DEFINE b == [table |-> T, nsocks |-> s.nsocks - 1, unused |-> U, sock |-> a.sock]
  <2>1. b.table = T /\ b.nsocks = s.nsocks - 1 /\ b.unused = U /\ b.sock = a.sock
    OBVIOUS
  <2> HIDE DEF b
  <2>2. TableFits(b) /\ U \in [SlotNumber -> SlotNumber] /\ b.nsocks \in 0 .. MaxSlots
        /\ b.table \in [SlotNumber -> Socket \cup {0}]
    BY <1>1, <1>2, <1>7, <1>8, <2>1, SlotFreed, SMTT(30)
  <2>3. u.table = T /\ u.nsocks = s.nsocks - 1 /\ u.unused = U /\ u.sock = a.sock
    BY <1>7, <2>1, <2>2, TableGood
  <2> HIDE DEF u
  <2>4. TableFits(u)
    <3>1. UsedSlots(u) = UsedSlots(b)
      BY <2>1, <2>3 DEF UsedSlots
    <3> QED
      BY <2>1, <2>2, <2>3, <3>1 DEF TableFits
  <2> QED
    BY <2>1, <2>2, <2>4
<1>10. Good(u) /\ u.glock = s.glock /\ u.th = s.th /\ u.table = T /\ u.sock = a.sock
  BY <1>7, <1>9, TableGood
<1> HIDE DEF u
<1>11. CallsFit(u)
  <2>0. s.th \in [Thread -> CallType]
    BY <1>1 DEF ProcType
  <2>1. \A x \in Thread : s.th[x].o \in Socket \cup {0} /\ s.th[x].at # "sem"
    BY <2>0, <1>1 DEF CallsFit, CallFits, CallType
  <2>2. \A x \in Socket : u.sock[x].st = "NONE" => s.sock[x].st = "NONE"
    BY <1>2, <1>7, <1>10
  <2>3. \A x \in Thread : CallFits(u, x)
    BY <1>1, <1>10, <2>1, <2>2 DEF CallsFit, CallFits
  <2> QED
    BY <2>3 DEF CallsFit
<1> QED
  BY <1>3, <1>9, <1>10, <1>11 DEF Whole

(* A failed assertion and a return commute.                                *)
LEMMA BadReturns ==
  ASSUME NEW s, "th" \in DOMAIN s, "abort" \in DOMAIN s, NEW t
  PROVE  WithThread(Bad(s), t, "return") = Bad(WithThread(s, t, "return"))
BY DEF Bad, Abort, WithThread

(* How nn_close ends: by a failed assertion, or with the socket freed and  *)
(* its slot given back.                                                    *)
LEMMA SemPostedEnds ==
  ASSUME Whole(p), NEW t \in Thread, SemPosted(t)
  PROVE  \/ p' = Bad(p)
         \/ \E o \in Socket, i \in SlotNumber : \E U \in {Pushed(i), Fresh} :
              LET w == FreedIn(WithThread(p, t, "return"), o, i, U) IN
              Whole(w) /\ p' \in {Settled(w, t), Settled(Bad(w), t)}
<1> DEFINE o == p.th[t].o
           i == p.th[t].slot
           s == WithThread(p, t, "return")
           u == FreedIn(p, o, i, Pushed(i))
<1>1. CanFree(t) /\ p' = IF p.sock[o].eps # {} \/ p.sock[o].sdeps # {} THEN Bad(p)
                         ELSE Settled(WithThread(nn_global_term(u), t, "return"), t)
  BY DEF SemPosted, FreedIn
<1>2. p.abort = "no" /\ p.th[t].at = "sem"
  BY <1>1 DEF CanFree, Running
<1>3. p \in ProcType /\ p.th[t] \in CallType /\ CallFits(p, t)
  BY CallOf
<1>4. p.glock = t /\ o # 0 /\ p.table[i] = o /\ i \in SlotNumber /\ o \in Socket
  BY <1>2, <1>3 DEF CallFits, CallType
<1>5. /\ Whole(s) /\ s.glock = t /\ s.th[t].at = "return" /\ s.table = p.table
      /\ s.abort = "no" /\ s.sock = p.sock /\ s.unused = p.unused /\ s.nsocks = p.nsocks
  <2>1. Whole(s)
    BY <1>2, ReturnWhole
  <2>2. /\ s.glock = t /\ s.th[t].at = "return" /\ s.table = p.table
        /\ s.abort = "no" /\ s.sock = p.sock /\ s.unused = p.unused /\ s.nsocks = p.nsocks
    BY <1>2, <1>3, <1>4 DEF WithThread, ProcType, CallType
  <2> QED
    BY <2>1, <2>2
<1> HIDE DEF o, i
<1>6. CASE p.sock[o].eps # {} \/ p.sock[o].sdeps # {}
  BY <1>1, <1>6
<1>7. CASE p.sock[o].eps = {} /\ p.sock[o].sdeps = {}
  <2> DEFINE a == FreedIn(s, o, i, Pushed(i))
             b == FreedIn(s, o, i, Fresh)
  <2>1. \A U : WithThread(FreedIn(p, o, i, U), t, "return") = FreedIn(s, o, i, U)
    BY <1>3, ZenonT(30) DEF FreedIn, WithThread, ProcType
  <2>2. Whole(a)
    BY <1>4, <1>5, <1>7, FreeWhole DEF Pushed
  <2>3. u.nsocks = p.nsocks - 1 /\ u.abort = "no" /\ p.nsocks \in 0 .. MaxSlots
    BY <1>2, <1>3 DEF FreedIn, ProcType
  <2>4. [u EXCEPT !.unused = Fresh] = FreedIn(p, o, i, Fresh)
    BY <1>3 DEF FreedIn, ProcType
  <2>5. WithThread(Bad(u), t, "return") = Bad(WithThread(u, t, "return"))
    <3>1. "th" \in DOMAIN u /\ "abort" \in DOMAIN u
      BY <1>3 DEF FreedIn, ProcType
    <3> HIDE DEF u
    <3> QED
      BY <3>1, BadReturns
  <2>10. WithThread(u, t, "return") = a /\ WithThread(FreedIn(p, o, i, Fresh), t, "return") = b
    BY <2>1
  <2>7. p' = Settled(WithThread(nn_global_term(u), t, "return"), t)
    BY <1>1, <1>7
  <2> HIDE DEF u, a, b
  <2>6. \/ WithThread(nn_global_term(u), t, "return") \in {a, Bad(a)}
        \/ WithThread(nn_global_term(u), t, "return") = b /\ p.nsocks - 1 = 0
    <3>1. CASE u.nsocks # 0
      <4>1. nn_global_term(u) = u
        BY <3>1 DEF nn_global_term
      <4> QED
        BY <4>1, <2>10
    <3>2. CASE u.nsocks = 0 /\ (u.bound # 0 \/ u.connected # {})
      <4>1. nn_global_term(u) = Bad(u)
        BY <3>2 DEF nn_global_term
      <4> QED
        BY <4>1, <2>10, <2>5
    <3>3. CASE u.nsocks = 0 /\ ~(u.bound # 0 \/ u.connected # {})
      <4>1. nn_global_term(u) = FreedIn(p, o, i, Fresh)
        BY <3>3, <2>4 DEF nn_global_term
      <4> QED
        BY <4>1, <3>3, <2>10, <2>3
    <3> QED
      BY <3>1, <3>2, <3>3
  <2>8. p.nsocks - 1 = 0 => Whole(b)
    BY <1>4, <1>5, <1>7, FreeWhole DEF b
  <2>9. (Whole(a) /\ p' \in {Settled(a, t), Settled(Bad(a), t)}) \/ (Whole(b) /\ p' = Settled(b, t))
    BY <2>2, <2>6, <2>7, <2>8
  <2>11. \E U \in {Pushed(i), Fresh} :
           LET w == FreedIn(s, o, i, U) IN
           Whole(w) /\ p' \in {Settled(w, t), Settled(Bad(w), t)}
    BY <2>9 DEF a, b
  <2> HIDE DEF s
  <2> QED
    BY <1>4, <2>11 DEF s
<1> QED
  BY <1>6, <1>7

(* nn_close after termsem: the two assertions that the socket has no       *)
(* endpoint left, the free, and the slot given back keep the invariant.    *)
LEMMA SemPostedWhole ==
  ASSUME Whole(p), NEW t \in Thread, SemPosted(t)
  PROVE  Whole(p')
<1>1. CASE p' = Bad(p)
  BY <1>1, AbortWhole DEF Bad, Why
<1>2. ASSUME NEW w, Whole(w), p' \in {Settled(w, t), Settled(Bad(w), t)} PROVE Whole(p')
  BY <1>2, AbortWhole, SettledWhole DEF Bad, Why
<1> QED
  BY <1>1, <1>2, SemPostedEnds

-----------------------------------------------------------------------------
(* The theorems                                                            *)

(* A session that is not made yet.                                         *)
Unused(z) ==
  /\ z.st = "NONE" /\ ~z.sending /\ ~z.receiving /\ z.queue = <<>> /\ z.msg = <<>>
  /\ z.sent = 0 /\ z.got = 0

(* No event and no session: nothing flows.                                 *)
LEMMA InitFlow ==
  ASSUME NEW s, s.events = <<>>, s.eventsto = <<>>, s.pend = [t \in Thread |-> <<>>],
         s.hand = [t \in Thread |-> <<>>], \A q \in Session : Unused(s.sess[q])
  PROVE  Flow(s)
<1>1. \A k \in At : QueueAt(s, k) = <<>>
  BY DEF At, QueueAt
<1>2. Uniq(s) /\ Due(s)
  BY <1>1 DEF Uniq, Due
<1>3. Hands(s)
  BY DEF Hands
<1>4. Clean(s)
  BY DEF Clean, Unused
<1>5. Streams(s)
  <2> SUFFICES ASSUME NEW q \in Session PROVE Stream(s.sess[q], s.sess[Twin(q)])
    BY DEF Streams
  <2> DEFINE a == s.sess[q]
             b == s.sess[Twin(q)]
  <2>1. Unused(a) /\ Unused(b)
    BY Twins
  <2> HIDE DEF a, b
  <2>2. Stream(a, b)
    BY <2>1 DEF Unused, Stream, Runs
  <2> QED
    BY <2>2 DEF a, b
<1> QED
  BY <1>2, <1>3, <1>4, <1>5 DEF Flow

(* The initial states have the invariant: no socket and every slot unused. *)
LEMMA InitWhole == ASSUME Init PROVE Whole(p)
<1> DEFINE k == [NewSocket EXCEPT !.st = "NONE"]
           e0 == [sock |-> 0, kind |-> "none", st |-> "NONE", base |-> "IDLE", sessions |-> {},
                 connects |-> FALSE, lonely |-> FALSE]
           r(q) == [NewSession(q[2]) EXCEPT !.st = "NONE"]
<1>1. k \in SockType /\ k.st = "NONE" /\ k.eps = {} /\ k.sdeps = {}
  BY NewSocketType DEF SockType, SockState
<1>2. e0 \in EpType /\ EpFits(e0) /\ e0.st = "NONE" /\ e0.sock = 0
  BY DEF EpType, EpState, BaseState, EpFits
<1>3. \A q \in Session : r(q) \in SessType /\ Unused(r(q)) /\ r(q).ep = q[2] /\ r(q).peer = None
  <2> SUFFICES ASSUME NEW q \in Session
               PROVE r(q) \in SessType /\ Unused(r(q)) /\ r(q).ep = q[2] /\ r(q).peer = None
    OBVIOUS
  <2>1. q[2] \in Endpoint
    BY Names
  <2> DEFINE z == NewSession(q[2])
  <2>2. /\ z \in SessType /\ z.ep = q[2] /\ z.peer = None /\ ~z.sending /\ ~z.receiving
        /\ z.queue = <<>> /\ z.msg = <<>> /\ z.sent = 0 /\ z.got = 0
    BY <2>1, NewSessionType
  <2>3. r(q) = [z EXCEPT !.st = "NONE"]
    OBVIOUS
  <2> HIDE DEF z, r
  <2> QED
    BY <2>2, <2>3 DEF SessType, SessState, Unused
<1>4. /\ p.abort = "no" /\ p.overlap = FALSE /\ p.glock = NoThread /\ p.term = FALSE
      /\ p.table = [i \in SlotNumber |-> 0] /\ p.unused = Fresh /\ p.nsocks = 0
      /\ p.th = [t \in Thread |-> NoCall] /\ p.pend = [t \in Thread |-> <<>>]
      /\ p.hand = [t \in Thread |-> <<>>] /\ p.events = <<>> /\ p.eventsto = <<>>
      /\ p.bound = 0 /\ p.connected = {} /\ p.ep = [e \in Endpoint |-> e0]
      /\ p.sess = [q \in Session |-> r(q)] /\ p.sock = [o \in Socket |-> k]
      /\ p = [abort |-> p.abort, overlap |-> p.overlap, glock |-> p.glock, term |-> p.term,
              table |-> p.table, unused |-> p.unused, nsocks |-> p.nsocks, th |-> p.th,
              pend |-> p.pend, hand |-> p.hand, events |-> p.events, eventsto |-> p.eventsto,
              bound |-> p.bound, connected |-> p.connected, ep |-> p.ep, sess |-> p.sess,
              sock |-> p.sock]
  BY DEF Init
<1> HIDE DEF k, e0, r
<1>5. /\ p.table \in [SlotNumber -> Socket \cup {0}] /\ p.unused \in [SlotNumber -> SlotNumber]
      /\ p.nsocks \in 0 .. MaxSlots /\ p.th \in [Thread -> CallType]
      /\ p.pend \in [Thread -> Seq(ToEvent)] /\ p.hand \in [Thread -> Seq(ToEvent)]
  <2>1. p.table \in [SlotNumber -> Socket \cup {0}] /\ p.unused \in [SlotNumber -> SlotNumber]
    BY <1>4, FreshType
  <2>2. p.nsocks \in 0 .. MaxSlots
    BY <1>4, GlobalBounds
  <2>3. p.th \in [Thread -> CallType]
    BY <1>4, NoCallFits
  <2>4. p.pend \in [Thread -> Seq(ToEvent)] /\ p.hand \in [Thread -> Seq(ToEvent)]
    BY <1>4
  <2> QED
    BY <2>1, <2>2, <2>3, <2>4
<1>6. /\ p.events \in Seq(OwnEvent) /\ p.eventsto \in Seq(ToEvent)
      /\ p.bound \in Endpoint \cup {0} /\ p.connected \in SUBSET Endpoint
      /\ p.abort \in Why /\ p.overlap \in BOOLEAN /\ p.glock \in Thread \cup {NoThread}
      /\ p.term \in BOOLEAN
  <2>1. p.events \in Seq(OwnEvent) /\ p.eventsto \in Seq(ToEvent)
    BY <1>4
  <2>2. p.bound \in Endpoint \cup {0} /\ p.connected \in SUBSET Endpoint
    BY <1>4
  <2>3. p.abort \in Why /\ p.overlap \in BOOLEAN /\ p.glock \in Thread \cup {NoThread}
        /\ p.term \in BOOLEAN
    BY <1>4 DEF Why
  <2> QED
    BY <2>1, <2>2, <2>3
<1>7. /\ p.ep \in [Endpoint -> EpType] /\ p.sess \in [Session -> SessType]
      /\ p.sock \in [Socket -> SockType]
  BY <1>1, <1>2, <1>3, <1>4
<1>8. p \in ProcType
  BY <1>4, <1>5, <1>6, <1>7 DEF ProcType
<1>9. Peers(p) /\ Homes(p)
  <2>1. \A q \in Session : p.sess[q].st = "NONE" /\ p.sess[q].ep = q[2] /\ p.sess[q].peer = None
    BY <1>3, <1>4 DEF Unused
  <2>2. \A e \in Endpoint : <<"c", e>> \in Session /\ <<"c", e>>[2] = e
    BY DEF Session
  <2> QED
    BY <2>1, <2>2 DEF Peers, PeerFits, Homes, Blank
<1>10. Bases(p) /\ Addressed(p)
  BY <1>2, <1>4 DEF Bases, Addressed
<1>11. AllFit(p)
  BY <1>4 DEF AllFit
<1>12. FreedClean(p) /\ Life(p)
  <2>1. \A e \in Endpoint : ~InUse(p.ep[e]) /\ p.ep[e].sock = 0
    BY <1>2, <1>4 DEF InUse
  <2>2. \A q \in Session : Blank(p.sess[q]) /\ p.sess[q].st = "NONE"
    BY <1>3, <1>4 DEF Blank, Unused
  <2>3. \A o \in Socket : p.sock[o].eps = {} /\ p.sock[o].sdeps = {}
    BY <1>1, <1>4
  <2>4. Unmade(p)
    BY <2>2 DEF Unmade, Session
  <2> QED
    BY <2>1, <2>2, <2>3, <2>4 DEF FreedClean, Life, Owned, Housed, Bare
<1>15. Flow(p)
  <2>1. \A q \in Session : Unused(p.sess[q])
    BY <1>3, <1>4
  <2> QED
    BY <2>1, <1>4, InitFlow
<1>13. CallsFit(p)
  BY <1>4, NoCallFits DEF CallsFit
<1>14. TableFits(p)
  <2>1. \A i \in SlotNumber : p.table[i] = 0
    BY <1>4
  <2>2. p.nsocks = Cardinality(UsedSlots(p))
    <3>1. UsedSlots(p) = {}
      BY <2>1 DEF UsedSlots
    <3> QED
      BY <3>1, <1>4, FS_EmptySet
  <2>3. 1 .. MaxSlots - p.nsocks = SlotNumber
    BY <1>4, GlobalBounds DEF SlotNumber
  <2>4. \A o \in Socket : p.sock[o].st = "NONE"
    BY <1>1, <1>4
  <2> QED
    BY <1>4, <1>5, <2>1, <2>2, <2>3, <2>4, FreshType, ZenonT(30) DEF TableFits
<1> QED
  BY <1>8, <1>9, <1>10, <1>11, <1>12, <1>13, <1>14, <1>15 DEF Whole, Good

(* Every start of a call keeps the invariant.                              *)
LEMMA StartsWhole ==
  ASSUME Whole(p), NEW t \in Thread, Starts(t)
  PROVE  Whole(p')
<1>1. CASE nn_socket(t)
  BY <1>1, SocketWhole
<1>2. CASE nn_term(t)
  BY <1>2, TermWhole
<1>3. ASSUME NEW i \in SlotNumber,
             \/ nn_bind(t, i) \/ nn_connect(t, i) \/ nn_close(t, i) \/ nn_shutdown(t, i)
             \/ nn_setsockopt(t, i)
             \/ \E wait \in BOOLEAN : nn_send(t, i, wait) \/ nn_recv(t, i, wait)
      PROVE  Whole(p')
  <2>1. PICK call \in Calls \ {"term"}, at \in {"glock", "enter"}, wait \in BOOLEAN :
          (call \in {"bind", "connect", "close"} <=> at = "glock") /\ Begin(t, i, call, at, wait)
    <3>1. CASE nn_bind(t, i)
      BY <3>1 DEF nn_bind, Calls
    <3>2. CASE nn_connect(t, i)
      BY <3>2 DEF nn_connect, Calls
    <3>3. CASE nn_close(t, i)
      BY <3>3 DEF nn_close, Calls
    <3>4. CASE nn_shutdown(t, i)
      BY <3>4 DEF nn_shutdown, Calls
    <3>5. CASE nn_setsockopt(t, i)
      BY <3>5 DEF nn_setsockopt, Calls
    <3>6. ASSUME NEW wait \in BOOLEAN, nn_send(t, i, wait) PROVE Begin(t, i, "send", "enter", wait)
      BY <3>6 DEF nn_send
    <3>7. ASSUME NEW wait \in BOOLEAN, nn_recv(t, i, wait) PROVE Begin(t, i, "recv", "enter", wait)
      BY <3>7 DEF nn_recv
    <3>8. "send" \in Calls \ {"term"} /\ "recv" \in Calls \ {"term"}
      BY DEF Calls
    <3> QED
      BY <1>3, <3>1, <3>2, <3>3, <3>4, <3>5, <3>6, <3>7, <3>8
  <2> QED
    BY <2>1, BeginWhole
<1> QED
  BY <1>1, <1>2, <1>3 DEF Starts

(* Every action of NnGlobal keeps the invariant.                           *)
LEMMA NextWhole == ASSUME Whole(p), [Next]_p PROVE Whole(p')
<1>1. ASSUME NEW t \in Thread, Locks(t) PROVE Whole(p')
  BY <1>1, DeliverWhole, LockGlobalWhole, ZombifyWhole, EnterClosedWhole, CreateEpWhole, RmEpWhole,
     SetoptWhole, OptsetWhole, SendWhole, RecvWhole, SockTermWhole, SemPostedWhole DEF Locks
<1>2. ASSUME NEW t \in Thread, RunsOn(t) PROVE Whole(p')
  BY <1>2, TakeWhole, PollReadyWhole DEF RunsOn
<1>3. CASE UNCHANGED p
  BY <1>3
<1> QED
  BY <1>1, <1>2, <1>3, StartsWhole, InterruptedWhole DEF Next

(* For every number of sockets, endpoints, threads and slots, every        *)
(* reachable state of NnGlobal has the invariant: all contexts, queues,    *)
(* calls and slots are as the code's handlers expect them.                 *)
THEOREM AlwaysWhole == Spec => []Whole(p)
<1>1. Init => Whole(p)
  BY InitWhole
<1>2. Whole(p) /\ [Next]_p => Whole(p)'
  BY NextWhole
<1> QED
  BY <1>1, <1>2, PTL DEF Spec

(* The invariant's types are those of NnGlobalTypeOK.                      *)
LEMMA TypeOfWhole == ASSUME Whole(p) PROVE NnGlobalTypeOK
<1>1. p \in ProcType
  BY DEF Whole, Good
<1>2. /\ p.abort \in Why /\ p.glock \in Thread \cup {NoThread} /\ p.nsocks \in 0 .. MaxSlots
      /\ p.table \in [SlotNumber -> Socket \cup {0}] /\ p.unused \in [SlotNumber -> SlotNumber]
  BY <1>1 DEF ProcType
<1>3. ASSUME NEW o \in Socket
      PROVE  /\ p.sock[o].st \in {"NONE", "ACTIVE", "ZOMBIE", "STOPPING_EPS", "CLOSED", "FREED"}
             /\ p.sock[o].flags \subseteq Way /\ p.sock[o].efd \subseteq Way
             /\ p.sock[o].excl \in [{"pipe", "inpipe", "outpipe"} -> Session \cup {None}]
             /\ p.sock[o].lock \in Thread \cup {NoThread}
  <2>1. p.sock[o] \in SockType
    BY <1>1 DEF ProcType
  <2>2. p.sock[o].excl \in ExclType
    BY <2>1 DEF SockType
  <2>3. p.sock[o].excl \in [{"pipe", "inpipe", "outpipe"} -> Session \cup {None}]
    BY <2>2 DEF ExclType, PipeName
  <2> QED
    BY <2>1, <2>3 DEF SockType, SockState
<1>4. ASSUME NEW e \in Endpoint PROVE p.ep[e].st \in {"NONE", "ACTIVE", "STOPPING", "IDLE", "FREED"}
  <2>1. p.ep[e] \in EpType
    BY <1>1 DEF ProcType
  <2> QED
    BY <2>1 DEF EpType, EpState
<1>5. ASSUME NEW q \in Session PROVE p.sess[q].peer \in Session \cup {None}
  <2>1. p.sess[q] \in SessType
    BY <1>1 DEF ProcType
  <2> QED
    BY <2>1 DEF SessType, PipeName
<1> QED
  BY <1>2, <1>3, <1>4, <1>5 DEF NnGlobalTypeOK

(* The table's part of the invariant is SlotsConsistent.                   *)
LEMMA SlotsOfWhole == ASSUME Whole(p) PROVE SlotsConsistent
<1> DEFINE N == p.unused
           m == MaxSlots - p.nsocks
           free == [n \in 1 .. MaxSlots - p.nsocks |-> p.unused[n]]
           F == {free[n] : n \in DOMAIN free}
<1>1. TableFits(p) /\ p \in ProcType
  BY DEF Whole, Good
<1>2. p.nsocks \in 0 .. MaxSlots /\ N \in [SlotNumber -> SlotNumber]
      /\ p.table \in [SlotNumber -> Socket \cup {0}]
  BY <1>1 DEF ProcType
<1>3. m \in Nat /\ \A n \in 1 .. m : n \in SlotNumber
  BY <1>2, GlobalBounds DEF SlotNumber
<1>4. DOMAIN free = 1 .. m /\ \A n \in 1 .. m : free[n] = N[n]
  OBVIOUS
<1>5. /\ \A n \in 1 .. m : p.table[N[n]] = 0
      /\ \A n, l \in 1 .. m : N[n] = N[l] => n = l
      /\ \A i \in SlotNumber : p.table[i] = 0 => \E n \in 1 .. m : N[n] = i
  BY <1>1 DEF TableFits
<1>6. Len(free) = m
  BY <1>3
<1> HIDE DEF m, free, N
<1>7. {i \in SlotNumber : p.table[i] = 0} = F
  BY <1>2, <1>3, <1>4, <1>5
<1>8. Cardinality(F) = m
  <2>1. F = {N[n] : n \in 1 .. m}
    BY <1>4
  <2>2. N \in [SlotNumber -> SlotNumber]
    BY <1>2
  <2> DEFINE g == [n \in 1 .. m |-> N[n]]
  <2>3. g \in Bijection(1 .. m, F)
    <3>1. g \in [1 .. m -> F]
      BY <2>1
    <3>2. \A a, b \in 1 .. m : g[a] = g[b] => a = b
      BY <1>5
    <3>3. \A y \in F : \E x \in 1 .. m : g[x] = y
      BY <2>1
    <3> HIDE DEF g, F
    <3> QED
      BY <3>1, <3>2, <3>3 DEF Bijection, Injection, Surjection, IsInjective
  <2> HIDE DEF g
  <2>4. ExistsBijection(1 .. m, F)
    BY <2>3 DEF ExistsBijection
  <2> QED
    BY <2>4, <1>3, FS_CountingElements
<1>9. ASSUME NEW o \in Socket, p.sock[o].st \notin {"NONE", "FREED"}
      PROVE  Cardinality({i \in SlotNumber : p.table[i] = o}) = 1
  <2>1. PICK i \in SlotNumber : p.table[i] = o
    BY <1>1, <1>9 DEF TableFits
  <2>2. o # 0
    BY InprocBounds DEF Socket
  <2>3. {j \in SlotNumber : p.table[j] = o} = {i}
    BY <1>1, <2>1, <2>2 DEF TableFits
  <2> QED
    BY <2>3, FS_Singleton
<1> QED
  BY <1>6, <1>7, <1>8, <1>9 DEF SlotsConsistent, free

(* A freed socket has left no endpoint and no session behind.              *)
LEMMA FreedOfWhole == ASSUME Whole(p) PROVE FreedLeavesNothing
<1> SUFFICES ASSUME NEW e \in Endpoint, p.ep[e].sock # 0, p.sock[p.ep[e].sock].st = "FREED"
             PROVE  /\ p.ep[e].st = "FREED" /\ p.bound # e /\ e \notin p.connected
                    /\ \A q \in Session : p.sess[q].ep = e => p.sess[q].st \in {"NONE", "FREED"}
  BY DEF FreedLeavesNothing
<1>1. /\ p.ep[e].st = "FREED"
      /\ \A q \in Session : p.sess[q].ep = e => Blank(p.sess[q])
  BY DEF Whole, Good, FreedClean
<1>2. p.bound # e /\ e \notin p.connected
  <2>1. p.bound = e => p.ep[e].st = "ACTIVE"
    BY InprocBounds DEF Whole, Good, Addressed, Endpoint
  <2> QED
    BY <1>1, <2>1 DEF Whole, Good, Addressed
<1> QED
  BY <1>1, <1>2 DEF Blank

(* A run split into msgqueue and message is the run.                       *)
LEMMA RunsJoined ==
  ASSUME NEW Q \in Seq(Nat), NEW M \in Seq(Nat), NEW b \in Nat, NEW a \in Nat, Runs(Q, M, b, a)
  PROVE  Q \o M = [n \in 1 .. a - b |-> b + n]
<1> DEFINE c == a - b
           z == [n \in 1 .. a - b |-> b + n]
<1>1. /\ b <= a /\ Len(Q) + Len(M) = c /\ Len(Q) \in Nat /\ Len(M) \in Nat /\ c \in Nat
      /\ DOMAIN Q = 1 .. Len(Q) /\ DOMAIN M = 1 .. Len(M)
  BY DEF Runs
<1>2. z \in Seq(Nat) /\ Len(z) = c /\ \A n \in 1 .. c : z[n] = b + n
  <2>1. \A n \in 1 .. c : b + n \in Nat
    BY <1>1
  <2> QED
    BY <1>1, <2>1
<1>3. Q \o M \in Seq(Nat) /\ Len(Q \o M) = c
  BY <1>1
<1>4. ASSUME NEW i \in 1 .. c PROVE (Q \o M)[i] = b + i
  <2>1. CASE i <= Len(Q)
    <3>1. (Q \o M)[i] = Q[i] /\ i \in DOMAIN Q
      BY <1>1, <2>1
    <3> QED
      BY <3>1 DEF Runs
  <2>2. CASE i > Len(Q)
    <3>1. (Q \o M)[i] = M[i - Len(Q)] /\ i - Len(Q) \in DOMAIN M
      BY <1>1, <2>2
    <3>2. M[i - Len(Q)] = b + Len(Q) + (i - Len(Q))
      BY <3>1 DEF Runs
    <3> QED
      BY <1>1, <3>1, <3>2
  <2> QED
    BY <1>1, <2>1, <2>2
<1> DEFINE y == Q \o M
<1>5. y \in Seq(Nat) /\ Len(y) = c /\ \A i \in 1 .. c : y[i] = z[i]
  BY <1>2, <1>3, <1>4
<1> HIDE DEF y, z, c
<1>6. y = z
  BY <1>2, <1>5
<1> QED
  BY <1>6 DEF y, z

(* The connections' part of the invariant is StreamKept.                   *)
LEMMA StreamOfWhole == ASSUME Whole(p) PROVE StreamKept
<1> SUFFICES ASSUME NEW q \in Session, p.abort = "no", p.sess[q].peer # None,
                    "FREED" \notin {p.sess[q].st, p.sess[p.sess[q].peer].st}
             PROVE  p.sess[q].queue \o p.sess[p.sess[q].peer].msg
                    = [n \in 1 .. p.sess[p.sess[q].peer].sent - p.sess[q].got |-> p.sess[q].got + n]
  BY DEF StreamKept
<1>1. p.sess[q].peer = Twin(q) /\ Twin(q) \in Session
  BY Twins DEF Whole, Good, Peers, PeerFits
<1> DEFINE r == p.sess[q]
           k == p.sess[p.sess[q].peer]
<1>2. Runs(r.queue, k.msg, r.got, k.sent)
  BY <1>1 DEF Whole, Good, Flow, Streams, Paired, Stream
<1>3. r \in SessType /\ k \in SessType
  BY <1>1, SessOf DEF Whole
<1>4. r.queue \in Seq(Nat) /\ k.msg \in Seq(Nat) /\ r.got \in Nat /\ k.sent \in Nat
  <2> HIDE DEF r, k
  <2> QED
    BY <1>3 DEF SessType
<1> HIDE DEF r, k
<1>5. r.queue \o k.msg = [n \in 1 .. k.sent - r.got |-> r.got + n]
  <2> DEFINE Q == r.queue
             M == k.msg
             b == r.got
             a == k.sent
  <2>1. Q \in Seq(Nat) /\ M \in Seq(Nat) /\ b \in Nat /\ a \in Nat /\ Runs(Q, M, b, a)
    BY <1>2, <1>4
  <2> HIDE DEF Q, M, a, b
  <2>2. Q \o M = [n \in 1 .. a - b |-> b + n]
    BY <2>1, RunsJoined
  <2> QED
    BY <2>2 DEF Q, M, a, b
<1> QED
  BY <1>5 DEF r, k

(* No message between two inproc pair sockets is lost, doubled or          *)
(* reordered: what a receiver has got, what waits in its msgqueue and what *)
(* waits with the sender (sinproc.c) are together the messages sent, in    *)
(* order.                                                                  *)
THEOREM StreamRight == Spec => []StreamKept
BY AlwaysWhole, StreamOfWhole, PTL

(* Every reachable state of the process is well typed (NnGlobalTypeOK).    *)
THEOREM TypeCorrect == Spec => []NnGlobalTypeOK
BY AlwaysWhole, TypeOfWhole, PTL

(* The table of sockets, its list of unused slots and its count agree in   *)
(* every reachable state (nn_global_create_socket and nn_close in          *)
(* global.c).                                                              *)
THEOREM SlotsRight == Spec => []SlotsConsistent
BY AlwaysWhole, SlotsOfWhole, PTL

(* A socket that nn_close has freed leaves no endpoint, no session and no  *)
(* address behind (sock.c:218, ep.c, binproc.c, cinproc.c, ins.c).         *)
THEOREM FreedRight == Spec => []FreedLeavesNothing
BY AlwaysWhole, FreedOfWhole, PTL

-----------------------------------------------------------------------------
(* What the efds of sockets show                                            *)

(* No context is entered: all its events are handled, all efds set.        *)
AtRest(s) == s.abort = "no" => s.events = <<>> /\ Led(s, 0)

(* Any context can then be entered.                                        *)
LEMMA RestLeads ==
  ASSUME NEW s, AtRest(s), s.abort = "no", NEW o
  PROVE  s.events = <<>> /\ Led(s, o)
<1>1. Rested(s, o) /\ Local(s, o)
  BY DEF AtRest, Led, Rested, Local, Socket
<1> QED
  BY <1>1 DEF AtRest, Led

(* Led reads events, sess, sock and ep alone.                              *)
LEMMA LedSame ==
  ASSUME NEW s, NEW u, NEW o, Led(s, o), u.events = s.events, u.sess = s.sess, u.sock = s.sock,
         u.ep = s.ep
  PROVE  Led(u, o)
<1>1. Links(u) /\ Heard(u) /\ Local(u, o) /\ Kin(u)
  BY DEF Led, Links, Heard, Local, OwnHome, Kin
<1>2. ASSUME NEW x \in Socket PROVE Wired(u, x) /\ nn_xpair_events(u, x) = nn_xpair_events(s, x)
  <2>1. Wired(s, x)
    BY DEF Led, Wires
  <2> DEFINE q == s.sock[x].excl.pipe
  <2>2. /\ Signals(u, q, "IN") <=> Signals(s, q, "IN")
        /\ Signals(u, q, "OUT") <=> Signals(s, q, "OUT")
    BY DEF Signals
  <2>3. Wired(u, x)
    BY <2>1, <2>2 DEF Wired
  <2> QED
    BY <2>3 DEF nn_xpair_events
<1>3. Wires(u) /\ Rested(u, o)
  BY <1>2 DEF Wires, Led, Rested
<1> QED
  BY <1>1, <1>3 DEF Led

(* A change of neither leaves all at rest.                                 *)
LEMMA RestSame ==
  ASSUME NEW s, NEW u, AtRest(s), u.abort = "no" => s.abort = "no", u.events = s.events,
         u.sess = s.sess, u.sock = s.sock, u.ep = s.ep
  PROVE  AtRest(u)
BY LedSame DEF AtRest

(* A process that has aborted promises nothing.                            *)
LEMMA AbortRests ==
  ASSUME NEW s, s \in ProcType, NEW why \in Why \ {"no"}
  PROVE  AtRest(Abort(s, why))
BY AbortParts DEF AtRest

(* A call that returns changes no socket.                                  *)
LEMMA SettledRests ==
  ASSUME NEW s, s \in ProcType, AtRest(s), NEW t
  PROVE  AtRest(Settled(s, t))
<1> DEFINE w == [s EXCEPT !.th[t] = NoCall, !.glock = IF @ = t THEN NoThread ELSE @]
<1>2. AtRest(Abort(s, "counts_on_closed_socket"))
  BY AbortRests DEF Why
<1>3. w.abort = s.abort /\ w.events = s.events /\ w.sess = s.sess /\ w.sock = s.sock /\ w.ep = s.ep
  BY DEF ProcType
<1>4. Settled(s, t) \in {s, Abort(s, "counts_on_closed_socket"), w}
  BY DEF Settled
<1> HIDE DEF w
<1>5. AtRest(w)
  BY <1>3, RestSame
<1> QED
  BY <1>2, <1>4, <1>5

(* nn_sock_onleave: the efds of the context's socket become as its pipe.   *)
LEMMA OnleaveRests ==
  ASSUME NEW s, Good(s), NEW o \in Socket, s.abort = "no" => s.events = <<>> /\ Led(s, o)
  PROVE  AtRest(nn_sock_onleave(s, o))
<1> DEFINE k == s.sock[o]
           x == nn_xpair_events(s, o)
           j == [k EXCEPT !.flags = x, !.efd = (@ \cup (x \ k.flags)) \ (k.flags \ x)]
           w == [s EXCEPT !.sock[o] = j]
           u == nn_sock_onleave(s, o)
<1>1. s \in ProcType /\ s.sock \in [Socket -> SockType] /\ k \in SockType
  BY SockOf DEF Good, ProcType
<1>2. Abort(s, "unsignalled_efd").abort # "no"
  BY <1>1, AbortParts DEF Why
<1>3. (u = s /\ k.st # "ACTIVE") \/ u = Abort(s, "unsignalled_efd") \/ u = w
  <2>1. w = [s EXCEPT !.sock[o].flags = x,
                      !.sock[o].efd = (@ \cup (x \ k.flags)) \ (k.flags \ x)]
    BY <1>1 DEF ProcType
  <2> QED
    BY <2>1 DEF nn_sock_onleave
<1>4. w.abort = s.abort /\ w.events = s.events /\ w.sess = s.sess /\ w.ep = s.ep
      /\ w.sock = [s.sock EXCEPT ![o] = j]
  BY <1>1 DEF ProcType
<1>5. /\ j.st = k.st /\ j.flags = x /\ j.efd = (k.efd \cup (x \ k.flags)) \ (k.flags \ x)
      /\ j.eps = k.eps /\ j.excl = k.excl
  BY <1>1 DEF SockType
<1> HIDE DEF w, j, u
<1>6. \A y \in Socket : w.sock[y] = IF y = o THEN j ELSE s.sock[y]
  BY <1>1, <1>4
<1> SUFFICES ASSUME u.abort = "no" PROVE u.events = <<>> /\ Led(u, 0)
  BY DEF AtRest, u
<1>7. s.abort = "no" /\ s.events = <<>> /\ Led(s, o)
  BY <1>2, <1>3, <1>4
<1>8. CASE u = s /\ k.st # "ACTIVE"
  <2>1. Rested(s, 0) /\ Local(s, 0)
    BY <1>7, <1>8 DEF Led, Rested, Local
  <2> QED
    BY <1>7, <1>8, <2>1 DEF Led
<1>9. CASE u = w
  <2>1. Links(w) /\ Heard(w) /\ Local(w, 0) /\ Kin(w)
    BY <1>4, <1>5, <1>6, <1>7 DEF Led, Links, Heard, Local, Kin
  <2>2. ASSUME NEW y \in Socket
        PROVE  Wired(w, y) /\ (w.sock[y].st = "ACTIVE" => w.sock[y].flags = nn_xpair_events(w, y))
    <3>1. Wired(s, y)
      BY <1>7 DEF Led, Wires
    <3> DEFINE q == s.sock[y].excl.pipe
    <3>2. /\ Signals(w, q, "IN") <=> Signals(s, q, "IN")
          /\ Signals(w, q, "OUT") <=> Signals(s, q, "OUT")
      BY <1>4 DEF Signals
    <3>3. w.sock[y].excl = s.sock[y].excl /\ w.sock[y].st = s.sock[y].st
      BY <1>5, <1>6
    <3>4. nn_xpair_events(w, y) = nn_xpair_events(s, y)
      BY <3>3 DEF nn_xpair_events
    <3>5. w.sock[y].st = "ACTIVE" =>
            w.sock[y].flags = nn_xpair_events(s, y) /\ w.sock[y].efd = nn_xpair_events(s, y)
      <4>1. CASE y # o
        BY <1>6, <1>7, <3>1, <4>1 DEF Led, Rested, Wired
      <4>2. CASE y = o
        <5>1. w.sock[y].st = "ACTIVE" => k.flags = k.efd
          BY <3>1, <3>3, <4>2 DEF Wired
        <5>2. k.flags = k.efd => j.efd = x
          BY <1>5
        <5> QED
          BY <1>5, <1>6, <4>2, <5>1, <5>2
      <4> QED
        BY <4>1, <4>2
    <3>6. Wired(w, y)
      BY <1>4, <3>1, <3>2, <3>3, <3>5 DEF Wired
    <3> QED
      BY <3>4, <3>5, <3>6
  <2>3. Wires(w) /\ Rested(w, 0)
    BY <2>2 DEF Wires, Rested
  <2> QED
    BY <1>4, <1>7, <1>9, <2>1, <2>3 DEF Led
<1> QED
  BY <1>2, <1>3, <1>8, <1>9

(* A context that is left is at rest.                                      *)
LEMMA LeaveRests ==
  ASSUME NEW s, Good(s), NEW t \in Thread, NEW o \in Socket, s.abort = "no" => Led(s, o)
  PROVE  AtRest(nn_ctx_leave(s, t, o))
<1> DEFINE d == Drained(s)
           u == nn_sock_onleave(d, o)
           Q == u.eventsto \o u.pend[t]
           w == [u EXCEPT !.pend[t] = Q, !.eventsto = <<>>]
<1>1. Step(s, d) /\ Turn(s, d, o) /\ (d.abort = "no" => d.events = <<>>)
  BY DrainedStep, DrainedTurn
<1>2. nn_ctx_leave(s, t, o) = Settled(w, t)
  <2>1. w = [u EXCEPT !.pend[t] = u.eventsto \o @, !.eventsto = <<>>]
    OBVIOUS
  <2> QED
    BY <2>1 DEF nn_ctx_leave
<1> HIDE DEF d
<1>3. AtRest(u) /\ Step(d, u)
  BY <1>1, OnleaveRests, OnleaveStep DEF Turn, Step
<1> HIDE DEF u
<1>4. u \in ProcType
  BY <1>3 DEF Step, Good
<1>5. Q \in Seq(ToEvent) /\ <<>> \in Seq(ToEvent)
  <2>1. u.eventsto \in Seq(ToEvent) /\ u.pend[t] \in Seq(ToEvent)
    BY <1>4 DEF ProcType
  <2> QED
    BY <2>1
<1> HIDE DEF Q
<1>6. /\ w.abort = u.abort /\ w.events = u.events /\ w.sess = u.sess /\ w.sock = u.sock
      /\ w.ep = u.ep /\ w \in ProcType
  BY <1>4, <1>5 DEF ProcType
<1> HIDE DEF w
<1>7. AtRest(w)
  BY <1>3, <1>6, RestSame
<1> QED
  BY <1>2, <1>6, <1>7, SettledRests

(* What a thread notes of its call changes no socket.                      *)
LEMMA CallRests ==
  ASSUME NEW s, Good(s), NEW t \in Thread, NEW c \in CallType, NEW u, u = [s EXCEPT !.th[t] = c]
  PROVE  /\ Good(u) /\ (AtRest(s) => AtRest(u)) /\ (\A o : Led(s, o) => Led(u, o))
         /\ u.abort = s.abort /\ u.sock = s.sock /\ u.events = s.events
<1>1. s.glock \in Thread \cup {NoThread}
  BY DEF Good, ProcType
<1>2. WithCall(s, t, c, s.glock) = u
  BY DEF Good, ProcType, WithCall
<1>3. Good(u)
  BY <1>1, <1>2, ThGood
<1>4. /\ u.abort = s.abort /\ u.events = s.events /\ u.sess = s.sess /\ u.sock = s.sock
      /\ u.ep = s.ep
  BY DEF Good, ProcType
<1> QED
  BY <1>3, <1>4, RestSame, LedSame

(* A call that returns in a context leaves it at rest.                     *)
LEMMA ReturnedRests ==
  ASSUME NEW s, Good(s), NEW t \in Thread, NEW o \in Socket, s.abort = "no" => Led(s, o)
  PROVE  AtRest(Returned(s, t, o))
<1> DEFINE c == [s.th[t] EXCEPT !.at = "return"]
           u == [s EXCEPT !.th[t] = c]
<1>1. c \in CallType
  <2>1. s.th[t] \in CallType
    BY DEF Good, ProcType
  <2> QED
    BY <2>1 DEF CallType
<1>2. Returned(s, t, o) = nn_ctx_leave(u, t, o)
  BY DEF Returned, WithThread
<1> HIDE DEF c
<1>3. Good(u) /\ (\A x : Led(s, x) => Led(u, x)) /\ u.abort = s.abort
  BY <1>1, CallRests
<1> HIDE DEF u
<1> QED
  BY <1>2, <1>3, LeaveRests

(* A turn in the context of a socket, and back.                            *)
LEMMA TurnRests ==
  ASSUME NEW s, AtRest(s), NEW u, Good(u), NEW o \in Socket, Turn(s, u, o), NEW t \in Thread
  PROVE  AtRest(nn_ctx_leave(u, t, o)) /\ AtRest(Returned(u, t, o))
<1>1. u.abort = "no" => Led(u, o)
  BY RestLeads DEF Turn
<1> QED
  BY <1>1, LeaveRests, ReturnedRests

(* An aborted process stays aborted.                                       *)
LEMMA LeaveAborted ==
  ASSUME NEW s, Good(s), s.abort # "no", NEW t \in Thread, NEW o \in Socket \cup {0}
  PROVE  AtRest(nn_ctx_leave(s, t, o))
<1> DEFINE d == Drained(s)
           u == nn_sock_onleave(d, o)
           Q == u.eventsto \o u.pend[t]
           w == [u EXCEPT !.pend[t] = Q, !.eventsto = <<>>]
<1>1. Step(s, d)
  BY DrainedStep
<1>2. nn_ctx_leave(s, t, o) = Settled(w, t)
  <2>1. w = [u EXCEPT !.pend[t] = u.eventsto \o @, !.eventsto = <<>>]
    OBVIOUS
  <2> QED
    BY <2>1 DEF nn_ctx_leave, d
<1> HIDE DEF d
<1>3. Step(d, u)
  BY <1>1, OnleaveStep DEF Step
<1> HIDE DEF u
<1>4. u \in ProcType /\ u.abort # "no"
  BY <1>1, <1>3 DEF Step, Good, Kept
<1>5. Q \in Seq(ToEvent) /\ <<>> \in Seq(ToEvent)
  <2>1. u.eventsto \in Seq(ToEvent) /\ u.pend[t] \in Seq(ToEvent)
    BY <1>4 DEF ProcType
  <2> QED
    BY <2>1
<1> HIDE DEF Q
<1>6. w \in ProcType /\ w.abort # "no"
  BY <1>4, <1>5 DEF ProcType
<1> HIDE DEF w
<1> QED
  BY <1>2, <1>6, SettledRests DEF AtRest

(* What moves only calls, marks and mail of other contexts.                *)
LEMMA MovesRest ==
  ASSUME Whole(p), AtRest(p), NEW t \in Thread,
         Take(t) \/ nn_term(t) \/ LockGlobal(t) \/ PollReady(t)
         \/ \E i \in SlotNumber, call \in Calls, at \in {"glock", "enter"}, wait \in BOOLEAN :
              Begin(t, i, call, at, wait)
  PROVE  AtRest(p')
<1>1. p \in ProcType
  BY DEF Whole, Good
<1>2. /\ p'.abort = p.abort /\ p'.events = p.events /\ p'.sess = p.sess /\ p'.sock = p.sock
      /\ p'.ep = p.ep
  <2>1. CASE Take(t)
    BY <1>1, <2>1 DEF Take, ProcType
  <2>2. CASE nn_term(t)
    BY <1>1, <2>2 DEF nn_term, ProcType
  <2>3. CASE LockGlobal(t)
    BY <1>1, <2>3 DEF LockGlobal, WithThread, ProcType
  <2>4. CASE PollReady(t)
    BY <1>1, <2>4 DEF PollReady, WithThread, ProcType
  <2>5. CASE \E i \in SlotNumber, call \in Calls, at \in {"glock", "enter"}, wait \in BOOLEAN :
               Begin(t, i, call, at, wait)
    <3>1. PICK i \in SlotNumber, call \in Calls, at \in {"glock", "enter"}, wait \in BOOLEAN :
            Begin(t, i, call, at, wait)
      BY <2>5
    <3>2. \E c, a : p' = [p EXCEPT !.th[t] = c, !.overlap = a]
      BY <3>1, Zenon DEF Begin
    <3> QED
      BY <1>1, <3>2 DEF ProcType
  <2> QED
    BY <2>1, <2>2, <2>3, <2>4, <2>5
<1> QED
  BY <1>2, RestSame

(* A call that ends outside of a context.                                  *)
LEMMA EndsRest ==
  ASSUME NEW s, Whole(s), AtRest(s), NEW t \in Thread
  PROVE  AtRest(Settled(WithThread(s, t, "return"), t))
<1> DEFINE c == [s.th[t] EXCEPT !.at = "return"]
<1>1. c \in CallType /\ Good(s)
  <2>1. s.th[t] \in CallType
    BY DEF Whole, Good, ProcType
  <2> QED
    BY <2>1 DEF CallType, Whole
<1>2. WithThread(s, t, "return") = [s EXCEPT !.th[t] = c]
  BY DEF WithThread
<1> HIDE DEF c
<1>3. Good(WithThread(s, t, "return")) /\ AtRest(WithThread(s, t, "return"))
  BY <1>1, <1>2, CallRests
<1> QED
  BY <1>3, SettledRests DEF Good

(* A wait that fails shows nothing.                                        *)
LEMMA InterruptedRests ==
  ASSUME Whole(p), AtRest(p), NEW t \in Thread, Interrupted(t)
  PROVE  AtRest(p')
BY EndsRest DEF Interrupted, PollInterrupted, SemInterrupted

(* A call that finds no socket aborts.                                     *)
LEMMA EnterClosedRests ==
  ASSUME Whole(p), NEW t \in Thread, EnterClosed(t)
  PROVE  AtRest(p')
<1> DEFINE why == IF Target(t) = 0 THEN "closed_under_call" ELSE "uses_freed_socket"
<1>1. p' = Abort(p, why)
  BY DEF EnterClosed
<1>2. why \in Why \ {"no"} /\ p \in ProcType
  BY DEF Why, Whole, Good
<1> HIDE DEF why
<1> QED
  BY <1>1, <1>2, AbortRests

(* nn_term tells a socket in its context.                                  *)
LEMMA SockZombifyTurn ==
  ASSUME NEW s, Good(s), NEW o \in Socket
  PROVE  Turn(s, nn_sock_zombify(s, o), o)
<1> DEFINE k == [s.sock[o] EXCEPT !.st = "ZOMBIE", !.flags = Way,
                                  !.efd = s.sock[o].efd \cup (Way \ s.sock[o].flags)]
           u == [s EXCEPT !.sock[o] = k]
<1>0. Turn(s, Abort(s, "terminated_twice"), o) /\ Turn(s, Abort(s, "terminated_at_close"), o)
  BY AbortTurn DEF Why
<1>1. s.sock[o] \in SockType
  BY SockOf
<1>2. k \in SockType /\ k.st = "ZOMBIE" /\ k.eps = s.sock[o].eps /\ k.excl = s.sock[o].excl
  BY <1>1 DEF SockType, SockState
<1>3. CASE s.sock[o].st = "ACTIVE"
  <2>1. nn_sock_zombify(s, o) = u
    <3>1. u = [s EXCEPT !.sock[o] = [@ EXCEPT !.st = "ZOMBIE", !.flags = Way,
                                              !.efd = s.sock[o].efd \cup (Way \ s.sock[o].flags)]]
      OBVIOUS
    <3> HIDE DEF u
    <3> QED
      BY <1>3, <3>1, Zenon DEF nn_sock_zombify
  <2> HIDE DEF k
  <2>2. Turn(s, u, o)
    BY <1>2, SockTurn
  <2> QED
    BY <2>1, <2>2
<1>4. CASE s.sock[o].st # "ACTIVE"
  <2>1. nn_sock_zombify(s, o) \in {Abort(s, "terminated_twice"), Abort(s, "terminated_at_close")}
    BY <1>4 DEF nn_sock_zombify
  <2> QED
    BY <1>0, <2>1
<1> QED
  BY <1>3, <1>4

(* nn_term's loop over the sockets leaves each context at rest.            *)
LEMMA ZombifyRests ==
  ASSUME Whole(p), AtRest(p), NEW t \in Thread, Zombify(t)
  PROVE  AtRest(p')
<1>1. CASE Left(t) = {}
  <2>1. p' = Settled(WithThread(p, t, "return"), t)
    BY <1>1 DEF Zombify
  <2> QED
    BY <2>1, EndsRest
<1>2. CASE Left(t) # {}
  <2> DEFINE i == FirstIn(Left(t))
             o == p.table[i]
             c == [p.th[t] EXCEPT !.slot = i + 1]
             u == [p EXCEPT !.th[t] = c]
  <2>1. Left(t) \subseteq Nat
    BY GlobalBounds DEF Left, SlotNumber
  <2>2. i \in Left(t)
    BY <1>2, <2>1, FirstInIn
  <2>3. p' = nn_ctx_leave(nn_sock_zombify(u, o), t, o)
    BY <1>2 DEF Zombify
  <2> HIDE DEF i
  <2>4. o \in Socket /\ i \in Nat /\ Good(p) /\ p.th[t] \in CallType
    <3>1. p.table \in [SlotNumber -> Socket \cup {0}] /\ Good(p) /\ p.th[t] \in CallType
      BY DEF Whole, Good, ProcType
    <3>2. i \in Nat /\ i \in SlotNumber /\ p.table[i] # 0
      BY <2>2, GlobalBounds DEF Left, SlotNumber
    <3> QED
      BY <3>1, <3>2
  <2>5. c \in CallType
    BY <2>4 DEF CallType
  <2> HIDE DEF c, o
  <2>6. Good(u) /\ AtRest(u)
    BY <2>4, <2>5, CallRests
  <2> HIDE DEF u
  <2>7. Good(nn_sock_zombify(u, o)) /\ Turn(u, nn_sock_zombify(u, o), o)
    BY <2>4, <2>6, SockZombifyStep, SockZombifyTurn DEF Step
  <2> QED
    BY <2>3, <2>4, <2>6, <2>7, TurnRests
<1> QED
  BY <1>1, <1>2

(* The receiver of an event that is not lost has a socket, or is a session *)
(* that is not made yet.                                                   *)
LEMMA ReceiverLives ==
  ASSUME NEW s, Good(s), s.abort = "no", NEW v \in ToEvent, Fits(s, v), ~IsFreed(s, v.to)
  PROVE  \/ SocketOf(s, v.to) \in Socket
         \/ v.to \in Session /\ s.sess[v.to].st = "NONE"
<1>1. CASE v.to \in Session /\ s.sess[v.to].st # "NONE"
  <2>1. ~Blank(s.sess[v.to])
    BY <1>1 DEF IsFreed, Session, Blank
  <2>2. InUse(s.ep[s.sess[v.to].ep]) /\ s.sess[v.to].ep \in Endpoint
    BY <1>1, <2>1, SessOf DEF Good, Life, Housed, HousedAt, SessType
  <2>3. SocketOf(s, v.to) = s.ep[s.sess[v.to].ep].sock
    BY <1>1 DEF SocketOf, Session
  <2> QED
    BY <2>2, <2>3 DEF Good, Life, Owned
<1>2. CASE v.to \in BaseName
  <2>1. PICK e \in Endpoint : v.to = <<"base", e>>
    BY <1>2 DEF BaseName
  <2>2. v.type = "CONNECT"
    BY <2>1 DEF ToEvent, SessEvent, FurtherEvent, EventOf, Session
  <2>3. s.ep[e].st # "FREED" /\ SocketOf(s, v.to) = s.ep[e].sock
    BY <2>1 DEF IsFreed, SocketOf
  <2>4. s.ep[e].kind # "none"
    BY <2>1, <2>2, <2>3 DEF Fits
  <2>5. InUse(s.ep[e])
    BY <2>3, <2>4 DEF Good, Bases, EpFits, InUse
  <2> QED
    BY <2>3, <2>5 DEF Good, Life, Owned
<1> QED
  BY <1>1, <1>2 DEF ToEvent, SessEvent, FurtherEvent, EventOf

(* nn_ctx_leave's delivery of an event leaves its context at rest.         *)
LEMMA DeliverRests ==
  ASSUME Whole(p), AtRest(p), NEW t \in Thread, Deliver(t)
  PROVE  AtRest(p')
<1> DEFINE v == p.hand[t][1]
           u == [p EXCEPT !.hand[t] = <<>>]
           o == SocketOf(p, v.to)
           w == Handle(u, v)
<1>1. /\ v \in ToEvent /\ Fits(u, v) /\ Handed(u, v) /\ Whole(u)
      /\ u.abort = "no" /\ u.events = p.events /\ u.sess = p.sess /\ u.sock = p.sock
      /\ u.ep = p.ep /\ p.abort = "no" /\ o \in Socket \cup {0}
  BY HandedOver
<1>2. p' = IF Lost(v) THEN Abort(p, "event_to_freed") ELSE nn_ctx_leave(w, t, o)
  BY DEF Deliver
<1>3. SocketOf(u, v.to) = o /\ (IsFreed(u, v.to) <=> IsFreed(p, v.to))
  <2> HIDE DEF u, v
  <2> QED
    BY <1>1 DEF SocketOf, IsFreed
<1> HIDE DEF u, v, o
<1>4. AtRest(u) /\ Good(u)
  BY <1>1, RestSame DEF Whole
<1>5. Good(w)
  BY <1>1, <1>4, HandleStep DEF Step
<1>6. CASE Lost(v)
  <2>1. p' = Abort(p, "event_to_freed") /\ p \in ProcType
    BY <1>2, <1>6 DEF Whole, Good
  <2> QED
    BY <2>1, AbortRests DEF Why
<1>7. CASE ~Lost(v) /\ v.to \in Session /\ u.sess[v.to].st = "NONE"
  <2>1. w = nn_sinproc_handler(u, v.to, v)
    BY <1>7 DEF Handle, Session
  <2>2. w = Bad(u)
    BY <1>7, <2>1 DEF nn_sinproc_handler
  <2>3. w.abort # "no"
    BY <1>1, <2>2, AbortParts DEF Bad, Why, Whole, Good
  <2> HIDE DEF w
  <2>4. AtRest(nn_ctx_leave(w, t, o))
    BY <1>1, <1>5, <2>3, LeaveAborted
  <2> QED
    BY <1>2, <1>7, <2>4
<1>8. CASE ~Lost(v) /\ ~(v.to \in Session /\ u.sess[v.to].st = "NONE")
  <2>1. ~IsFreed(u, v.to)
    BY <1>3, <1>8 DEF Lost
  <2>2. o \in Socket
    BY <1>1, <1>3, <1>4, <1>8, <2>1, ReceiverLives
  <2>3. v.type \notin Way
    BY <1>1 DEF ToEvent, SessEvent, FurtherEvent, EventOf, Way
  <2>4. Turn(u, w, o)
    BY <1>1, <1>3, <1>4, <2>3, HandleTurn
  <2> HIDE DEF w
  <2>5. AtRest(nn_ctx_leave(w, t, o))
    BY <1>4, <1>5, <2>2, <2>4, TurnRests
  <2> QED
    BY <1>2, <1>8, <2>5
<1> QED
  BY <1>6, <1>7, <1>8

(* A session whose pipe is in use is of an endpoint in use.                *)
LEMMA PipeHoused ==
  ASSUME NEW s, Good(s), s.abort = "no", Links(s), NEW q \in Session, s.sess[q].pipe = "ACTIVE"
  PROVE  s.sess[q].ep \in Endpoint /\ InUse(s.ep[s.sess[q].ep])
<1>1. s.sess[q].st \notin Early
  BY DEF Links, Link
<1>2. ~Blank(s.sess[q])
  BY <1>1 DEF Early, Blank
<1> QED
  BY <1>2, SessOf DEF Good, Life, Housed, HousedAt, SessType

(* A new endpoint of a socket has no part in what the efds show.           *)
LEMMA NewEpLed ==
  ASSUME NEW s, Good(s), s.abort = "no", s.events = <<>>, NEW o \in Socket, Led(s, o),
         NEW e \in Endpoint, s.ep[e].st = "NONE", NEW kind
  PROVE  Led(EpMade(s, o, e, kind), o)
<1> DEFINE u == EpMade(s, o, e, kind)
           r == nn_ep_init(o, kind)
           k == [s.sock[o] EXCEPT !.eps = @ \cup {e}]
<1>1. s.sock[o] \in SockType /\ s \in ProcType /\ s.ep \in [Endpoint -> EpType]
      /\ s.sock \in [Socket -> SockType]
  BY DEF Good, ProcType
<1>2. /\ u.sess = s.sess /\ u.events = s.events /\ u.abort = s.abort
      /\ u.ep = [s.ep EXCEPT ![e] = r] /\ u.sock = [s.sock EXCEPT ![o] = k]
  <2>1. u = [s EXCEPT !.ep[e] = r, !.sock[o] = k]
    BY <1>1 DEF EpMade, ProcType
  <2> HIDE DEF r, k, u
  <2> QED
    BY <1>1, <2>1 DEF ProcType
<1>3. r.sock = o /\ r.sessions = {}
  BY DEF nn_ep_init
<1>4. /\ k.excl = s.sock[o].excl /\ k.st = s.sock[o].st /\ k.flags = s.sock[o].flags
      /\ k.efd = s.sock[o].efd /\ k.eps = s.sock[o].eps \cup {e}
  BY <1>1 DEF SockType
<1> HIDE DEF u, r, k
<1>5. /\ u.ep[e] = r /\ \A x \in Endpoint \ {e} : u.ep[x] = s.ep[x]
      /\ u.sock[o] = k /\ \A x \in Socket \ {o} : u.sock[x] = s.sock[x]
  BY <1>1, <1>2
<1>6. s.ep[e].sock = 0 /\ 0 \notin Socket
  BY InprocBounds DEF Good, Bases, EpFits, Socket
<1>7. Kin(u)
  BY <1>2, <1>3, <1>4, <1>5, <1>6 DEF Led, Kin
<1>8. Links(u) /\ Heard(u) /\ Local(u, o)
  <2>1. DOMAIN s.events = {}
    OBVIOUS
  <2> QED
    BY <1>2, <2>1 DEF Led, Links, Heard, Local
<1>9. ASSUME NEW x \in Socket PROVE Wired(u, x) /\ (x # o => u.sock[x] = s.sock[x])
  <2> DEFINE q == s.sock[x].excl.pipe
  <2>1. Wired(s, x)
    BY DEF Led, Wires
  <2>2. /\ u.sock[x].excl = s.sock[x].excl
        /\ u.sock[x].st = "ACTIVE" => u.sock[x].flags = u.sock[x].efd
    <3>1. CASE x = o
      BY <1>4, <1>5, <2>1, <3>1 DEF Wired
    <3>2. CASE x # o
      BY <1>5, <2>1, <3>2 DEF Wired
    <3> QED
      BY <3>1, <3>2
  <2>3. q \in Session \cup {None}
    <3>1. s.sock[x].excl \in ExclType
      BY ExclOf DEF Good
    <3> QED
      BY <3>1 DEF ExclType, PipeName
  <2>4. q # None => u.ep[s.sess[q].ep].sock = s.ep[s.sess[q].ep].sock
    <3> SUFFICES ASSUME q # None PROVE u.ep[s.sess[q].ep].sock = s.ep[s.sess[q].ep].sock
      OBVIOUS
    <3>1. s.sess[q].pipe = "ACTIVE"
      BY <2>1 DEF Wired
    <3>2. s.sess[q].ep \in Endpoint /\ InUse(s.ep[s.sess[q].ep])
      BY <2>3, <3>1, PipeHoused DEF Led
    <3> QED
      BY <1>5, <3>2 DEF InUse
  <2>5. /\ Signals(u, q, "IN") <=> Signals(s, q, "IN")
        /\ Signals(u, q, "OUT") <=> Signals(s, q, "OUT")
    BY <1>2 DEF Signals
  <2>6. Wired(u, x)
    BY <1>2, <2>1, <2>2, <2>4, <2>5 DEF Wired
  <2> QED
    BY <1>5, <2>6
<1>10. Wires(u) /\ Rested(u, o)
  <2>1. Rested(u, o)
    <3> SUFFICES ASSUME NEW x \in Socket, x # o, u.sock[x].st = "ACTIVE"
                 PROVE  u.sock[x].flags = nn_xpair_events(u, x)
      BY DEF Rested
    <3>1. u.sock[x] = s.sock[x]
      BY <1>9
    <3>2. nn_xpair_events(u, x) = nn_xpair_events(s, x)
      BY <3>1 DEF nn_xpair_events
    <3> QED
      BY <3>1, <3>2 DEF Led, Rested
  <2> QED
    BY <1>9, <2>1 DEF Wires
<1> QED
  BY <1>7, <1>8, <1>10 DEF Led, u

(* nn_global_create_ep leaves the socket's context at rest.                *)
LEMMA CreateEpRests ==
  ASSUME Whole(p), AtRest(p), NEW t \in Thread, nn_global_create_ep(t)
  PROVE  AtRest(p')
<1> DEFINE o == Target(t)
           e == FirstIn(NewEndpoints)
           kind == p.th[t].call
           u == EpMade(p, o, e, kind)
           w == nn_sock_add_ep(p, o, e, kind)
<1>1. CanEnter(t) /\ ~Closed(t) /\ kind \in {"bind", "connect"} /\ NewEndpoints # {}
      /\ p' = Returned(w, t, o)
  BY DEF nn_global_create_ep, Enters
<1>2. o \in Socket /\ o # 0 /\ InUse(p.sock[o]) /\ p.abort = "no" /\ Good(p)
  BY <1>1, OpenTarget, TargetOf DEF Whole
<1>3. e \in Endpoint /\ p.ep[e].st = "NONE"
  <2>1. NewEndpoints \subseteq Nat
    BY InprocBounds DEF NewEndpoints, Endpoint
  <2>2. e \in NewEndpoints
    BY <1>1, <2>1, FirstInIn
  <2> QED
    BY <2>2 DEF NewEndpoints
<1> HIDE DEF o, e, kind
<1>4. p.events = <<>> /\ Led(p, o)
  BY <1>2, RestLeads
<1>5. Good(w)
  BY <1>1, <1>2, <1>3, SockAddEpStep DEF Step
<1>6. /\ Good(u) /\ u.ep[e].st = "ACTIVE" /\ u.ep[e].kind = kind
      /\ u.sess = p.sess /\ u.abort = p.abort
  BY <1>1, <1>2, <1>3, NewEpStep DEF Step
<1>7. Led(u, o)
  BY <1>2, <1>3, <1>4, NewEpLed
<1>8. p.sess[<<"c", e>>].st = "NONE"
  BY <1>2, <1>3 DEF Good, Life, Unmade
<1>9. w = p \/ Turn(u, w, o)
  <2>1. CASE kind = "bind" /\ p.bound # 0
    BY <2>1 DEF nn_sock_add_ep
  <2>2. CASE kind = "bind" /\ p.bound = 0
    <3>1. w = nn_binproc_create(u, e)
      BY <2>2 DEF nn_sock_add_ep, EpMade
    <3> HIDE DEF u, w
    <3> QED
      BY <1>3, <1>6, <2>2, <3>1, BinprocCreateTurn
  <2>3. CASE kind = "connect"
    <3>1. w = nn_cinproc_create(u, e)
      BY <2>3 DEF nn_sock_add_ep, EpMade
    <3> HIDE DEF u, w
    <3>2. u.sess[<<"c", e>>].st = "NONE"
      BY <1>6, <1>8
    <3> QED
      BY <1>3, <1>6, <2>3, <3>1, <3>2, CinprocCreateTurn
  <2> QED
    BY <1>1, <2>1, <2>2, <2>3
<1> HIDE DEF u, w
<1>10. w.abort = "no" => Led(w, o)
  BY <1>4, <1>7, <1>9 DEF Turn
<1> QED
  BY <1>1, <1>2, <1>5, <1>10, ReturnedRests

(* nn_shutdown, by nn_sock_rm_ep, leaves the socket's context at rest.     *)
LEMMA RmEpRests ==
  ASSUME Whole(p), AtRest(p), NEW t \in Thread, nn_sock_rm_ep(t)
  PROVE  AtRest(p')
<1> DEFINE o == Target(t)
<1>1. CanEnter(t) /\ ~Closed(t)
  BY DEF nn_sock_rm_ep, Enters
<1>2. o \in Socket /\ o # 0 /\ InUse(p.sock[o]) /\ p.abort = "no" /\ Good(p)
  BY <1>1, OpenTarget, TargetOf DEF Whole
<1>3. CASE p' = Returned(p, t, o)
  BY <1>2, <1>3, TurnNot, TurnRests
<1>4. ASSUME NEW e \in p.sock[o].eps,
             p' = Returned(nn_ep_stop([p EXCEPT !.sock[o].eps = @ \ {e},
                                                !.sock[o].sdeps = @ \cup {e}], e), t, o)
      PROVE  AtRest(p')
  <2> HIDE DEF o
  <2> DEFINE k == [p.sock[o] EXCEPT !.eps = @ \ {e}, !.sdeps = @ \cup {e}]
             u == [p EXCEPT !.sock[o] = k]
  <2>1. p.sock[o] \in SockType /\ p \in ProcType
    BY <1>2 DEF Good, ProcType
  <2>2. e \in Endpoint
    BY <2>1 DEF SockType
  <2>3. k \in SockType /\ k.st = p.sock[o].st /\ k.lock = p.sock[o].lock
        /\ k.optset = p.sock[o].optset /\ k.eps \cup k.sdeps = p.sock[o].eps \cup p.sock[o].sdeps
        /\ k.excl = p.sock[o].excl /\ k.flags = p.sock[o].flags /\ k.efd = p.sock[o].efd
        /\ k.eps \subseteq p.sock[o].eps
    BY <2>1, <2>2 DEF SockType
  <2>4. [p EXCEPT !.sock[o].eps = @ \ {e}, !.sock[o].sdeps = @ \cup {e}] = u
    BY <1>2, <2>1 DEF ProcType
  <2>5. u.ep = p.ep
    BY <2>1 DEF ProcType
  <2> HIDE DEF k
  <2>6. SameOwner(p, p.sock[o], k)
    BY <2>3, <1>2 DEF SameOwner, InUse
  <2>7. Step(p, u)
    BY <2>1, <2>3, <2>6, <1>2, SockStep
  <2>8. Turn(p, u, o)
    BY <1>2, <2>3, SockTurn
  <2> HIDE DEF u
  <2>9. p.ep[e].sock = o
    BY <1>2, RestLeads DEF Led, Kin
  <2>10. Good(nn_ep_stop(u, e)) /\ Turn(u, nn_ep_stop(u, e), o)
    BY <2>2, <2>5, <2>7, <2>9, EpStopStep, EpStopTurn DEF Step
  <2>11. Turn(p, nn_ep_stop(u, e), o)
    BY <2>8, <2>10, TurnTwice
  <2> QED
    BY <1>2, <1>4, <2>4, <2>10, <2>11, TurnRests
<1> QED
  BY <1>3, <1>4 DEF nn_sock_rm_ep

(* A socket that changes in what the efds do not show.                     *)
LEMMA SockRests ==
  ASSUME NEW s, Good(s), AtRest(s), NEW o \in Socket, NEW k \in SockType,
         k.excl = s.sock[o].excl, k.eps \subseteq s.sock[o].eps,
         k.st = "ACTIVE" => /\ s.sock[o].st = "ACTIVE" /\ k.flags = s.sock[o].flags
                            /\ k.efd = s.sock[o].efd
  PROVE  AtRest([s EXCEPT !.sock[o] = k])
<1> DEFINE u == [s EXCEPT !.sock[o] = k]
<1>1. Turn(s, u, 0)
  BY SockTurn
<1>2. u.events = s.events /\ u.abort = s.abort
  BY DEF Good, ProcType
<1> HIDE DEF u
<1>3. AtRest(u)
  BY <1>1, <1>2 DEF Turn, AtRest
<1> QED
  BY <1>3 DEF u

(* nn_setsockopt up to the transport's options shows nothing.              *)
LEMMA SetoptRests ==
  ASSUME Whole(p), AtRest(p), NEW t \in Thread, nn_sock_setopt(t)
  PROVE  AtRest(p')
<1> DEFINE o == Target(t)
<1>1. CanEnter(t) /\ ~Closed(t) /\ p.th[t].call = "setsockopt"
  BY DEF nn_sock_setopt, Enters
<1>2. o \in Socket /\ o # 0 /\ InUse(p.sock[o]) /\ p.th[t] \in CallType /\ Good(p)
  BY <1>1, OpenTarget, CallOf DEF Whole
<1>3. CASE p' = Returned(p, t, o)
  BY <1>2, <1>3, TurnNot, TurnRests
<1>4. CASE p' = [p EXCEPT !.sock[o].lock = t, !.th[t] = [@ EXCEPT !.at = "transport", !.o = o]]
  <2> DEFINE k == [p.sock[o] EXCEPT !.lock = t]
             u == [p EXCEPT !.sock[o] = k]
             c == [p.th[t] EXCEPT !.at = "transport", !.o = o]
  <2> HIDE DEF o
  <2>1. p.sock[o] \in SockType /\ p \in ProcType
    BY <1>2 DEF Good, ProcType
  <2>2. k \in SockType /\ k.st = p.sock[o].st /\ k.eps = p.sock[o].eps /\ k.sdeps = p.sock[o].sdeps
        /\ k.excl = p.sock[o].excl /\ k.flags = p.sock[o].flags /\ k.efd = p.sock[o].efd
    BY <2>1 DEF SockType
  <2>3. c \in CallType
    BY <1>1, <1>2 DEF CallType
  <2>4. p' = [u EXCEPT !.th[t] = c]
    BY <1>4, <2>1 DEF ProcType
  <2> HIDE DEF k, c
  <2>5. SameOwner(p, p.sock[o], k)
    BY <1>2, <2>1, <2>2, SameOwnerKept DEF InUse
  <2>6. Whole(u)
    BY <1>2, <2>2, <2>5, SockWhole
  <2>7. AtRest(u)
    BY <1>2, <2>2, SockRests
  <2> HIDE DEF u
  <2> QED
    BY <2>3, <2>4, <2>6, <2>7, CallRests DEF Whole
<1> QED
  BY <1>3, <1>4 DEF nn_sock_setopt

(* nn_sock_optset leaves the socket's context at rest.                     *)
LEMMA OptsetRests ==
  ASSUME Whole(p), AtRest(p), NEW t \in Thread, nn_sock_optset(t)
  PROVE  AtRest(p')
<1> DEFINE o == p.th[t].o
           k == [p.sock[o] EXCEPT !.optset = TRUE, !.lock = NoThread]
           u == [p EXCEPT !.sock[o] = k]
<1>1. p.th[t] \in CallType /\ CallFits(p, t) /\ p.th[t].at = "transport"
      /\ p \in ProcType /\ Good(p)
  BY CallOf DEF nn_sock_optset, CanLockGlobal, Running
<1>2. o \in Socket
  BY <1>1 DEF CallFits, CallType
<1>3. p' = Returned([p EXCEPT !.sock[o].optset = TRUE, !.sock[o].lock = NoThread], t, o)
  BY DEF nn_sock_optset
<1> HIDE DEF o
<1>4. p.sock[o] \in SockType
  BY <1>1, <1>2 DEF ProcType
<1>5. k \in SockType /\ k.st = p.sock[o].st /\ k.eps = p.sock[o].eps /\ k.sdeps = p.sock[o].sdeps
      /\ k.excl = p.sock[o].excl /\ k.flags = p.sock[o].flags /\ k.efd = p.sock[o].efd
  BY <1>4 DEF SockType
<1>6. [p EXCEPT !.sock[o].optset = TRUE, !.sock[o].lock = NoThread] = u
  BY <1>1, <1>2 DEF ProcType
<1> HIDE DEF k
<1>7. SameOwner(p, p.sock[o], k)
  BY <1>1, <1>2, <1>5, SameOwnerKept DEF InUse
<1>8. Whole(u) /\ Turn(p, u, o)
  BY <1>1, <1>2, <1>5, <1>7, SockWhole, SockTurn
<1> HIDE DEF u
<1> QED
  BY <1>2, <1>3, <1>6, <1>8, TurnRests DEF Whole

(* nn_close up to its wait leaves the socket's context at rest.            *)
LEMMA SockTermRests ==
  ASSUME Whole(p), AtRest(p), NEW t \in Thread, nn_sock_term(t)
  PROVE  AtRest(p')
<1> DEFINE o == Target(t)
           c == [p.th[t] EXCEPT !.at = "sem", !.o = o]
           u == [p EXCEPT !.th[t] = c]
<1>1. CanEnter(t) /\ ~Closed(t) /\ p' = nn_ctx_leave(nn_sock_stop(u, o), t, o)
  BY DEF nn_sock_term, Enters
<1>2. o \in Socket /\ p.th[t] \in CallType /\ Good(p)
  BY <1>1, OpenTarget, CallOf DEF Whole
<1> HIDE DEF o
<1>3. c \in CallType
  BY <1>2 DEF CallType
<1> HIDE DEF c
<1>4. Good(u) /\ AtRest(u)
  BY <1>2, <1>3, CallRests
<1> HIDE DEF u
<1>5. Good(nn_sock_stop(u, o)) /\ Turn(u, nn_sock_stop(u, o), o)
  BY <1>2, <1>4, SockStopStep, SockStopTurn DEF Step
<1> QED
  BY <1>1, <1>2, <1>4, <1>5, TurnRests

-----------------------------------------------------------------------------
(* nn_send and nn_recv                                                     *)

(* After a poll the flags of an open socket are what its efds are.         *)
LEMMA CheckedRests ==
  ASSUME Whole(p), AtRest(p), NEW t \in Thread, Target(t) \in Socket, InUse(p.sock[Target(t)]),
         p.abort = "no"
  PROVE  Good(Checked(t)) /\ AtRest(Checked(t)) /\ Checked(t).abort = "no"
         /\ Checked(t).th[t] \in CallType
<1> DEFINE o == Target(t)
           k == [p.sock[o] EXCEPT !.flags = @ \cup {WayOf(t)}]
           u == [p EXCEPT !.sock[o] = k]
<1>1. \/ Checked(t) = p
      \/ /\ Checked(t) = [p EXCEPT !.sock[o].flags = @ \cup {WayOf(t)}]
         /\ WayOf(t) \in p.sock[o].efd
  BY DEF Checked
<1>2. Good(Checked(t)) /\ Checked(t).th = p.th /\ p.th[t] \in CallType
  BY CheckedWhole, CallOf DEF Whole
<1>3. p.sock[o] \in SockType /\ p \in ProcType /\ Good(p) /\ o \in Socket
  BY DEF Whole, Good, ProcType
<1> HIDE DEF o
<1>4. CASE Checked(t) = p
  BY <1>2, <1>4
<1>5. CASE Checked(t) = [p EXCEPT !.sock[o].flags = @ \cup {WayOf(t)}]
           /\ WayOf(t) \in p.sock[o].efd
  <2>1. WayOf(t) \in Way
    BY DEF WayOf, Way
  <2>2. k \in SockType /\ k.st = p.sock[o].st /\ k.eps = p.sock[o].eps
        /\ k.excl = p.sock[o].excl /\ k.efd = p.sock[o].efd
        /\ k.flags = p.sock[o].flags \cup {WayOf(t)}
    BY <1>3, <2>1 DEF SockType
  <2>3. p.sock[o].st = "ACTIVE" => p.sock[o].flags = p.sock[o].efd
    BY <1>3 DEF AtRest, Led, Wires, Wired
  <2>4. Checked(t) = u /\ u.abort = p.abort
    BY <1>3, <1>5 DEF ProcType
  <2> HIDE DEF k
  <2>5. k.st = "ACTIVE" => k.flags = p.sock[o].flags
    BY <1>5, <2>2, <2>3
  <2>6. AtRest(u)
    BY <1>3, <2>2, <2>5, SockRests
  <2> QED
    BY <1>2, <2>4, <2>6
<1> QED
  BY <1>1, <1>4, <1>5

(* A call that cannot go on waits or returns EAGAIN.                       *)
LEMMA TryAgainRests ==
  ASSUME NEW s, Good(s), AtRest(s), NEW t \in Thread, s.th[t] \in CallType, NEW o \in Socket
  PROVE  AtRest(TryAgain(s, t, o))
<1> DEFINE c == [s.th[t] EXCEPT !.at = "poll", !.o = o]
           u == [s EXCEPT !.th[t] = c]
<1>1. c \in CallType
  BY DEF CallType
<1>2. TryAgain(s, t, o) \in {nn_ctx_leave(u, t, o), Returned(s, t, o)}
  BY DEF TryAgain
<1> HIDE DEF c
<1>3. Good(u) /\ AtRest(u)
  BY <1>1, CallRests
<1> HIDE DEF u
<1> QED
  BY <1>2, <1>3, TurnNot, TurnRests

(* nn_sock_send leaves the socket's context at rest.                       *)
LEMMA SendRests ==
  ASSUME Whole(p), AtRest(p), NEW t \in Thread, nn_sock_send(t)
  PROVE  AtRest(p')
<1> DEFINE o == Target(t)
           s == Checked(t)
           c == [s.th[t] EXCEPT !.at = "sent"]
           u == [s EXCEPT !.th[t] = c]
           w == nn_excl_send(u, o)
<1>1. CanEnter(t) /\ ~Closed(t)
  BY DEF nn_sock_send, Enters
<1>2. o \in Socket /\ InUse(p.sock[o]) /\ p.abort = "no"
  BY <1>1, OpenTarget, TargetOf
<1>3. Good(s) /\ AtRest(s) /\ s.abort = "no" /\ s.th[t] \in CallType
  BY <1>2, CheckedRests
<1>4. \/ p' = Returned(s, t, o) \/ p' = Abort(s, "uses_closed_protocol")
      \/ p' = TryAgain(s, t, o)
      \/ s.sock[o].excl.outpipe # None /\ p' = nn_ctx_leave(w, t, o)
  <2>1. u = WithThread(s, t, "sent")
    BY DEF WithThread
  <2> HIDE DEF o, s, u
  <2> QED
    BY <2>1 DEF nn_sock_send, o, s
<1> HIDE DEF o, s
<1>5. c \in CallType
  BY <1>3 DEF CallType
<1> HIDE DEF c
<1>6. Good(u) /\ AtRest(u) /\ u.abort = "no" /\ u.sock = s.sock
  BY <1>3, <1>5, CallRests
<1> HIDE DEF u
<1>7. CASE p' = Returned(s, t, o)
  BY <1>2, <1>3, <1>7, TurnNot, TurnRests
<1>8. CASE p' = Abort(s, "uses_closed_protocol")
  BY <1>3, <1>8, AbortRests DEF Why, Good
<1>9. CASE p' = TryAgain(s, t, o)
  BY <1>2, <1>3, <1>9, TryAgainRests
<1>10. CASE s.sock[o].excl.outpipe # None /\ p' = nn_ctx_leave(w, t, o)
  <2>1. u.events = <<>>
    BY <1>6 DEF AtRest
  <2>2. Good(w) /\ Turn(u, w, o)
    BY <1>2, <1>6, <1>10, <2>1, ExclSendStep, ExclSendTurn DEF Step
  <2> HIDE DEF w
  <2> QED
    BY <1>2, <1>6, <1>10, <2>2, TurnRests
<1> QED
  BY <1>4, <1>7, <1>8, <1>9, <1>10

(* nn_sock_recv leaves the socket's context at rest.                       *)
LEMMA RecvRests ==
  ASSUME Whole(p), AtRest(p), NEW t \in Thread, nn_sock_recv(t)
  PROVE  AtRest(p')
<1> DEFINE o == Target(t)
           s == Checked(t)
           w == nn_excl_recv(s, o)
<1>1. CanEnter(t) /\ ~Closed(t)
  BY DEF nn_sock_recv, Enters
<1>2. o \in Socket /\ InUse(p.sock[o]) /\ p.abort = "no"
  BY <1>1, OpenTarget, TargetOf
<1>3. Good(s) /\ AtRest(s) /\ s.abort = "no" /\ s.th[t] \in CallType
  BY <1>2, CheckedRests
<1>4. \/ p' = Returned(s, t, o) \/ p' = Abort(s, "uses_closed_protocol")
      \/ p' = TryAgain(s, t, o)
      \/ s.sock[o].excl.inpipe # None /\ p' = Returned(w, t, o)
  <2> HIDE DEF o, s, w
  <2> QED
    BY DEF nn_sock_recv, o, s, w
<1> HIDE DEF o, s
<1>5. CASE p' = Returned(s, t, o)
  BY <1>2, <1>3, <1>5, TurnNot, TurnRests
<1>6. CASE p' = Abort(s, "uses_closed_protocol")
  BY <1>3, <1>6, AbortRests DEF Why, Good
<1>7. CASE p' = TryAgain(s, t, o)
  BY <1>2, <1>3, <1>7, TryAgainRests
<1>8. CASE s.sock[o].excl.inpipe # None /\ p' = Returned(w, t, o)
  <2>1. s.events = <<>>
    BY <1>3 DEF AtRest
  <2>2. Good(w) /\ Turn(s, w, o)
    BY <1>2, <1>3, <1>8, <2>1, ExclRecvStep, ExclRecvTurn DEF Step
  <2> HIDE DEF w
  <2> QED
    BY <1>2, <1>3, <1>8, <2>2, TurnRests
<1> QED
  BY <1>4, <1>5, <1>6, <1>7, <1>8

(* A socket without pipe and endpoints.                                    *)
LEMMA SockReset ==
  ASSUME NEW s, s.sock \in [Socket -> SockType], AtRest(s), NEW u, NEW o \in Socket, NEW k,
         u.events = s.events, u.abort = s.abort, u.sess = s.sess, u.ep = s.ep,
         u.sock = [s.sock EXCEPT ![o] = k],
         k.excl = nn_excl_init, k.eps = {}, k.flags = {}, k.efd = {}
  PROVE  AtRest(u)
<1> SUFFICES ASSUME u.abort = "no" PROVE u.events = <<>> /\ Led(u, 0)
  BY DEF AtRest
<1>1. s.events = <<>> /\ Led(s, 0)
  BY DEF AtRest
<1>2. u.sock[o] = k /\ \A x \in Socket \ {o} : u.sock[x] = s.sock[x]
  OBVIOUS
<1>3. k.excl.pipe = None /\ k.excl.inpipe = None /\ k.excl.outpipe = None
  BY DEF nn_excl_init
<1>4. Links(u) /\ Heard(u) /\ Local(u, 0) /\ Kin(u)
  BY <1>1, <1>2 DEF Led, Links, Heard, Local, OwnHome, Kin
<1>5. ASSUME NEW x \in Socket
      PROVE  Wired(u, x) /\ (u.sock[x].st = "ACTIVE" => u.sock[x].flags = nn_xpair_events(u, x))
  <2>1. CASE x = o
    <3>1. Wired(u, x)
      BY <1>2, <1>3, <2>1 DEF Wired
    <3> QED
      BY <1>2, <1>3, <2>1, <3>1 DEF nn_xpair_events
  <2>2. CASE x # o
    <3> DEFINE q == s.sock[x].excl.pipe
    <3>1. Wired(s, x) /\ u.sock[x] = s.sock[x]
      BY <1>1, <1>2, <2>2 DEF Led, Wires
    <3>2. /\ Signals(u, q, "IN") <=> Signals(s, q, "IN")
          /\ Signals(u, q, "OUT") <=> Signals(s, q, "OUT")
      BY DEF Signals
    <3>3. Wired(u, x)
      BY <3>1, <3>2 DEF Wired
    <3>4. nn_xpair_events(u, x) = nn_xpair_events(s, x)
      BY <3>1 DEF nn_xpair_events
    <3>5. x # 0
      BY InprocBounds DEF Socket
    <3> QED
      BY <1>1, <3>1, <3>3, <3>4, <3>5 DEF Led, Rested
  <2> QED
    BY <2>1, <2>2
<1>6. Wires(u) /\ Rested(u, 0)
  BY <1>5 DEF Wires, Rested
<1> QED
  BY <1>1, <1>4, <1>6 DEF Led

(* nn_global_create_socket: a new socket shows nothing.                    *)
LEMMA SocketRests ==
  ASSUME Whole(p), AtRest(p), NEW t \in Thread, nn_socket(t)
  PROVE  AtRest(p')
<1> DEFINE new == {o \in Socket : p.sock[o].st = "NONE"}
           o == FirstIn(new)
           i == p.unused[MaxSlots - p.nsocks]
<1>1. p' = [p EXCEPT !.sock[o] = NewSocket, !.nsocks = @ + 1, !.table[i] = o]
  BY DEF nn_socket, nn_global_create_socket
<1>2. o \in Socket
  <2>1. new # {} /\ new \subseteq Nat
    BY InprocBounds DEF Socket, nn_socket
  <2>2. o \in new
    BY <2>1, FirstInIn
  <2> QED
    BY <2>2
<1> HIDE DEF o, i
<1>3. /\ p'.events = p.events /\ p'.abort = p.abort /\ p'.sess = p.sess /\ p'.ep = p.ep
      /\ p'.sock = [p.sock EXCEPT ![o] = NewSocket] /\ p.sock \in [Socket -> SockType]
  BY <1>1 DEF Whole, Good, ProcType
<1>4. /\ NewSocket.excl = nn_excl_init /\ NewSocket.eps = {} /\ NewSocket.flags = {}
      /\ NewSocket.efd = {}
  BY DEF NewSocket
<1> QED
  BY <1>2, <1>3, <1>4, SockReset

(* The end of nn_close shows nothing.                                      *)
LEMMA SemPostedRests ==
  ASSUME Whole(p), AtRest(p), NEW t \in Thread, SemPosted(t)
  PROVE  AtRest(p')
<1>1. CASE p' = Bad(p)
  BY <1>1, AbortRests DEF Bad, Why, Whole, Good
<1>2. ASSUME NEW o \in Socket, NEW i \in SlotNumber, NEW U,
             Whole(FreedIn(WithThread(p, t, "return"), o, i, U)),
             p' \in {Settled(FreedIn(WithThread(p, t, "return"), o, i, U), t),
                     Settled(Bad(FreedIn(WithThread(p, t, "return"), o, i, U)), t)}
      PROVE  AtRest(p')
  <2> DEFINE s == WithThread(p, t, "return")
             k == [NewSocket EXCEPT !.st = "FREED"]
             w == FreedIn(s, o, i, U)
  <2>1. /\ w.events = p.events /\ w.abort = p.abort /\ w.sess = p.sess /\ w.ep = p.ep
        /\ w.sock = [p.sock EXCEPT ![o] = k] /\ p.sock \in [Socket -> SockType]
    <3>1. s \in ProcType /\ s.events = p.events /\ s.abort = p.abort /\ s.sess = p.sess
          /\ s.ep = p.ep /\ s.sock = p.sock
      <4>1. p.th[t] \in CallType /\ p \in ProcType
        BY CallOf
      <4> DEFINE c == [p.th[t] EXCEPT !.at = "return"]
      <4>2. s = [p EXCEPT !.th[t] = c] /\ c \in CallType
        BY <4>1 DEF WithThread, CallType
      <4> HIDE DEF c, s
      <4> QED
        BY <4>1, <4>2 DEF ProcType
    <3> HIDE DEF s, k
    <3> QED
      BY <3>1 DEF FreedIn, ProcType, k
  <2>2. k.excl = nn_excl_init /\ k.eps = {} /\ k.flags = {} /\ k.efd = {}
    BY DEF NewSocket
  <2> HIDE DEF w, k
  <2>3. AtRest(w)
    BY <2>1, <2>2, SockReset
  <2>4. w \in ProcType /\ Bad(w) \in ProcType
    BY <1>2, AbortWhole DEF w, Bad, Why, Whole, Good
  <2>5. AtRest(Bad(w))
    BY <2>4, AbortRests DEF Bad, Why
  <2>6. AtRest(Settled(w, t)) /\ AtRest(Settled(Bad(w), t))
    BY <2>3, <2>4, <2>5, SettledRests
  <2> QED
    BY <1>2, <2>6 DEF w
<1> QED
  BY <1>1, <1>2, SemPostedEnds

-----------------------------------------------------------------------------
(* The initial states are at rest: no socket, nothing to show.             *)
LEMMA InitRests == ASSUME Init PROVE AtRest(p)
<1> DEFINE k == [NewSocket EXCEPT !.st = "NONE"]
           r(q) == [NewSession(q[2]) EXCEPT !.st = "NONE"]
<1>1. /\ p.events = <<>> /\ p.sess = [q \in Session |-> r(q)] /\ p.sock = [o \in Socket |-> k]
      /\ \A e \in Endpoint : p.ep[e].sessions = {}
  BY DEF Init
<1>2. \A q \in Session : Link(p.sess[q])
  <2> SUFFICES ASSUME NEW q \in Session PROVE Link(p.sess[q])
    OBVIOUS
  <2>1. r(q).pipe = "IDLE" /\ r(q).queue = <<>> /\ ~r(q).sending
    BY DEF NewSession, nn_pipebase_init, nn_msgqueue_init
  <2> HIDE DEF r
  <2> QED
    BY <1>1, <2>1 DEF Link
<1>3. k.excl = nn_excl_init /\ k.eps = {} /\ k.st = "NONE"
  BY DEF NewSocket
<1> HIDE DEF r, k
<1>4. \A x \in Socket : p.sock[x] = k
  BY <1>1
<1>5. \A x \in Socket : Wired(p, x) /\ p.sock[x].st # "ACTIVE"
  <2> SUFFICES ASSUME NEW x \in Socket PROVE Wired(p, x) /\ p.sock[x].st # "ACTIVE"
    OBVIOUS
  <2>1. nn_excl_init.pipe = None /\ nn_excl_init.inpipe = None /\ nn_excl_init.outpipe = None
    BY DEF nn_excl_init
  <2>2. p.sock[x].excl = nn_excl_init /\ p.sock[x].st = "NONE"
    BY <1>3, <1>4
  <2> QED
    BY ONLY <2>1, <2>2 DEF Wired
<1>6. Links(p) /\ Heard(p) /\ Local(p, 0) /\ Kin(p)
  BY <1>1, <1>2, <1>3, <1>4 DEF Links, Heard, Local, Kin
<1>7. Wires(p) /\ Rested(p, 0)
  BY <1>5 DEF Wires, Rested
<1> QED
  BY <1>1, <1>6, <1>7 DEF AtRest, Led

(* Every start of a call leaves all at rest.                               *)
LEMMA StartsRests ==
  ASSUME Whole(p), AtRest(p), NEW t \in Thread, Starts(t)
  PROVE  AtRest(p')
<1>1. CASE nn_socket(t)
  BY <1>1, SocketRests
<1>2. CASE nn_term(t)
  BY <1>2, MovesRest
<1>3. ASSUME NEW i \in SlotNumber,
             \/ nn_bind(t, i) \/ nn_connect(t, i) \/ nn_close(t, i) \/ nn_shutdown(t, i)
             \/ nn_setsockopt(t, i)
             \/ \E wait \in BOOLEAN : nn_send(t, i, wait) \/ nn_recv(t, i, wait)
      PROVE  AtRest(p')
  <2>1. \E call \in Calls, at \in {"glock", "enter"}, wait \in BOOLEAN : Begin(t, i, call, at, wait)
    BY <1>3 DEF nn_bind, nn_connect, nn_close, nn_shutdown, nn_setsockopt, nn_send, nn_recv, Calls
  <2> QED
    BY <2>1, MovesRest
<1> QED
  BY <1>1, <1>2, <1>3 DEF Starts

(* Every action of NnGlobal leaves all at rest.                            *)
LEMMA NextRests == ASSUME Whole(p), AtRest(p), [Next]_p PROVE AtRest(p')
<1>1. ASSUME NEW t \in Thread, Locks(t) PROVE AtRest(p')
  BY <1>1, DeliverRests, MovesRest, ZombifyRests, EnterClosedRests, CreateEpRests, RmEpRests,
     SetoptRests, OptsetRests, SendRests, RecvRests, SockTermRests, SemPostedRests DEF Locks
<1>2. ASSUME NEW t \in Thread, RunsOn(t) PROVE AtRest(p')
  BY <1>2, MovesRest DEF RunsOn
<1>3. CASE UNCHANGED p
  BY <1>3
<1> QED
  BY <1>1, <1>2, <1>3, StartsRests, InterruptedRests DEF Next

(* The efds at rest are ReadyIsSignalled's.                                *)
LEMMA SignalsOfRest == ASSUME AtRest(p) PROVE ReadyIsSignalled
<1> SUFFICES ASSUME p.abort = "no", NEW o \in Socket, p.sock[o].st = "ACTIVE"
             PROVE  LET q == p.sock[o].excl.pipe IN
                    IF q = None THEN p.sock[o].efd = {}
                    ELSE /\ "IN" \in p.sock[o].efd <=> p.sess[q].queue # <<>>
                         /\ "OUT" \in p.sock[o].efd <=> ~p.sess[q].sending
  BY DEF ReadyIsSignalled
<1> DEFINE q == p.sock[o].excl.pipe
           x == p.sock[o].excl
           f == p.sock[o].efd
<1>1. p.events = <<>> /\ Led(p, o)
  BY RestLeads
<1>2. Wired(p, o) /\ f = nn_xpair_events(p, o)
  <2>1. Wired(p, o) /\ p.sock[o].flags = nn_xpair_events(p, o)
    <3>1. o # 0
      BY InprocBounds DEF Socket
    <3> QED
      BY <3>1 DEF AtRest, Led, Wires, Rested
  <2> QED
    BY <2>1 DEF Wired
<1>3. ("IN" \in f <=> x.inpipe # None) /\ ("OUT" \in f <=> x.outpipe # None)
      /\ (x.inpipe = None /\ x.outpipe = None => f = {})
  BY <1>2 DEF nn_xpair_events
<1>4. ~Signals(p, q, "IN") /\ ~Signals(p, q, "OUT")
  BY <1>1 DEF Signals
<1>5. x.inpipe \in {None, q} /\ x.outpipe \in {None, q}
  BY <1>2 DEF Wired
<1>6. CASE q = None
  BY <1>3, <1>5, <1>6
<1>7. CASE q # None
  <2>1. /\ p.sess[q].queue # <<>> <=> x.inpipe = q
        /\ ~p.sess[q].sending <=> x.outpipe = q
    BY <1>2, <1>4, <1>7, Zenon DEF Wired
  <2>2. (x.inpipe = q <=> x.inpipe # None) /\ (x.outpipe = q <=> x.outpipe # None)
    BY <1>5, <1>7
  <2> HIDE DEF f, x, q
  <2> QED
    BY <1>3, <1>7, <2>1, <2>2, Zenon DEF f, x, q
<1> QED
  BY <1>6, <1>7

(* A socket that a thread polls shows what it can do: its efds are         *)
(* signalled when, and only when, a message waits or one can be sent       *)
(* (nn_sock_onleave of sock.c, nn_excl and nn_pipebase of the pair).       *)
THEOREM SignalledRight == Spec => []ReadyIsSignalled
<1>1. Init => AtRest(p)
  BY InitRests
<1>2. Whole(p) /\ AtRest(p) /\ [Next]_p => AtRest(p)'
  BY NextRests
<1>3. AtRest(p) => ReadyIsSignalled
  BY SignalsOfRest
<1> QED
  BY AlwaysWhole, <1>1, <1>2, <1>3, PTL DEF Spec
=============================================================================
