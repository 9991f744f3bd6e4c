--------------------------- MODULE RequestSocket ----------------------------
(***************************************************************************)
(* A nanomsg REQ socket as its user may rely on it: a request is run by    *)
(* the peer at least once if it is answered, and an answer is one to the   *)
(* newest request.  A request the user has stopped waiting for stays in    *)
(* the socket until the next one replaces it, so the next connection may   *)
(* send it again; copies of older ones may still be on their way to the    *)
(* peer on connections that are already closed.                            *)
(***************************************************************************)
EXTENDS Integers

CONSTANTS
  NoRequest,  \* the socket holds no request
  NoAnswer    \* nothing has come back

(* held: the newest request; late: older ones that were never answered.     *)
NewSocket ==
  [held |-> NoRequest, waiting |-> FALSE, answer |-> NoAnswer, late |-> {}]

(* A new request replaces the one the socket holds.                         *)
Submitted(s, m) ==
  [held |-> m, waiting |-> TRUE, answer |-> NoAnswer,
   late |-> s.late \cup ({s.held} \ {NoRequest})]

(* The requests the peer may run now.                                       *)
Runnable(s) ==
  s.late \cup (IF s.answer = NoAnswer THEN {s.held} \ {NoRequest} ELSE {})

(* The sockets after the peer has run m and answered a, where m2 is what m  *)
(* is to be called from now on: the answer may be lost with the connection, *)
(* and a late request may have another copy.                                *)
Answered(s, m, m2, a) ==
  IF m = s.held
  THEN {[s EXCEPT !.held = m2]} \cup
       {[s EXCEPT !.held = m2, !.answer = a] : x \in {TRUE} \cap {s.waiting}}
  ELSE {[s EXCEPT !.late = (@ \ {m}) \cup copies] : copies \in SUBSET {m2}}

Ready(s) == s.waiting /\ s.answer # NoAnswer

(* The user takes the answer: the socket is done with its request.          *)
Taken(s) == [s EXCEPT !.held = NoRequest, !.waiting = FALSE, !.answer = NoAnswer]

(* The user stops waiting.                                                  *)
GivenUp(s) == [s EXCEPT !.waiting = FALSE]

(* The peer process ends; what it had not run is lost with its connections. *)
PeerLost(s) == [s EXCEPT !.late = {}]
=============================================================================
