------------------------ MODULE NnReqRepProperties --------------------------
(***************************************************************************)
(* What nanomsg's request/reply sockets achieve over connections that      *)
(* break.                                                                  *)
(***************************************************************************)
EXTENDS NnReqRep

(* ReqRepTypeOK: the types of the sockets' variables.                       *)
ReqRepTypeOK ==
  /\ PipesTypeOK
  /\ req \in [Client -> [state : ReqStates, id : Nat, reply : Nat,
                         sent_to : {NoPipe} \cup Conn,
                         timer : {"idle", "active", "stopping"}]]
  /\ \A c \in Client : req[c].reply <= req[c].id /\ req[c].id <= MaxRequests[c]
  /\ lb \in [Client -> Seq(Conn)]
  /\ fq \in Seq(Conn)
  /\ serving = None \/ serving \in Conn \X Message
  /\ ran \subseteq Message

(* NoBadAction: no event reaches nn_req's state machine in a state that     *)
(* does not expect it (nn_fsm_bad_action, req.c:361-615), whatever order    *)
(* the user, the timer and the pipes come in; the timer is never started    *)
(* while it still runs (timer.c:78), a request is sent without delay only   *)
(* when a pipe can take it (req.c:637).                                     *)
NoBadAction == \A c \in Client : req[c].state # "bad"

(* TimerFits: a request is on its way with its timer running and the pipe   *)
(* it was sent to known, and otherwise neither is there: the removal of a   *)
(* pipe reaches the state machine only while it waits for that pipe         *)
(* (req.c:667-676).                                                         *)
TimerFits ==
  \A c \in Client :
    /\ Is(c, {"ACTIVE"}) <=> req[c].timer = "active"
    /\ req[c].sent_to \in IF Is(c, {"ACTIVE"}) THEN Conns(c) ELSE {NoPipe}
    /\ Is(c, {"TIMED_OUT", "CANCELLING", "STOPPING_TIMER", "STOPPING"})
         <=> req[c].timer = "stopping"

(* DoneHoldsReply: "In DONE state the reply is stored in 'reply' field."    *)
(* (req.c:228) - the reply to the newest request, which has been run, and   *)
(* not the reply to one that was cancelled, late as that may come.          *)
DoneHoldsReply ==
  \A c \in Client :
    Is(c, {"DONE"})
      => req[c].reply = req[c].id /\ <<c, req[c].id>> \in ran

(* OwnReplies: a reply travels on a connection of the client that asked,    *)
(* however many clients' requests wait (xrep.c:154-187).                    *)
OwnReplies ==
  \A k \in Conn : \A i \in DOMAIN conn[k].down :
    conn[k].down[i][1] = conn[k].client

Phase(c) ==
  CASE Is(c, {"PASSIVE"})                  -> "none"
    [] Is(c, {"DONE", "STOPPING_TIMER"})   -> "answered"
    [] Is(c, {"STOPPING", "IDLE"})         -> "closed"
    [] OTHER                               -> "waiting"

Promise == INSTANCE AtLeastOnce WITH
  newest <- [c \in Client |-> req[c].id],
  phase  <- [c \in Client |-> Phase(c)]

(* AnswersAtLeastOnce: the sockets implement AtLeastOnce.                   *)
AnswersAtLeastOnce == Promise!Spec

(* RequestsAnswered: a request is answered in the end, unless its user      *)
(* replaces it or closes the socket, although connections break, replies    *)
(* are dropped and requests get lost (req.c:361-615).                       *)
RequestsAnswered ==
  \A c \in Client : \A n \in 1 .. MaxRequests[c] :
    (req[c].id = n /\ Phase(c) = "waiting")
      ~> (Phase(c) \in {"answered", "closed"} \/ req[c].id # n)
=============================================================================
