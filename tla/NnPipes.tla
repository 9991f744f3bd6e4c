------------------------------ MODULE NnPipes -------------------------------
(***************************************************************************)
(* The connections between nanomsg REQ sockets and a REP socket, each with *)
(* a pipe object at both ends (core/pipe.c).  A message that is sent is on *)
(* its way in `up' (to REP) or `down' (to REQ) until the other end's pipe  *)
(* has received it and gives it to its socket.                             *)
(*                                                                         *)
(* Everything a socket does in one visit of its context (core/ctx: a call  *)
(* of the user or one event of the worker thread, with the events it       *)
(* raises) is one action.                                                  *)
(***************************************************************************)
EXTENDS Integers, Sequences

CONSTANTS
  Client,       \* the REQ sockets
  NoClient,
  MaxConns,     \* connections ever made (a bound)
  MaxEndpoints, \* endpoints of a REQ socket: connections it has at a time
  MaxFlight,    \* messages that fit into a connection each way (a bound)
  MaxRequests,  \* how many requests each user makes (a bound)
  MaxFaults     \* broken connections, dropped or untimely steps (a bound)

ASSUME PipeBounds ==
  /\ {MaxConns, MaxEndpoints, MaxFlight} \subseteq Nat \ {0}
  /\ MaxRequests \in [Client -> Nat]
  /\ MaxFaults \in Nat
ASSUME NoClientIsNone == NoClient \notin Client

Conn == 1 .. MaxConns

VARIABLES
  conn,    \* the connections
  faults   \* how many faults there have been

(* atReq, atRep: the ends that have their pipe.  out: the REP end can send  *)
(* (NN_XREP_OUT).  A message is the pair of its client and its request id.  *)
Message == {m \in Client \X Nat : m[2] \in 1 .. MaxRequests[m[1]]}
Unused  == [client |-> NoClient, atReq |-> FALSE, atRep |-> FALSE, out |-> FALSE,
            up |-> <<>>, down |-> <<>>]

Conns(c) == {k \in Conn : conn[k].client = c /\ conn[k].atReq}

(* The connections after m was sent on k: lost if the other end has gone.   *)
SentUp(k, m) == [conn EXCEPT ![k].up = IF conn[k].atRep THEN Append(@, m) ELSE @]

(* Mutant: the pipe may be sent to again at once.                           *)
MutantSentDown(k, m) ==
  [conn EXCEPT ![k].down = IF conn[k].atReq THEN Append(@, m) ELSE @]

(* REP's pipe is busy (NN_PIPE_RELEASE) until it says that it can send.     *)
SentDown(k, m) == [conn EXCEPT ![k].down = IF conn[k].atReq THEN Append(@, m) ELSE @,
                               ![k].out = FALSE]

Fault == faults < MaxFaults /\ faults' = faults + 1

PipesInit ==
  /\ conn = [k \in Conn |-> Unused]
  /\ faults = 0

PipesTypeOK ==
  /\ conn \in [Conn -> [client : Client \cup {NoClient}, atReq : BOOLEAN,
                        atRep : BOOLEAN, out : BOOLEAN,
                        up : Seq(Message), down : Seq(Message)]]
  /\ \A k \in Conn : Len(conn[k].up) <= MaxFlight /\ Len(conn[k].down) <= MaxFlight
  /\ faults \in 0 .. MaxFaults
=============================================================================
