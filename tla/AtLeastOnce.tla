---------------------------- MODULE AtLeastOnce -----------------------------
(***************************************************************************)
(* What request/reply sockets promise their users, without connections,    *)
(* timers or copies: a request is run at least once before its answer is   *)
(* delivered, and answers are delivered only to the request asked last,    *)
(* once.                                                                   *)
(***************************************************************************)
EXTENDS Integers

CONSTANTS Client, MaxRequests

VARIABLES
  newest,  \* the number of the client's newest request
  phase,   \* what has become of it
  ran      \* the requests the server has begun to run

vars == <<newest, phase, ran>>

Init ==
  /\ newest = [c \in Client |-> 0]
  /\ phase = [c \in Client |-> "none"]
  /\ ran = {}

Submit(c) ==
  /\ phase[c] # "closed"
  /\ newest[c] < MaxRequests[c]
  /\ newest' = [newest EXCEPT ![c] = @ + 1]
  /\ phase' = [phase EXCEPT ![c] = "waiting"]
  /\ UNCHANGED ran

(* A request may be run again, and after a newer one was submitted.         *)
Run(c) ==
  \E n \in 1 .. newest[c] :
    /\ ran' = ran \cup {<<c, n>>}
    /\ UNCHANGED <<newest, phase>>

Deliver(c) ==
  /\ phase[c] = "waiting"
  /\ <<c, newest[c]>> \in ran
  /\ phase' = [phase EXCEPT ![c] = "answered"]
  /\ UNCHANGED <<newest, ran>>

Take(c) ==
  /\ phase[c] = "answered"
  /\ phase' = [phase EXCEPT ![c] = "none"]
  /\ UNCHANGED <<newest, ran>>

Close(c) ==
  /\ phase[c] # "closed"
  /\ phase' = [phase EXCEPT ![c] = "closed"]
  /\ UNCHANGED <<newest, ran>>

Next ==
  \E c \in Client :
    Submit(c) \/ Run(c) \/ Deliver(c) \/ Take(c) \/ Close(c)

Spec == Init /\ [][Next]_vars
=============================================================================
