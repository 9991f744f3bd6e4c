------------------------------- MODULE NnAio --------------------------------
(***************************************************************************)
(* What the state machines of a nanomsg socket share (aio/fsm, ctx, timer, *)
(* worker): the events they raise to each other, which are handled in      *)
(* order before the context is left, and the tasks and timers of the       *)
(* worker thread.                                                          *)
(*                                                                         *)
(* An object is a pair <<class, c>>, where c is 0 for the objects of an    *)
(* endpoint and the number of a connection for those of the connection.    *)
(* A record s holds their states: s[class][c].  A C function that changes  *)
(* them is an operator from a record to the next one, or to the set of     *)
(* those it may lead to.                                                   *)
(***************************************************************************)
EXTENDS Integers, Sequences, SequencesExt

(* s.events: raised and not handled.  s.tasks: given to the worker and not  *)
(* executed.  s.armed: the timers in the worker's timer set.  s.abort: why  *)
(* the process has aborted, "no" if it has not.                             *)
Abort(s, why) == [s EXCEPT !.abort = IF @ = "no" THEN why ELSE @]

(* An assertion has failed, or an event came that the machine in its state  *)
(* does not expect (nn_fsm_bad_action, nn_fsm_bad_source).                  *)
Bad(s) == Abort(s, "unexpected")

State(s, o) == s[o[1]][o[2]]

(* The nn_fsm_event an object uses for events of a type.                    *)
Slot(type) ==
  CASE type \in {"ERROR", "SHUTDOWN", "ACCEPT_ERROR"} -> "error"
    [] type \in {"CONNECTED", "ACCEPTED"}             -> "established"
    [] type \in {"DONE", "TIMEOUT", "OK", "FAILED"}   -> "done"
    [] OTHER                                          -> type

Queued(s, from, slot) ==
  \E i \in DOMAIN s.events : s.events[i].from = from /\ Slot(s.events[i].type) = slot

(* nn_fsm_raise: an event that is still in the queue cannot be raised.      *)
Raise(s, from, to, type) ==
  IF Queued(s, from, Slot(type)) THEN Bad(s)
  ELSE [s EXCEPT !.events = Append(@, [from |-> from, to |-> to, type |-> type])]

(* nn_worker_execute: nor can a task.                                       *)
Execute(s, of, what) ==
  IF Contains(s.tasks, <<of, what>>) THEN Bad(s)
  ELSE [s EXCEPT !.tasks = Append(@, <<of, what>>)]

(* nn_fsm_isidle *)
IsIdle(s, o) == State(s, o) = "IDLE" /\ ~Queued(s, o, "STOPPED")

(* nn_fsm_stop acts on a machine that runs and is not stopping yet.         *)
Stops(s, o) == State(s, o) \notin {"IDLE", "STOPPING"}

(* nn_fsm_term, nn_fsm_event_term, nn_worker_task_term,                     *)
(* nn_timerset_hndl_term: the objects can be freed.                         *)
Unused(s, objects) ==
  /\ \A o \in objects : State(s, o) = "IDLE"
  /\ \A i \in DOMAIN s.events : s.events[i].from \notin objects
  /\ \A i \in DOMAIN s.tasks : s.tasks[i][1] \notin objects
  /\ s.armed \cap objects = {}

-----------------------------------------------------------------------------
(* Timers (aio/timer.c); t = <<"timer", c>>                                 *)

nn_timer_start(s, c) ==
  IF IsIdle(s, <<"timer", c>>)
  THEN Execute([s EXCEPT !.timer[c] = "ACTIVE"], <<"timer", c>>, "start") ELSE Bad(s)

nn_timer_stop(s, c) ==
  IF Stops(s, <<"timer", c>>)
  THEN Execute([s EXCEPT !.timer[c] = "STOPPING"], <<"timer", c>>, "stop") ELSE s

(* The worker executes a task of a timer.                                   *)
TimerTask(s, c, what, owner) ==
  CASE what = "start" /\ s.timer[c] = "ACTIVE" -> [s EXCEPT !.armed = @ \cup {<<"timer", c>>}]
    [] what = "stop" /\ s.timer[c] = "STOPPING" ->
         Raise([s EXCEPT !.timer[c] = "IDLE", !.armed = @ \ {<<"timer", c>>}],
               <<"timer", c>>, owner, "STOPPED")
    [] OTHER -> s

(* A timer of the timer set expires.                                        *)
TimerExpires(s, c, owner) ==
  LET s2 == [s EXCEPT !.armed = @ \ {<<"timer", c>>}] IN
  CASE s.timer[c] = "ACTIVE"   -> Raise(s2, <<"timer", c>>, owner, "TIMEOUT")
    [] s.timer[c] = "STOPPING" -> s2
    [] OTHER                   -> Bad(s2)
=============================================================================
