------------------------------ MODULE NnUsock -------------------------------
(***************************************************************************)
(* Sockets (aio/usock_posix.inc): that of a connection c > 0 and, for an   *)
(* endpoint that is bound, the listening one, number 0.  They are asked by *)
(* the thread in the context; the worker thread waits for their file       *)
(* descriptors.  s.owner[c] is the machine that gets the events of socket  *)
(* c, and s.fd[c] what the worker polls it for: "added" alone still        *)
(* reports errors.  s.asock is the socket that waits for a connection of   *)
(* the listener, s.lerr that the listener has told an accept error before. *)
(***************************************************************************)
EXTENDS NnAio

Tell(s, c, type) == Raise(s, <<"usock", c>>, s.owner[c], type)

Task(s, c, what) == Execute(s, <<"usock", c>>, what)

(* nn_usock_async_stop *)
AsyncStop(s, c) == Tell(Task(s, c, "stop"), c, "SHUTDOWN")

(* nn_worker_rm_fd, nn_closefd *)
Closed(s, c) == Tell([s EXCEPT !.usock[c] = "DONE", !.fd[c] = {}], c, "ERROR")

Stopped(s, c) == Tell([s EXCEPT !.usock[c] = "IDLE", !.fd[c] = {}], c, "STOPPED")

(* NN_USOCK_ACTION_ERROR: sending or receiving at once has failed.          *)
ActionError(s, c) == AsyncStop([s EXCEPT !.usock[c] = "REMOVING_FD"], c)

(* nn_usock_send, nn_usock_recv: done at once, left to the worker, or       *)
(* failed; the socket must not have failed before.                          *)
Transfer(s, c, done, what) ==
  IF s.usock[c] = "REMOVING_FD" THEN {Abort(s, "uses_failed_socket")}
  ELSE IF s.usock[c] # "ACTIVE" THEN {Bad(s)}
  ELSE {Tell(s, c, done), Task(s, c, what), ActionError(s, c)}

nn_usock_send(s, c) == Transfer(s, c, "SENT", "send")
nn_usock_recv(s, c) == Transfer(s, c, "RECEIVED", "recv")

(* nn_usock_start, nn_usock_bind, nn_usock_connect *)
nn_usock_connect(s, c) ==
  IF ~IsIdle(s, <<"usock", c>>) THEN {Bad(s)}
  ELSE {Tell(Task([s EXCEPT !.usock[c] = "ACTIVE"], c, "connected"), c, "CONNECTED"),
        Closed(s, c),
        Task([s EXCEPT !.usock[c] = "CONNECTING"], c, "connecting")}

-----------------------------------------------------------------------------
(* Accepting                                                                *)

Accepted(s, c) ==
  Tell([s EXCEPT !.asock = 0, !.usock[0] = "LISTENING", !.usock[c] = "ACCEPTED"], c, "ACCEPTED")

AcceptError(s, c) ==
  Tell([s EXCEPT !.asock = c, !.lerr = TRUE, !.usock[0] = "ACCEPTING_ERROR"], 0, "ACCEPT_ERROR")

(* nn_usock_accept: a connection was waiting, which happens only if free; an *)
(* error that was not told before; or the worker waits for a connection.    *)
nn_usock_accept(s, c, free) ==
  LET s2 == [s EXCEPT !.usock = [@ EXCEPT ![0] = "ACCEPTING", ![c] = "BEING_ACCEPTED"]] IN
  IF \/ s.usock[0] \notin {"LISTENING", "ACCEPTING_ERROR"}
     \/ s.usock[c] \notin {"IDLE", "BEING_ACCEPTED"}
     \/ s.asock \notin {0, c}
  THEN {Bad(s)}
  ELSE (IF free THEN {Accepted(s2, c)} ELSE {})
       \cup (IF s.lerr THEN {} ELSE {AcceptError(s2, c)})
       \cup {Task([s2 EXCEPT !.asock = c], 0, "accept")}

(* nn_usock_activate *)
nn_usock_activate(s, c) ==
  IF s.usock[c] = "ACCEPTED" THEN [s EXCEPT !.usock[c] = "ACTIVE", !.fd[c] = {"added"}] ELSE Bad(s)

(* Mutant: the worker is not asked to stop polling.                         *)
MutantCancel(s) ==
  IF s.usock[0] = "ACCEPTING" /\ s.asock # 0
  THEN [s EXCEPT !.usock[0] = "CANCELLING"] ELSE Bad(s)

(* NN_USOCK_ACTION_CANCEL, to the listener                                  *)
Cancel(s) ==
  IF s.usock[0] = "ACCEPTING" /\ s.asock # 0
  THEN Task([s EXCEPT !.usock[0] = "CANCELLING"], 0, "stop") ELSE Bad(s)

(* What stopping does to a socket of which nothing is asked of the worker.  *)
StoppedAtOnce(s, c) == Stopped([s EXCEPT !.lerr = IF c = 0 THEN FALSE ELSE @], c)

(* Mutant: the stop task is given again while the descriptor is removed.    *)
MutantUsockStop(s, c) ==
  CASE s.usock[c] \in {"IDLE", "STOPPING", "STOPPING_ACCEPT"} -> s
    [] s.usock[c] \in {"ACCEPTING", "CANCELLING"} -> Bad(s)
    [] s.usock[c] \in {"DONE", "ACCEPTED", "ACCEPTING_ERROR", "LISTENING"} -> StoppedAtOnce(s, c)
    [] s.usock[c] = "BEING_ACCEPTED" -> [Cancel(s) EXCEPT !.usock[c] = "STOPPING_ACCEPT"]
    [] OTHER -> [AsyncStop(s, c) EXCEPT !.usock[c] = "STOPPING"]

nn_usock_stop(s, c) ==
  CASE s.usock[c] \in {"IDLE", "STOPPING", "STOPPING_ACCEPT"} -> s
    [] s.usock[c] \in {"ACCEPTING", "CANCELLING"} -> Bad(s)
    [] s.usock[c] \in {"DONE", "ACCEPTED", "ACCEPTING_ERROR", "LISTENING"} -> StoppedAtOnce(s, c)
    [] s.usock[c] = "BEING_ACCEPTED" -> [Cancel(s) EXCEPT !.usock[c] = "STOPPING_ACCEPT"]
    [] s.usock[c] = "REMOVING_FD" -> [s EXCEPT !.usock[c] = "STOPPING"]
    [] OTHER -> [AsyncStop(s, c) EXCEPT !.usock[c] = "STOPPING"]

(* nn_usock_term; the task to receive is cancelled, the one to send is not. *)
nn_usock_term(s, c) ==
  LET u == [s EXCEPT !.tasks = SelectSeq(@, LAMBDA t : t # <<<<"usock", c>>, "recv">>)] IN
  IF Contains(s.tasks, <<<<"usock", c>>, "send">>) THEN Abort(u, "frees_queued_task") ELSE u

-----------------------------------------------------------------------------
(* The worker                                                               *)

StopTask(s, c) ==
  CASE s.usock[c] = "STOPPING"    -> Stopped(s, c)
    [] s.usock[c] = "REMOVING_FD" -> Closed(s, c)
    [] s.usock[c] = "CANCELLING"  ->
         IF s.usock[s.asock] = "STOPPING_ACCEPT"
         THEN Stopped([s EXCEPT !.usock[c] = "LISTENING", !.fd[c] = {}], s.asock) ELSE Bad(s)
    [] OTHER -> Bad(s)

(* nn_internal_tasks and the stop task.  epoll_ctl fails for a descriptor   *)
(* that was closed.                                                         *)
UsockTask(s, c, what) ==
  CASE what = "connecting" -> [s EXCEPT !.fd[c] = {"added", "OUT"}]
    [] what = "connected"  -> [s EXCEPT !.fd[c] = {"added"}]
    [] what = "accept"     -> [s EXCEPT !.fd[c] = {"added", "IN"}]
    [] what \in {"send", "recv"} ->
         IF s.fd[c] = {} THEN Abort(s, "polls_closed_fd")
         ELSE [s EXCEPT !.fd[c] = @ \cup {IF what = "send" THEN "OUT" ELSE "IN"}]
    [] what = "stop" -> StopTask(s, c)

(* The descriptor can be read, or written to, with what that may bring: all *)
(* of it, a part of it, or the end of the connection.                       *)
Ready(s, c, way) ==
  LET polled == [s EXCEPT !.fd[c] = @ \ {way}] IN
  CASE s.usock[c] = "CONNECTING" ->
         {Tell([polled EXCEPT !.usock[c] = "ACTIVE"], c, "CONNECTED"), Closed(s, c)}
    [] s.usock[c] = "ACTIVE" ->
         {Tell(polled, c, IF way = "IN" THEN "RECEIVED" ELSE "SENT"), s, Closed(s, c)}
    [] s.usock[c] \in {"REMOVING_FD", "STOPPING"} -> {s}
    [] OTHER -> {Bad(s)}

(* The same for the listener, whose descriptor is not polled any more after *)
(* that; free allows a connection.                                          *)
ListenerReady(s, free) ==
  LET s2 == [s EXCEPT !.fd[0] = {}] IN
  CASE s.usock[0] = "ACCEPTING" ->
         {AcceptError(s2, s.asock)} \cup (IF free THEN {Accepted(s2, s.asock)} ELSE {})
    [] s.usock[0] = "CANCELLING" -> {s}
    [] OTHER -> {Bad(s)}

(* NN_WORKER_FD_ERR *)
Failed(s, c) == IF s.usock[c] \in {"CONNECTING", "ACTIVE"} THEN Closed(s, c) ELSE s
=============================================================================
