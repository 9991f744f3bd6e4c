------------------------ MODULE ChlorosProperties ---------------------------
(***************************************************************************)
(* What chloros promises its callers, and what its own code relies on.     *)
(***************************************************************************)
EXTENDS Chloros

(* A thread that exists and has neither been deleted nor run to its end.   *)
Alive(t) == pc[t] \notin {"none", "done", "freed"}

(* A spawned thread that waits in the queue for its turn.                   *)
WaitsForTurn(t) ==
  t \in Queued(thread_queue) /\ t \notin initial /\ state[t] = "kReady"

(* OneOwner: the unique_ptr of every live thread is held exactly once, by   *)
(* thread_queue or by one kernel thread's current_thread.  Yield moves two  *)
(* of them in opposite directions (chloros.cpp:197-212) and GarbageCollect  *)
(* rebuilds the queue, while other kernel threads do the same.              *)
OneOwner ==
  /\ Distinct(thread_queue)
  /\ \A k \in KThread : current_thread[k] \notin Queued(thread_queue)
  /\ \A k, j \in KThread :
       current_thread[k] = current_thread[j] /\ current_thread[k] # NoThread
         => k = j
  /\ \A t \in Thread :
       Alive(t) <=> \/ t \in Queued(thread_queue)
                    \/ \E k \in KThread : current_thread[k] = t

(* NoAssertFail: the ASSERT(false) after Yield in ThreadEntry               *)
(* (chloros.cpp:267-269, "Unreachable here. Why?") is unreachable: a        *)
(* finished thread always finds a thread to switch to, and is never         *)
(* switched back to.                                                        *)
NoAssertFail == ~AssertFailed

(* NoUndefined: no kernel thread resumes a thread whose context is not      *)
(* saved, saves into a deleted thread, or ends on another kernel thread's   *)
(* initial thread.                                                          *)
NoUndefined == ~Undefined

(* What a step that returns from Wait on kernel thread k must find.         *)
WaitReturnsDone(k) ==
  kpc[k] = "run" /\ ~At(k, "waited") /\ pc'[current_thread[k]] = "waited" =>
    \A t \in Thread \ initial : ~Alive(t)

(* WaitMeansDone: at the moment Wait returns, every spawned thread has      *)
(* finished and been deleted (chloros.h:95, "Wait till all other green      *)
(* threads are done", and the counts test/phase_4.cpp:31-34 asserts).       *)
WaitMeansDone == [][\A k \in KThread : WaitReturnsDone(k)]_vars

(* ZombiesReaped: no zombie is in the queue while a caller's code runs      *)
(* (test/phase_4.cpp asserts count.second == 0 at every point it looks):    *)
(* the thread a finished thread switches to always collects it, although a  *)
(* thread that starts for the first time does not pass through              *)
(* GarbageCollect.                                                          *)
ZombiesReaped ==
  (\E k \in KThread : InUser(k)) =>
    \A t \in Queued(thread_queue) : state[t] # "kZombie"

(* NoOrphan: once every kernel thread has left Wait and ended, no spawned   *)
(* thread that could still run is left behind in the queue, although a      *)
(* thread one kernel thread does not wait for, because another runs it, is  *)
(* put back later.                                                          *)
NoOrphan ==
  (Running /\ \A k \in KThread : kpc[k] \in {"off", "exited"}) =>
    \A t \in Thread \ initial : ~Alive(t)

(* RoundRobin: while a spawned thread x waits for its turn, only threads    *)
(* queued ahead of it are switched to, and nothing but a thread that is     *)
(* just being spawned is ever put ahead of it; so no thread runs twice      *)
(* before x does (chloros.h:86, "Make sure it behaves like a round-robin    *)
(* scheduler!").                                                            *)
RoundRobin ==
  [][\A x, y \in Thread :
       WaitsForTurn(x) /\ WaitsForTurn(x)' =>
         /\ Ahead(thread_queue, y, x)' =>
              Ahead(thread_queue, y, x) \/ pc[y] = "none"
         /\ (y \in Queued(thread_queue) /\ state'[y] = "kRunning") =>
              Ahead(thread_queue, y, x)]_vars

(* What the step that leaves the Yield of a Spawn must do.                  *)
SpawnSwitches(k) ==
  At(k, "yield") /\ op[current_thread[k]] = "Spawn"
      /\ pc'[current_thread[k]] # "yield" =>
    kpc'[k] = "save" /\ pc[current_thread'[k]] = "start"

(* SpawnRunsChild: the Yield of a Spawn always switches, and to a thread    *)
(* that has never run (chloros.h:82-83, "current thread must yield          *)
(* execution to it").  With one kernel thread the only such thread is the   *)
(* child.                                                                   *)
SpawnRunsChild == [][\A k \in KThread : SpawnSwitches(k)]_vars

(* StarvationFree: a spawned thread that waits for its turn is eventually   *)
(* run.                                                                     *)
StarvationFree ==
  \A t \in Thread :
    WaitsForTurn(t) ~> (state[t] = "kRunning" \/ ~Running)

(* ZombieDeleted: a spawned thread whose function has returned is           *)
(* eventually deleted, stack and all (chloros.h:101).                       *)
ZombieDeleted ==
  \A t \in Thread : (state[t] = "kZombie") ~> (pc[t] = "freed")

-----------------------------------------------------------------------------
(* What the repository says of several kernel threads *)

(* ResumesSavedContext: context_switch "restores the execution context      *)
(* pointed to by the second paramter" (context_switch.S:4-7), so the        *)
(* context it is given must be one that has been saved.                     *)
ResumesSavedContext ==
  \A k \in KThread : kpc[k] # "lost" \/ current_thread[k] = NoThread

(* CleanupIsSafe: a thread's resources are reclaimed only when no kernel    *)
(* thread still executes on its stack (Lab 1 handout, page 4).              *)
CleanupIsSafe == ~UseAfterFree

(* InitialStaysHome: "if the initial thread is spawned on this kernel       *)
(* thread, never switch it to another kernel thread!" (chloros.cpp:44-45).  *)
InitialStaysHome ==
  \A k \in KThread :
    current_thread[k] \in initial => current_thread[k] = initial_thread_id[k]
-----------------------------------------------------------------------------
(* What the proofs in ChlorosProofs need besides: how a kernel thread's     *)
(* place in context_switch, the place of each thread's code and the queue   *)
(* go together.                                                             *)

KernelsOK ==
  \A k \in KThread :
    /\ kpc[k] \in {"run", "save", "load"} => current_thread[k] \in Thread
    /\ kpc[k] = "off" => current_thread[k] = NoThread
    /\ kpc[k] = "save" => leaving[k] \in Thread

ThreadsOK ==
  /\ \A t \in Thread : pc[t] = "none" <=> t >= next_id
  /\ \A t \in Queued(thread_queue) : state[t] # "kRunning"

IInv == TypeOK /\ OneOwner /\ KernelsOK /\ ThreadsOK
=============================================================================
