------------------------------ MODULE Chloros -------------------------------
(***************************************************************************)
(* The chloros green-thread library (lab1/src/chloros.cpp) as its callers  *)
(* and its kernel threads drive it.                                        *)
(*                                                                         *)
(* Green threads are the numbers Thread::next_id hands out.  A kernel      *)
(* thread executes the code of one green thread at a time; thread_queue is *)
(* shared by all of them.  What runs under queue_lock is one action, and   *)
(* so is an unlocked access to current_thread, which no other kernel       *)
(* thread can reach while it is not queued.  What Yield does after         *)
(* queue_lock.unlock() is not protected and is split: SaveContext is the   *)
(* first half of context_switch, LoadContext its second half, and          *)
(* GarbageCollect is what the resumed thread does next.                    *)
(***************************************************************************)
EXTENDS QueueOps

CONSTANTS
  KThread,    \* the kernel threads
  YieldCalls, \* the forms of Yield(only_ready) the program calls
  MaxThreads  \* how many green threads a behaviour may create (a bound)

ASSUME ThreadBound == MaxThreads \in Nat
ASSUME YieldForms  == YieldCalls \subseteq {"Yield", "YieldReady"}

Thread   == 0 .. MaxThreads - 1
NoThread == -1

VARIABLES
  next_id,            \* Thread::next_id
  state,              \* Thread::state of each green thread
  initial,            \* the threads with is_initial_kernel_thread
  thread_queue,       \* the queue of threads that are not running
  current_thread,     \* thread_local: the thread each kernel thread runs
  initial_thread_id,  \* thread_local: the initial thread of a kernel thread
  pc,                 \* where the code of each green thread stands
  op,                 \* which library call a green thread is inside
  saved,              \* the threads whose context field may be loaded
  kpc,                \* where each kernel thread stands in context_switch
  leaving             \* the thread a kernel thread is switching away from

threadVars == <<next_id, state, initial, pc, op>>
schedVars  == <<thread_queue, current_thread, initial_thread_id>>
switchVars == <<saved, kpc, leaving>>
vars == <<threadVars, schedVars, switchVars>>

States  == {"kWaiting", "kReady", "kRunning", "kZombie"}
Calls   == {"none", "Yield", "YieldReady", "Spawn", "Wait", "Exit"}
Points  == {"none", "start", "user", "yield", "switched", "gc", "waited",
            "aborted", "done", "freed"}
KPoints == {"off", "run", "save", "load", "lost", "exited"}

TypeOK ==
  /\ next_id \in 0 .. MaxThreads
  /\ state \in [Thread -> States]
  /\ initial \in SUBSET Thread
  /\ thread_queue \in Seq(Thread)
  /\ current_thread \in [KThread -> Thread \cup {NoThread}]
  /\ initial_thread_id \in [KThread -> Thread \cup {NoThread}]
  /\ pc \in [Thread -> Points]
  /\ op \in [Thread -> Calls]
  /\ saved \in SUBSET Thread
  /\ kpc \in [KThread -> KPoints]
  /\ leaving \in [KThread -> Thread \cup {NoThread}]

Init ==
  /\ next_id = 0
  /\ state = [t \in Thread |-> "kWaiting"]
  /\ initial = {}
  /\ thread_queue = <<>>
  /\ current_thread = [k \in KThread |-> NoThread]
  /\ initial_thread_id = [k \in KThread |-> NoThread]
  /\ pc = [t \in Thread |-> "none"]
  /\ op = [t \in Thread |-> "none"]
  /\ saved = {}
  /\ kpc = [k \in KThread |-> "off"]
  /\ leaving = [k \in KThread |-> NoThread]

-----------------------------------------------------------------------------
(* Derived state *)

(* Kernel thread k executes the code of its current thread at point p. *)
At(k, p) == kpc[k] = "run" /\ pc[current_thread[k]] = p

(* The caller's own code runs on kernel thread k. *)
InUser(k) == At(k, "user") \/ At(k, "waited")

(* Mutant: a finished thread yields to ready threads only.                  *)
MutantOnlyReady(t) == op[t] \in {"YieldReady", "Spawn", "Wait", "Exit"}

OnlyReady(t) == op[t] \in {"YieldReady", "Spawn", "Wait"}

(* The loop condition of Yield: may kernel thread k switch to thread t? *)
Eligible(k, t) ==
  /\ \/ state[t] = "kReady"
     \/ state[t] = "kWaiting" /\ ~OnlyReady(current_thread[k])
  /\ \/ current_thread[k] # initial_thread_id[k]
     \/ t \notin initial

(* The positions at which the search of Yield may stop. *)
Candidates(k) ==
  {i \in DOMAIN thread_queue : Eligible(k, thread_queue[i])}

(* What the C++ leaves undefined.  A kernel thread is "lost" once it has    *)
(* loaded a context nobody finished saving, or has run the end of another   *)
(* kernel thread's main function.  A kernel thread that is still saving     *)
(* into a Thread that was deleted writes to freed memory.                   *)
UseAfterFree == \E k \in KThread : kpc[k] = "save" /\ pc[leaving[k]] = "freed"
Undefined    == UseAfterFree \/ \E k \in KThread : kpc[k] = "lost"
AssertFailed == \E t \in Thread : pc[t] = "aborted"

(* Nothing is claimed of a program past an undefined step or an abort. *)
Running == ~Undefined /\ ~AssertFailed

-----------------------------------------------------------------------------
(* Calls made by the program *)

Initialize(k) ==
  /\ Running
  /\ kpc[k] = "off"
  /\ next_id < MaxThreads
  /\ next_id' = next_id + 1
  /\ state' = [state EXCEPT ![next_id] = "kWaiting"]
  /\ initial' = initial \cup {next_id}
  /\ initial_thread_id' = [initial_thread_id EXCEPT ![k] = next_id]
  /\ current_thread' = [current_thread EXCEPT ![k] = next_id]
  /\ pc' = [pc EXCEPT ![next_id] = "user"]
  /\ kpc' = [kpc EXCEPT ![k] = "run"]
  /\ UNCHANGED <<thread_queue, op, saved, leaving>>

(* Mutant: context.rsp is not set up before the thread is queued.           *)
MutantSpawn(k) ==
  LET t == current_thread[k] IN
  /\ Running
  /\ InUser(k)
  /\ next_id < MaxThreads
  /\ next_id' = next_id + 1
  /\ state' = [state EXCEPT ![next_id] = "kReady"]
  /\ thread_queue' = PushFront(thread_queue, next_id)
  /\ pc' = [pc EXCEPT ![next_id] = "start", ![t] = "yield"]
  /\ op' = [op EXCEPT ![t] = "Spawn"]
  /\ UNCHANGED <<initial, current_thread, initial_thread_id, switchVars>>

(* The new thread's context already names its stack and start_thread. *)
Spawn(k) ==
  LET t == current_thread[k] IN
  /\ Running
  /\ InUser(k)
  /\ next_id < MaxThreads
  /\ next_id' = next_id + 1
  /\ state' = [state EXCEPT ![next_id] = "kReady"]
  /\ thread_queue' = PushFront(thread_queue, next_id)
  /\ pc' = [pc EXCEPT ![next_id] = "start", ![t] = "yield"]
  /\ op' = [op EXCEPT ![t] = "Spawn"]
  /\ saved' = saved \cup {next_id}
  /\ UNCHANGED <<initial, current_thread, initial_thread_id, kpc, leaving>>

CallYield(k, call) ==
  LET t == current_thread[k] IN
  /\ Running
  /\ InUser(k)
  /\ pc' = [pc EXCEPT ![t] = "yield"]
  /\ op' = [op EXCEPT ![t] = call]
  /\ UNCHANGED <<next_id, state, initial>>
  /\ UNCHANGED <<schedVars, switchVars>>

(* chloros.h reserves Wait for initial threads. *)
Wait(k) ==
  LET t == current_thread[k] IN
  /\ Running
  /\ InUser(k)
  /\ t \in initial
  /\ state' = [state EXCEPT ![t] = "kWaiting"]
  /\ pc' = [pc EXCEPT ![t] = "yield"]
  /\ op' = [op EXCEPT ![t] = "Wait"]
  /\ UNCHANGED <<next_id, initial>>
  /\ UNCHANGED <<schedVars, switchVars>>

(* ThreadEntry, once the function of a spawned thread has returned. *)
FunctionReturns(k) ==
  LET t == current_thread[k] IN
  /\ Running
  /\ InUser(k)
  /\ t \notin initial
  /\ state' = [state EXCEPT ![t] = "kZombie"]
  /\ pc' = [pc EXCEPT ![t] = "yield"]
  /\ op' = [op EXCEPT ![t] = "Exit"]
  /\ UNCHANGED <<next_id, initial>>
  /\ UNCHANGED <<schedVars, switchVars>>

(* The code after Wait reaches the end of the kernel thread's function,     *)
(* which destroys current_thread.                                           *)
KernelExits(k) ==
  LET t == current_thread[k] IN
  /\ Running
  /\ At(k, "waited")
  /\ pc' = [pc EXCEPT ![t] = "done"]
  /\ current_thread' = [current_thread EXCEPT ![k] = NoThread]
  /\ kpc' = [kpc EXCEPT ![k] =
               IF t = initial_thread_id[k] THEN "exited" ELSE "lost"]
  /\ UNCHANGED <<next_id, state, initial, op>>
  /\ UNCHANGED <<thread_queue, initial_thread_id, saved, leaving>>

-----------------------------------------------------------------------------
(* Yield, context_switch and GarbageCollect *)

(* Where a thread goes when the Yield it is inside returns false.           *)
AfterFailedYield(t) ==
  CASE op[t] = "Wait" -> "waited"
    [] op[t] = "Exit" -> "aborted"
    [] OTHER          -> "user"

(* Mutant: Wait tries once instead of looping.                              *)
MutantAfterYield(t) ==
  CASE op[t] = "Wait" -> "waited"
    [] op[t] = "Exit" -> "aborted"
    [] OTHER          -> "user"

(* Where a thread goes when it returns true.  Wait yields again.            *)
AfterYield(t) ==
  CASE op[t] = "Wait" -> "yield"
    [] op[t] = "Exit" -> "aborted"
    [] OTHER          -> "user"

YieldFails(k) ==
  LET t == current_thread[k] IN
  /\ Running
  /\ At(k, "yield")
  /\ Candidates(k) = {}
  /\ pc' = [pc EXCEPT ![t] = AfterFailedYield(t)]
  /\ op' = [op EXCEPT ![t] = "none"]
  /\ UNCHANGED <<next_id, state, initial>>
  /\ UNCHANGED <<schedVars, switchVars>>

(* Mutants: the previous thread is queued after it was moved from; the next *)
(* thread is not erased from the queue.                                     *)
MutantSwitchTo(k, i, queue) ==
  LET prev == current_thread[k]
      next == thread_queue[i]
  IN
  /\ thread_queue' = queue
  /\ state' = [state EXCEPT
                 ![prev] = IF @ = "kRunning" THEN "kReady" ELSE @,
                 ![next] = "kRunning"]
  /\ current_thread' = [current_thread EXCEPT ![k] = next]
  /\ pc' = [pc EXCEPT ![prev] = "switched"]
  /\ kpc' = [kpc EXCEPT ![k] = "save"]
  /\ leaving' = [leaving EXCEPT ![k] = prev]
  /\ UNCHANGED <<next_id, initial, op, initial_thread_id, saved>>
MutantSwitchQueuesNull(k, i) ==
  MutantSwitchTo(k, i,
    PushBack(Keep(thread_queue, DOMAIN thread_queue \ {i}), NoThread))
MutantSwitchKeepsNext(k, i) ==
  MutantSwitchTo(k, i, PushBack(thread_queue, current_thread[k]))

(* The locked part of a Yield that finds a thread to run. *)
SwitchTo(k, i) ==
  LET prev == current_thread[k]
      next == thread_queue[i]
  IN
  /\ thread_queue' =
       PushBack(Keep(thread_queue, DOMAIN thread_queue \ {i}), prev)
  /\ state' = [state EXCEPT
                 ![prev] = IF @ = "kRunning" THEN "kReady" ELSE @,
                 ![next] = "kRunning"]
  /\ current_thread' = [current_thread EXCEPT ![k] = next]
  /\ pc' = [pc EXCEPT ![prev] = "switched"]
  /\ kpc' = [kpc EXCEPT ![k] = "save"]
  /\ leaving' = [leaving EXCEPT ![k] = prev]
  /\ UNCHANGED <<next_id, initial, op, initial_thread_id, saved>>

(* Mutant: the search starts at the back of the queue.                      *)
MutantYield(k) ==
  /\ Running
  /\ At(k, "yield")
  /\ \E i \in Candidates(k) :
       /\ \A j \in Candidates(k) : j <= i
       /\ SwitchTo(k, i)

Yield(k) ==
  /\ Running
  /\ At(k, "yield")
  /\ \E i \in Candidates(k) :
       /\ \A j \in Candidates(k) : i <= j
       /\ SwitchTo(k, i)

SaveContext(k) ==
  /\ Running
  /\ kpc[k] = "save"
  /\ saved' = saved \cup {leaving[k]}
  /\ kpc' = [kpc EXCEPT ![k] = "load"]
  /\ UNCHANGED threadVars
  /\ UNCHANGED <<schedVars, leaving>>

(* Loading uses the context up: until it is saved again it names a stack    *)
(* position the thread has left.                                            *)
LoadContext(k) ==
  LET t == current_thread[k] IN
  /\ Running
  /\ kpc[k] = "load"
  /\ saved' = saved \ {t}
  /\ kpc' = [kpc EXCEPT ![k] = IF t \in saved THEN "run" ELSE "lost"]
  /\ leaving' = [leaving EXCEPT ![k] = NoThread]
  /\ pc' = [pc EXCEPT ![t] = IF @ = "start" THEN "user" ELSE "gc"]
  /\ UNCHANGED <<next_id, state, initial, op>>
  /\ UNCHANGED schedVars

(* Mutant: zombies are found and left in the queue.                         *)
MutantGarbageCollect(k) ==
  LET t == current_thread[k] IN
  /\ Running
  /\ At(k, "gc")
  /\ pc' = [pc EXCEPT ![t] = AfterYield(t)]
  /\ state' = [state EXCEPT ![t] = IF op[t] = "Wait" THEN "kWaiting" ELSE @]
  /\ op' = [op EXCEPT ![t] = IF @ = "Wait" THEN @ ELSE "none"]
  /\ UNCHANGED <<next_id, initial, schedVars, switchVars>>

(* The end of Yield(): the resumed thread deletes every queued zombie and   *)
(* returns; Wait() marks it waiting and yields again.                       *)
GarbageCollect(k) ==
  LET t == current_thread[k]
      live == {i \in DOMAIN thread_queue : state[thread_queue[i]] # "kZombie"}
  IN
  /\ Running
  /\ At(k, "gc")
  /\ thread_queue' = Keep(thread_queue, live)
  /\ pc' = [x \in Thread |->
              IF x = t THEN AfterYield(t)
              ELSE IF x \in Queued(thread_queue) /\ state[x] = "kZombie"
                   THEN "freed" ELSE pc[x]]
  /\ state' = [state EXCEPT ![t] = IF op[t] = "Wait" THEN "kWaiting" ELSE @]
  /\ op' = [op EXCEPT ![t] = IF @ = "Wait" THEN @ ELSE "none"]
  /\ UNCHANGED <<next_id, initial, current_thread, initial_thread_id>>
  /\ UNCHANGED switchVars

-----------------------------------------------------------------------------
KernelStep(k) ==
  \/ Initialize(k)
  \/ Spawn(k)
  \/ \E call \in YieldCalls : CallYield(k, call)
  \/ Wait(k)
  \/ FunctionReturns(k)
  \/ KernelExits(k)
  \/ YieldFails(k)
  \/ Yield(k)
  \/ SaveContext(k)
  \/ LoadContext(k)
  \/ GarbageCollect(k)

(* The only states with no step of the program: it has been undone by an    *)
(* undefined step or an abort, or every kernel thread has ended or was      *)
(* never started (and the bound leaves it no thread to start with).         *)
Halted ==
  /\ ~Running \/ \A k \in KThread : kpc[k] \in {"off", "exited"}
  /\ UNCHANGED vars

Next == (\E k \in KThread : KernelStep(k)) \/ Halted

Spec == Init /\ [][Next]_vars

(* A kernel thread that can take a step eventually takes one: the operating *)
(* system schedules it, and the program's functions call the library again  *)
(* or return (the threads are cooperative).                                 *)
FairSpec == Spec /\ \A k \in KThread : WF_vars(KernelStep(k))
=============================================================================
