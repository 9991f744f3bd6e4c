---------------------------- MODULE ChlorosProofs ---------------------------
(***************************************************************************)
(* Theorems about Chloros for every number of green threads. With any      *)
(* number of kernel threads: types, a thread runs on one kernel thread or  *)
(* waits in the queue once, nobody overtakes, no assertion fails up to the *)
(* first undefined step, and no spawned thread is left behind. With one    *)
(* kernel thread: no undefined step, every zombie is collected before a    *)
(* caller's code runs again, Wait waits for all, Spawn runs the child.     *)
(***************************************************************************)
EXTENDS ChlorosProperties, QueueLemmas

LEMMA InitInv == Init => IInv
<1> SUFFICES ASSUME Init PROVE IInv
  OBVIOUS
<1> USE ThreadBound DEF Init
<1>1. TypeOK
  BY DEF TypeOK, States, Points, Calls, KPoints, Thread, NoThread
<1>2. DOMAIN thread_queue = {} /\ Queued(thread_queue) = {}
  BY DEF Queued
<1>3. OneOwner
  BY <1>2 DEF OneOwner, Distinct, Alive, NoThread, Thread
<1>4. KernelsOK
  BY DEF KernelsOK
<1>5. ThreadsOK
  BY <1>2 DEF ThreadsOK, Thread
<1> QED
  BY <1>1, <1>3, <1>4, <1>5 DEF IInv

(* The thread whose code a kernel thread runs is alive and not queued.      *)
LEMMA RunningThread ==
  ASSUME IInv, NEW k \in KThread, kpc[k] \in {"run", "save", "load"}
  PROVE  /\ current_thread[k] \in Thread
         /\ Alive(current_thread[k])
         /\ current_thread[k] \notin Queued(thread_queue)
BY DEF IInv, KernelsOK, OneOwner

(* The next thread to be created is not owned by anybody yet.               *)
LEMMA FreshThread ==
  ASSUME IInv, next_id < MaxThreads
  PROVE  /\ next_id \in Thread /\ next_id + 1 \in 0 .. MaxThreads
         /\ pc[next_id] = "none"
         /\ next_id \notin Queued(thread_queue)
         /\ \A j \in KThread : current_thread[j] # next_id
<1>1. next_id \in Thread /\ next_id + 1 \in 0 .. MaxThreads /\ pc[next_id] = "none"
  BY ThreadBound DEF IInv, TypeOK, ThreadsOK, Thread
<1> QED
  BY <1>1 DEF IInv, OneOwner, Alive

(* A step that moves no thread between owners and neither starts nor ends   *)
(* one keeps OneOwner.                                                      *)
LEMMA SameOwners ==
  ASSUME IInv, NEW t \in Thread, Alive(t), pc'[t] \notin {"none", "done", "freed"},
         \A x \in Thread : x # t => pc'[x] = pc[x],
         thread_queue' = thread_queue, current_thread' = current_thread
  PROVE  OneOwner'
<1>1. \A x \in Thread : Alive(x)' <=> Alive(x)
  BY DEF Alive
<1> QED
  BY <1>1 DEF IInv, OneOwner

-----------------------------------------------------------------------------
(* Each action of a kernel thread preserves the invariant.                  *)

LEMMA InitializeInv ==
  ASSUME IInv, NEW k \in KThread, Initialize(k)
  PROVE  IInv'
<1> USE ThreadBound DEF IInv
<1>1. next_id \in Thread /\ next_id' \in 0 .. MaxThreads
  BY FreshThread DEF Initialize
<1>3. next_id \notin Queued(thread_queue)
      /\ \A j \in KThread : current_thread[j] # next_id
  BY FreshThread DEF Initialize
<1>4. TypeOK'
  BY <1>1 DEF Initialize, TypeOK, States, Points, Calls, KPoints
<1>5. \A t \in Thread : t # next_id => pc'[t] = pc[t] /\ state'[t] = state[t]
  BY DEF Initialize, TypeOK
<1>6. \A j \in KThread : j # k => current_thread'[j] = current_thread[j]
                                  /\ kpc'[j] = kpc[j]
  BY DEF Initialize, TypeOK
<1>7. current_thread'[k] = next_id /\ kpc'[k] = "run" /\ pc'[next_id] = "user"
  BY <1>1 DEF Initialize, TypeOK
<1>8. current_thread[k] = NoThread /\ thread_queue' = thread_queue
  BY DEF Initialize, KernelsOK
<1>9. OneOwner'
  <2>1. \A j, m \in KThread :
          current_thread'[j] = current_thread'[m] /\ current_thread'[j] # NoThread
            => j = m
    BY <1>3, <1>6, <1>7 DEF OneOwner
  <2>2. \A t \in Thread :
          Alive(t)' <=> \/ t \in Queued(thread_queue')
                        \/ \E j \in KThread : current_thread'[j] = t
    <3> SUFFICES ASSUME NEW t \in Thread
                 PROVE  Alive(t)' <=> \/ t \in Queued(thread_queue')
                                      \/ \E j \in KThread : current_thread'[j] = t
      OBVIOUS
    <3>1. CASE t = next_id
      BY <1>7, <3>1 DEF Alive
    <3>2. CASE t # next_id
      <4>1. Alive(t)' <=> Alive(t)
        BY <1>5, <3>2 DEF Alive
      <4>2. (\E j \in KThread : current_thread'[j] = t)
            <=> (\E j \in KThread : current_thread[j] = t)
        BY <1>6, <1>7, <1>8, <3>2 DEF NoThread, Thread
      <4> QED
        BY <1>8, <4>1, <4>2 DEF OneOwner
    <3> QED
      BY <3>1, <3>2
  <2>3. \A j \in KThread : current_thread'[j] \notin Queued(thread_queue')
    BY <1>3, <1>6, <1>7, <1>8 DEF OneOwner
  <2> QED
    BY <1>8, <2>1, <2>2, <2>3 DEF OneOwner
<1>10. KernelsOK'
  BY <1>1, <1>6, <1>7 DEF KernelsOK, Initialize
<1>11. ThreadsOK'
  <2>1. next_id' = next_id + 1
    BY DEF Initialize
  <2>2. \A t \in Thread : pc'[t] = "none" <=> t >= next_id'
    <3> SUFFICES ASSUME NEW t \in Thread
                 PROVE  pc'[t] = "none" <=> t >= next_id'
      OBVIOUS
    <3>1. CASE t = next_id
      BY <1>1, <1>7, <2>1, <3>1 DEF Thread
    <3>2. CASE t # next_id
      <4>1. pc'[t] = "none" <=> t >= next_id
        BY <1>5, <3>2 DEF ThreadsOK
      <4> QED
        BY <1>1, <2>1, <3>2, <4>1 DEF Thread
    <3> QED
      BY <3>1, <3>2
  <2>3. Queued(thread_queue) \subseteq Thread
    BY DEF Queued, TypeOK
  <2>4. Queued(thread_queue') = Queued(thread_queue)
    BY <1>8
  <2>5. \A t \in Queued(thread_queue') : state'[t] = state[t]
    BY <1>3, <1>5, <2>3, <2>4
  <2>6. \A t \in Queued(thread_queue') : state'[t] # "kRunning"
    BY <2>4, <2>5 DEF ThreadsOK
  <2> QED
    BY <2>2, <2>6 DEF ThreadsOK
<1> QED
  BY <1>4, <1>9, <1>10, <1>11

LEMMA CallInv ==
  ASSUME IInv, NEW k \in KThread,
         \/ \E call \in YieldCalls : CallYield(k, call)
         \/ Wait(k)
         \/ FunctionReturns(k)
  PROVE  IInv'
<1> DEFINE t == current_thread[k]
<1> USE DEF InUser, At
<1>1. kpc[k] = "run"
  BY DEF CallYield, Wait, FunctionReturns
<1>2. t \in Thread /\ Alive(t) /\ t \notin Queued(thread_queue)
  BY <1>1, RunningThread
<1>3. YieldCalls \subseteq Calls
  BY YieldForms DEF Calls
<1>4. /\ pc' = [pc EXCEPT ![t] = "yield"]
      /\ \/ state' = state
         \/ state' = [state EXCEPT ![t] = "kWaiting"]
         \/ state' = [state EXCEPT ![t] = "kZombie"]
      /\ \E c \in Calls : op' = [op EXCEPT ![t] = c]
      /\ UNCHANGED <<next_id, initial, thread_queue, current_thread,
                     initial_thread_id, saved, kpc, leaving>>
  BY <1>3 DEF CallYield, Wait, FunctionReturns, schedVars, switchVars, Calls
<1> HIDE DEF t
<1>5. TypeOK'
  <2>1. pc' \in [Thread -> Points]
    BY <1>4 DEF IInv, TypeOK, Points
  <2>2. state' \in [Thread -> States]
    BY <1>4 DEF IInv, TypeOK, States
  <2>3. op' \in [Thread -> Calls]
    BY <1>4 DEF IInv, TypeOK
  <2> QED
    BY <1>4, <2>1, <2>2, <2>3 DEF IInv, TypeOK
<1>6. pc'[t] = "yield" /\ \A x \in Thread : x # t => pc'[x] = pc[x]
  BY <1>2, <1>4 DEF IInv, TypeOK
<1>7. OneOwner'
  BY <1>2, <1>4, <1>6, SameOwners
<1>8. KernelsOK'
  BY <1>4 DEF IInv, KernelsOK
<1>9. ThreadsOK'
  <2>1. \A x \in Thread : pc'[x] = "none" <=> pc[x] = "none"
    BY <1>2, <1>6 DEF Alive
  <2>2. \A x \in Thread : x # t => state'[x] = state[x]
    BY <1>2, <1>4 DEF IInv, TypeOK
  <2>3. \A x \in Queued(thread_queue) : x \in Thread /\ x # t
    BY <1>2 DEF IInv, TypeOK, Queued
  <2> QED
    BY <1>4, <2>1, <2>2, <2>3 DEF IInv, ThreadsOK
<1> QED
  BY <1>5, <1>7, <1>8, <1>9 DEF IInv

LEMMA YieldFailsInv ==
  ASSUME IInv, NEW k \in KThread, YieldFails(k)
  PROVE  IInv'
<1> DEFINE t == current_thread[k]
<1>1. kpc[k] = "run"
  BY DEF YieldFails, At
<1>2. t \in Thread /\ Alive(t) /\ t \notin Queued(thread_queue)
  BY <1>1, RunningThread
<1>3. AfterFailedYield(t) \in {"waited", "aborted", "user"}
  BY DEF AfterFailedYield
<1>4. /\ pc' = [pc EXCEPT ![t] = AfterFailedYield(t)]
      /\ op' = [op EXCEPT ![t] = "none"]
      /\ UNCHANGED <<next_id, state, initial, thread_queue, current_thread,
                     initial_thread_id, saved, kpc, leaving>>
  BY DEF YieldFails, schedVars, switchVars
<1> HIDE DEF t
<1>5. TypeOK'
  BY <1>2, <1>3, <1>4 DEF IInv, TypeOK, Points, Calls
<1>6. pc'[t] \in {"waited", "aborted", "user"}
      /\ \A x \in Thread : x # t => pc'[x] = pc[x]
  BY <1>2, <1>3, <1>4 DEF IInv, TypeOK
<1>7. OneOwner'
  BY <1>2, <1>4, <1>6, SameOwners
<1>8. KernelsOK'
  BY <1>4 DEF IInv, KernelsOK
<1>9. ThreadsOK'
  <2>1. \A x \in Thread : pc'[x] = "none" <=> pc[x] = "none"
    BY <1>2, <1>6 DEF Alive
  <2> QED
    BY <1>4, <2>1 DEF IInv, ThreadsOK
<1> QED
  BY <1>5, <1>7, <1>8, <1>9 DEF IInv

LEMMA SaveContextInv ==
  ASSUME IInv, NEW k \in KThread, SaveContext(k)
  PROVE  IInv'
<1>1. leaving[k] \in Thread
  BY DEF IInv, KernelsOK, SaveContext
<1>2. /\ kpc[k] = "save"
      /\ kpc' = [kpc EXCEPT ![k] = "load"]
      /\ saved' = saved \cup {leaving[k]}
      /\ UNCHANGED <<next_id, state, initial, pc, op, thread_queue,
                     current_thread, initial_thread_id, leaving>>
  BY DEF SaveContext, threadVars, schedVars
<1>3. TypeOK'
  BY <1>1, <1>2 DEF IInv, TypeOK, KPoints
<1>4. OneOwner' /\ ThreadsOK'
  BY <1>2 DEF IInv, OneOwner, ThreadsOK, Alive
<1>5. KernelsOK'
  BY <1>2 DEF IInv, KernelsOK, TypeOK
<1> QED
  BY <1>3, <1>4, <1>5 DEF IInv

LEMMA LoadContextInv ==
  ASSUME IInv, NEW k \in KThread, LoadContext(k)
  PROVE  IInv'
<1> DEFINE t == current_thread[k]
           p == IF pc[t] = "start" THEN "user" ELSE "gc"
           v == IF t \in saved THEN "run" ELSE "lost"
<1>1. kpc[k] = "load"
  BY DEF LoadContext
<1>2. t \in Thread /\ Alive(t)
  BY <1>1, RunningThread
<1>3. /\ pc' = [pc EXCEPT ![t] = p]
      /\ kpc' = [kpc EXCEPT ![k] = v]
      /\ saved' = saved \ {t}
      /\ leaving' = [leaving EXCEPT ![k] = NoThread]
      /\ UNCHANGED <<next_id, state, initial, op, thread_queue,
                     current_thread, initial_thread_id>>
  BY DEF LoadContext, schedVars
<1>4. p \in {"user", "gc"} /\ v \in {"run", "lost"}
  OBVIOUS
<1> HIDE DEF t, p, v
<1>5. TypeOK'
  BY <1>2, <1>3, <1>4 DEF IInv, TypeOK, Points, KPoints
<1>6. pc'[t] \in {"user", "gc"} /\ \A x \in Thread : x # t => pc'[x] = pc[x]
  BY <1>2, <1>3, <1>4 DEF IInv, TypeOK
<1>7. OneOwner'
  BY <1>2, <1>3, <1>6, SameOwners
<1>8. KernelsOK'
  BY <1>2, <1>3, <1>4 DEF IInv, KernelsOK, TypeOK, t
<1>9. ThreadsOK'
  <2>1. \A x \in Thread : pc'[x] = "none" <=> pc[x] = "none"
    BY <1>2, <1>6 DEF Alive
  <2> QED
    BY <1>3, <2>1 DEF IInv, ThreadsOK
<1> QED
  BY <1>5, <1>7, <1>8, <1>9 DEF IInv

LEMMA SpawnInv ==
  ASSUME IInv, NEW k \in KThread, Spawn(k)
  PROVE  IInv'
<1> DEFINE t == current_thread[k]
           n == next_id
<1> USE ThreadBound
<1>1. kpc[k] = "run"
  BY DEF Spawn, InUser, At
<1>2. t \in Thread /\ Alive(t) /\ t \notin Queued(thread_queue)
  BY <1>1, RunningThread
<1>3. n \in Thread /\ n + 1 \in 0 .. MaxThreads /\ pc[n] = "none" /\ ~Alive(n)
  BY FreshThread DEF Spawn, Alive
<1>4. n # t /\ n \notin Queued(thread_queue)
      /\ \A j \in KThread : current_thread[j] # n
  BY FreshThread DEF Spawn
<1>5. /\ next_id' = n + 1
      /\ state' = [state EXCEPT ![n] = "kReady"]
      /\ thread_queue' = PushFront(thread_queue, n)
      /\ pc' = [pc EXCEPT ![n] = "start", ![t] = "yield"]
      /\ op' = [op EXCEPT ![t] = "Spawn"]
      /\ saved' = saved \cup {n}
      /\ UNCHANGED <<initial, current_thread, initial_thread_id, kpc, leaving>>
  BY DEF Spawn
<1> HIDE DEF t, n
<1>6. /\ thread_queue' \in Seq(Thread)
      /\ Queued(thread_queue') = Queued(thread_queue) \cup {n}
      /\ Distinct(thread_queue')
  BY <1>3, <1>4, <1>5, PushFrontProperties DEF IInv, TypeOK, OneOwner
<1>7. TypeOK'
  BY <1>2, <1>3, <1>5, <1>6 DEF IInv, TypeOK, States, Points, Calls
<1>8. /\ pc'[n] = "start" /\ pc'[t] = "yield"
      /\ \A x \in Thread : x # n /\ x # t => pc'[x] = pc[x]
  BY <1>2, <1>3, <1>4, <1>5 DEF IInv, TypeOK
<1>9. \A x \in Thread : Alive(x)' <=> (Alive(x) \/ x = n)
  BY <1>2, <1>3, <1>4, <1>8 DEF Alive
<1>10. OneOwner'
  BY <1>3, <1>4, <1>5, <1>6, <1>9 DEF IInv, OneOwner
<1>11. KernelsOK'
  BY <1>5 DEF IInv, KernelsOK
<1>12. ThreadsOK'
  <2>1. n = next_id /\ next_id' = n + 1 /\ next_id \in Int
    BY <1>5 DEF n, IInv, TypeOK
  <2>2. \A x \in Thread : pc'[x] = "none" <=> pc[x] = "none" /\ x # n
    BY <1>2, <1>3, <1>8 DEF Alive
  <2>3. \A x \in Thread : pc'[x] = "none" <=> x >= next_id'
    BY <2>1, <2>2 DEF IInv, ThreadsOK, Thread
  <2>4. state'[n] = "kReady" /\ \A x \in Thread : x # n => state'[x] = state[x]
    BY <1>3, <1>5 DEF IInv, TypeOK
  <2>5. Queued(thread_queue) \subseteq Thread
    BY DEF IInv, TypeOK, Queued
  <2>6. \A x \in Queued(thread_queue') : state'[x] # "kRunning"
    BY <1>6, <2>4, <2>5 DEF IInv, ThreadsOK
  <2> QED
    BY <2>3, <2>6 DEF ThreadsOK
<1> QED
  BY <1>7, <1>10, <1>11, <1>12 DEF IInv

LEMMA KernelExitsInv ==
  ASSUME IInv, NEW k \in KThread, KernelExits(k)
  PROVE  IInv'
<1> DEFINE t == current_thread[k]
           v == IF t = initial_thread_id[k] THEN "exited" ELSE "lost"
<1>1. kpc[k] = "run"
  BY DEF KernelExits, At
<1>2. t \in Thread /\ Alive(t) /\ t \notin Queued(thread_queue)
  BY <1>1, RunningThread
<1>3. /\ pc' = [pc EXCEPT ![t] = "done"]
      /\ current_thread' = [current_thread EXCEPT ![k] = NoThread]
      /\ kpc' = [kpc EXCEPT ![k] = v]
      /\ UNCHANGED <<next_id, state, initial, op, thread_queue,
                     initial_thread_id, saved, leaving>>
  BY DEF KernelExits
<1>4. v \in {"exited", "lost"} /\ t = current_thread[k] /\ NoThread \notin Thread
  BY DEF NoThread, Thread
<1> HIDE DEF t, v
<1>5. TypeOK'
  BY <1>2, <1>3, <1>4 DEF IInv, TypeOK, Points, KPoints
<1>6. pc'[t] = "done" /\ \A x \in Thread : x # t => pc'[x] = pc[x]
  BY <1>2, <1>3 DEF IInv, TypeOK
<1>7. current_thread'[k] = NoThread
      /\ \A j \in KThread : j # k => current_thread'[j] = current_thread[j]
  BY <1>3 DEF IInv, TypeOK
<1>8. \A x \in Thread : Alive(x)' <=> (Alive(x) /\ x # t)
  BY <1>6 DEF Alive
<1>9. OneOwner'
  <2>1. \A x \in Thread :
          (\E j \in KThread : current_thread'[j] = x)
          <=> x # t /\ \E j \in KThread : current_thread[j] = x
    BY <1>2, <1>4, <1>7 DEF IInv, OneOwner
  <2>2. NoThread \notin Queued(thread_queue)
    BY <1>4 DEF IInv, TypeOK, Queued
  <2> QED
    BY <1>2, <1>3, <1>7, <1>8, <2>1, <2>2 DEF IInv, OneOwner
<1>10. KernelsOK'
  BY <1>3, <1>4, <1>7 DEF IInv, KernelsOK, TypeOK
<1>11. ThreadsOK'
  <2>1. \A x \in Thread : pc'[x] = "none" <=> pc[x] = "none"
    BY <1>2, <1>6 DEF Alive
  <2> QED
    BY <1>3, <2>1 DEF IInv, ThreadsOK
<1> QED
  BY <1>5, <1>9, <1>10, <1>11 DEF IInv

(* What the locked part of Yield does to the queue.                         *)
LEMMA SwitchQueue ==
  ASSUME IInv, NEW k \in KThread, kpc[k] = "run",
         NEW i \in DOMAIN thread_queue, SwitchTo(k, i)
  PROVE  /\ thread_queue[i] \in Thread
         /\ thread_queue[i] # current_thread[k]
         /\ thread_queue' \in Seq(Thread)
         /\ Distinct(thread_queue')
         /\ Queued(thread_queue') =
              (Queued(thread_queue) \ {thread_queue[i]}) \cup {current_thread[k]}
         /\ \A x, y : Ahead(thread_queue', x, y) =>
                        Ahead(thread_queue, x, y) \/ y = current_thread[k]
<1> DEFINE q == thread_queue
           r == Keep(q, DOMAIN q \ {i})
           t == current_thread[k]
<1>1. t \in Thread /\ t \notin Queued(q)
  BY RunningThread
<1>2. q \in Seq(Thread) /\ Distinct(q)
  BY DEF IInv, TypeOK, OneOwner
<1>3. q[i] \in Queued(q) /\ q[i] \in Thread
  BY <1>2 DEF Queued
<1>4. thread_queue' = PushBack(r, t)
  BY DEF SwitchTo
<1>5. /\ r \in Seq(Thread) /\ Distinct(r)
      /\ Queued(r) = {q[j] : j \in DOMAIN q \ {i}}
      /\ \A x, y : Ahead(r, x, y) => Ahead(q, x, y)
  <2> DEFINE S == DOMAIN q \ {i}
  <2>1. S \in SUBSET DOMAIN q
    OBVIOUS
  <2> HIDE DEF q, S
  <2>2. /\ Keep(q, S) \in Seq(Thread)
        /\ Queued(Keep(q, S)) = {q[j] : j \in S}
        /\ Distinct(Keep(q, S))
        /\ \A x, y : Ahead(Keep(q, S), x, y)
                       <=> \E m, j \in S : m < j /\ q[m] = x /\ q[j] = y
    BY <1>2, <2>1, KeepProperties
  <2>3. \A x, y : Ahead(Keep(q, S), x, y) => Ahead(q, x, y)
    BY <2>1, <2>2 DEF Ahead
  <2> QED
    BY <2>2, <2>3 DEF S
<1>6. Queued(r) = Queued(q) \ {q[i]}
  BY <1>2, <1>5 DEF Queued, Distinct
<1> HIDE DEF r, t
<1>7. /\ PushBack(r, t) \in Seq(Thread)
      /\ Queued(PushBack(r, t)) = Queued(r) \cup {t}
      /\ Distinct(PushBack(r, t))
      /\ \A x, y : Ahead(PushBack(r, t), x, y) => Ahead(r, x, y) \/ y = t
  BY <1>1, <1>5, <1>6, PushBackProperties
<1> QED
  BY <1>1, <1>3, <1>4, <1>5, <1>6, <1>7 DEF t

LEMMA YieldInv ==
  ASSUME IInv, NEW k \in KThread, Yield(k)
  PROVE  IInv'
<1>1. kpc[k] = "run"
  BY DEF Yield, At
<1>2. PICK i \in DOMAIN thread_queue : SwitchTo(k, i)
  BY DEF Yield, Candidates
<1> DEFINE t == current_thread[k]
           n == thread_queue[i]
           v == IF state[t] = "kRunning" THEN "kReady" ELSE state[t]
<1>3. t \in Thread /\ Alive(t) /\ t \notin Queued(thread_queue)
  BY <1>1, RunningThread
<1>4. /\ n \in Thread /\ n # t /\ n \in Queued(thread_queue)
      /\ thread_queue' \in Seq(Thread)
      /\ Distinct(thread_queue')
      /\ Queued(thread_queue') = (Queued(thread_queue) \ {n}) \cup {t}
  BY <1>1, <1>2, SwitchQueue DEF Queued
<1>5. /\ state' = [state EXCEPT ![t] = v, ![n] = "kRunning"]
      /\ current_thread' = [current_thread EXCEPT ![k] = n]
      /\ pc' = [pc EXCEPT ![t] = "switched"]
      /\ kpc' = [kpc EXCEPT ![k] = "save"]
      /\ leaving' = [leaving EXCEPT ![k] = t]
      /\ UNCHANGED <<next_id, initial, op, initial_thread_id, saved>>
  BY <1>2 DEF SwitchTo
<1>6. v \in States /\ v # "kRunning" /\ t = current_thread[k]
  BY <1>3 DEF IInv, TypeOK, States
<1> HIDE DEF t, n, v
<1>7. TypeOK'
  BY <1>3, <1>4, <1>5, <1>6 DEF IInv, TypeOK, States, Points, KPoints
<1>8. pc'[t] = "switched" /\ \A x \in Thread : x # t => pc'[x] = pc[x]
  BY <1>3, <1>5 DEF IInv, TypeOK
<1>9. \A x \in Thread : Alive(x)' <=> Alive(x)
  BY <1>3, <1>8 DEF Alive
<1>10. current_thread'[k] = n
       /\ \A j \in KThread : j # k => current_thread'[j] = current_thread[j]
  BY <1>5 DEF IInv, TypeOK
<1>11. OneOwner'
  <2>1. \A j \in KThread : j # k => current_thread[j] # n /\ current_thread[j] # t
    BY <1>3, <1>4, <1>6 DEF IInv, OneOwner, NoThread, Thread
  <2>2. \A j \in KThread : current_thread'[j] \notin Queued(thread_queue')
    BY <1>3, <1>4, <1>10, <2>1 DEF IInv, OneOwner
  <2>3. \A j, m \in KThread :
          current_thread'[j] = current_thread'[m] /\ current_thread'[j] # NoThread
            => j = m
    BY <1>10, <2>1 DEF IInv, OneOwner
  <2>4. \A x \in Thread :
          Alive(x)' <=> \/ x \in Queued(thread_queue')
                        \/ \E j \in KThread : current_thread'[j] = x
    BY <1>3, <1>4, <1>6, <1>9, <1>10 DEF IInv, OneOwner
  <2> QED
    BY <1>4, <2>2, <2>3, <2>4 DEF OneOwner
<1>12. KernelsOK'
  BY <1>3, <1>4, <1>5, <1>10 DEF IInv, KernelsOK, TypeOK
<1>13. ThreadsOK'
  <2>1. \A x \in Thread : pc'[x] = "none" <=> pc[x] = "none"
    BY <1>3, <1>8 DEF Alive
  <2>2. /\ state'[t] = v
        /\ \A x \in Thread : x # t /\ x # n => state'[x] = state[x]
    BY <1>3, <1>4, <1>5 DEF IInv, TypeOK
  <2>3. Queued(thread_queue) \subseteq Thread
    BY DEF IInv, TypeOK, Queued
  <2>4. \A x \in Queued(thread_queue') : state'[x] # "kRunning"
    BY <1>4, <1>6, <2>2, <2>3 DEF IInv, ThreadsOK
  <2> QED
    BY <1>5, <2>1, <2>4 DEF IInv, ThreadsOK
<1> QED
  BY <1>7, <1>11, <1>12, <1>13 DEF IInv

(* What GarbageCollect does to the queue.                                   *)
LEMMA CollectQueue ==
  ASSUME IInv, NEW k \in KThread, GarbageCollect(k)
  PROVE  /\ thread_queue' \in Seq(Thread)
         /\ Distinct(thread_queue')
         /\ Queued(thread_queue') =
              {x \in Queued(thread_queue) : state[x] # "kZombie"}
         /\ \A x, y : Ahead(thread_queue', x, y) => Ahead(thread_queue, x, y)
<1> DEFINE q == thread_queue
           S == {i \in DOMAIN q : state[q[i]] # "kZombie"}
<1>1. q \in Seq(Thread) /\ Distinct(q)
  BY DEF IInv, TypeOK, OneOwner
<1>2. S \in SUBSET DOMAIN q /\ thread_queue' = Keep(q, S)
  BY DEF GarbageCollect
<1>3. {q[i] : i \in S} = {x \in Queued(q) : state[x] # "kZombie"}
  BY DEF Queued
<1> HIDE DEF q, S
<1>4. /\ Keep(q, S) \in Seq(Thread)
      /\ Queued(Keep(q, S)) = {q[i] : i \in S}
      /\ Distinct(Keep(q, S))
      /\ \A x, y : Ahead(Keep(q, S), x, y)
                     <=> \E m, j \in S : m < j /\ q[m] = x /\ q[j] = y
  BY <1>1, <1>2, KeepProperties
<1>5. \A x, y : Ahead(Keep(q, S), x, y) => Ahead(q, x, y)
  BY <1>2, <1>4 DEF Ahead
<1> QED
  BY <1>2, <1>3, <1>4, <1>5 DEF q

LEMMA GarbageCollectInv ==
  ASSUME IInv, NEW k \in KThread, GarbageCollect(k)
  PROVE  IInv'
<1> DEFINE t == current_thread[k]
           q == thread_queue
           Z == {x \in Queued(q) : state[x] = "kZombie"}
<1>1. kpc[k] = "run"
  BY DEF GarbageCollect, At
<1>2. t \in Thread /\ Alive(t) /\ t \notin Queued(q)
  BY <1>1, RunningThread
<1>3. /\ thread_queue' \in Seq(Thread)
      /\ Distinct(thread_queue')
      /\ Queued(thread_queue') = Queued(q) \ Z
  BY CollectQueue
<1>4. AfterYield(t) \in {"yield", "aborted", "user"}
  BY DEF AfterYield
<1>5. /\ pc' = [x \in Thread |->
                  IF x = t THEN AfterYield(t)
                  ELSE IF x \in Z THEN "freed" ELSE pc[x]]
      /\ state' = [state EXCEPT ![t] = IF op[t] = "Wait" THEN "kWaiting" ELSE @]
      /\ op' = [op EXCEPT ![t] = IF @ = "Wait" THEN @ ELSE "none"]
      /\ UNCHANGED <<next_id, initial, current_thread, initial_thread_id,
                     saved, kpc, leaving>>
  BY DEF GarbageCollect, switchVars
<1>6. Z \subseteq Queued(q) /\ Queued(q) \subseteq Thread
  BY DEF IInv, TypeOK, Queued
<1>7. thread_queue = q /\ current_thread[k] = t
  OBVIOUS
<1> HIDE DEF t, q, Z
<1>8. /\ pc'[t] \in {"yield", "aborted", "user"}
      /\ \A x \in Z : pc'[x] = "freed"
      /\ \A x \in Thread : x # t /\ x \notin Z => pc'[x] = pc[x]
  BY <1>2, <1>4, <1>5, <1>6
<1>9. TypeOK'
  <2>1. pc' \in [Thread -> Points]
    BY <1>4, <1>5 DEF IInv, TypeOK, Points
  <2>2. state' \in [Thread -> States] /\ op' \in [Thread -> Calls]
    BY <1>2, <1>5 DEF IInv, TypeOK, States, Calls
  <2> QED
    BY <1>3, <1>5, <2>1, <2>2 DEF IInv, TypeOK
<1>10. \A x \in Thread : Alive(x)' <=> Alive(x) /\ x \notin Z
  BY <1>2, <1>6, <1>8 DEF Alive
<1>11. OneOwner'
  <2>1. \A x \in Z : \A j \in KThread : current_thread[j] # x
    BY <1>6, <1>7 DEF IInv, OneOwner
  <2> QED
    BY <1>3, <1>5, <1>7, <1>10, <2>1 DEF IInv, OneOwner
<1>12. KernelsOK'
  BY <1>5 DEF IInv, KernelsOK
<1>13. ThreadsOK'
  <2>1. \A x \in Thread : pc'[x] = "none" <=> pc[x] = "none"
    <3>1. \A x \in Z : Alive(x)
      BY <1>6, <1>7 DEF IInv, OneOwner
    <3> QED
      BY <1>2, <1>8, <3>1 DEF Alive
  <2>2. \A x \in Thread : x # t => state'[x] = state[x]
    BY <1>2, <1>5 DEF IInv, TypeOK
  <2>3. \A x \in Queued(thread_queue') : state'[x] # "kRunning"
    BY <1>2, <1>3, <1>6, <1>7, <2>2 DEF IInv, ThreadsOK
  <2> QED
    BY <1>5, <2>1, <2>3 DEF IInv, ThreadsOK
<1> QED
  BY <1>9, <1>11, <1>12, <1>13 DEF IInv

LEMMA NextInv == IInv /\ [Next]_vars => IInv'
<1> SUFFICES ASSUME IInv, [Next]_vars PROVE IInv'
  OBVIOUS
<1>1. ASSUME NEW k \in KThread, KernelStep(k) PROVE IInv'
  <2>1. CASE Initialize(k)
    BY <2>1, InitializeInv
  <2>2. CASE Spawn(k)
    BY <2>2, SpawnInv
  <2>3. CASE \E call \in YieldCalls : CallYield(k, call)
    BY <2>3, CallInv
  <2>4. CASE Wait(k)
    BY <2>4, CallInv
  <2>5. CASE FunctionReturns(k)
    BY <2>5, CallInv
  <2>6. CASE KernelExits(k)
    BY <2>6, KernelExitsInv
  <2>7. CASE YieldFails(k)
    BY <2>7, YieldFailsInv
  <2>8. CASE Yield(k)
    BY <2>8, YieldInv
  <2>9. CASE SaveContext(k)
    BY <2>9, SaveContextInv
  <2>10. CASE LoadContext(k)
    BY <2>10, LoadContextInv
  <2>11. CASE GarbageCollect(k)
    BY <2>11, GarbageCollectInv
  <2> QED
    BY <1>1, <2>1, <2>2, <2>3, <2>4, <2>5, <2>6,
       <2>7, <2>8, <2>9, <2>10, <2>11 DEF KernelStep
<1>2. CASE UNCHANGED vars
  BY <1>2 DEF vars, threadVars, schedVars, switchVars, IInv, TypeOK, OneOwner,
     KernelsOK, ThreadsOK, Alive
<1> QED
  BY <1>1, <1>2 DEF Next, Halted

(* The inductive invariant holds in every reachable state.                  *)
THEOREM Invariance == Spec => []IInv
<1> QED
  BY InitInv, NextInv, PTL DEF Spec

(* Every variable keeps its type, whatever the numbers of threads.          *)
THEOREM TypeCorrect == Spec => []TypeOK
<1>1. IInv => TypeOK
  BY DEF IInv
<1> QED
  BY Invariance, <1>1, PTL

(* Each live green thread is owned exactly once, by the queue or by one     *)
(* kernel thread: Yield's two moves and GarbageCollect's rebuild neither    *)
(* lose nor duplicate a thread, however the kernel threads interleave.      *)
THEOREM ThreadsOwnedOnce == Spec => []OneOwner
<1>1. IInv => OneOwner
  BY DEF IInv
<1> QED
  BY Invariance, <1>1, PTL

-----------------------------------------------------------------------------
(* A step that leaves the queue and the running threads alone overtakes     *)
(* nobody.                                                                  *)

(* The body of RoundRobin for two given threads.                            *)
Overtaking(x, y) ==
  WaitsForTurn(x) /\ WaitsForTurn(x)' =>
    /\ Ahead(thread_queue, y, x)' => Ahead(thread_queue, y, x) \/ pc[y] = "none"
    /\ (y \in Queued(thread_queue) /\ state'[y] = "kRunning") =>
         Ahead(thread_queue, y, x)

LEMMA SameQueueOrder ==
  ASSUME IInv, NEW x \in Thread, NEW y \in Thread,
         thread_queue' = thread_queue,
         \A z \in Queued(thread_queue) : state'[z] = state[z]
  PROVE  Overtaking(x, y)
BY DEF Overtaking, IInv, ThreadsOK, Ahead

LEMMA YieldOrder ==
  ASSUME IInv, NEW k \in KThread, Yield(k), NEW x \in Thread, NEW y \in Thread
  PROVE  Overtaking(x, y)
<1> DEFINE q == thread_queue
           t == current_thread[k]
<1> SUFFICES ASSUME WaitsForTurn(x), WaitsForTurn(x)'
             PROVE  /\ Ahead(q, y, x)' => Ahead(q, y, x) \/ pc[y] = "none"
                    /\ (y \in Queued(q) /\ state'[y] = "kRunning")
                         => Ahead(q, y, x)
  BY DEF Overtaking
<1>1. kpc[k] = "run"
  BY DEF Yield, At
<1>2. PICK i \in Candidates(k) :
        (\A j \in Candidates(k) : i <= j) /\ SwitchTo(k, i)
  BY DEF Yield
<1>3. i \in DOMAIN q
  BY <1>2 DEF Candidates
<1>4. t \in Thread /\ t \notin Queued(q)
  BY <1>1, RunningThread
<1>5. /\ q[i] \in Thread /\ q[i] # t
      /\ \A u, w : Ahead(q', u, w) => Ahead(q, u, w) \/ w = t
  BY <1>1, <1>2, <1>3, SwitchQueue
<1>6. x \in Queued(q) /\ state[x] = "kReady" /\ x \notin initial
      /\ state'[x] # "kRunning"
  BY DEF WaitsForTurn
<1>7. Ahead(q, y, x)' => Ahead(q, y, x)
  BY <1>4, <1>5, <1>6
<1>8. \A u \in Thread : u # t /\ u # q[i] => state'[u] = state[u]
  BY <1>2, <1>4, <1>5 DEF SwitchTo, IInv, TypeOK
<1>9. state'[q[i]] = "kRunning"
  BY <1>2, <1>4, <1>5 DEF SwitchTo, IInv, TypeOK
<1>10. ASSUME y \in Queued(q), state'[y] = "kRunning" PROVE Ahead(q, y, x)
  <2>1. y = q[i]
    BY <1>4, <1>8, <1>10 DEF IInv, ThreadsOK
  <2>2. PICK j \in DOMAIN q : q[j] = x
    BY <1>6 DEF Queued
  <2>3. j \in Candidates(k)
    BY <1>6, <2>2 DEF Candidates, Eligible
  <2>4. i # j
    BY <1>6, <1>9, <2>2
  <2>5. i < j
    <3>1. DOMAIN q \subseteq Int
      BY DEF IInv, TypeOK
    <3> QED
      BY <1>2, <1>3, <2>2, <2>3, <2>4, <3>1
  <2> QED
    BY <1>3, <2>1, <2>2, <2>5 DEF Ahead
<1> QED
  BY <1>7, <1>10

LEMMA NextOrder ==
  ASSUME IInv, Next, NEW x \in Thread, NEW y \in Thread
  PROVE  Overtaking(x, y)
<1> DEFINE q == thread_queue
<1>1. Queued(q) \subseteq Thread
  BY DEF IInv, TypeOK, Queued
<1>2. CASE Halted
  BY <1>2, SameQueueOrder DEF Halted, vars, threadVars, schedVars
<1>3. ASSUME NEW k \in KThread, KernelStep(k)
      PROVE  Overtaking(x, y)
  <2> DEFINE t == current_thread[k]
  <2>1. CASE Initialize(k)
    <3>1. next_id \in Thread /\ next_id \notin Queued(q)
      BY <2>1, FreshThread DEF Initialize
    <3>2. \A z \in Queued(q) : state'[z] = state[z]
      BY <1>1, <2>1, <3>1 DEF Initialize, IInv, TypeOK
    <3> QED
      BY <2>1, <3>2, SameQueueOrder DEF Initialize
  <2>2. CASE Spawn(k)
    <3>1. next_id \in Thread /\ pc[next_id] = "none" /\ next_id \notin Queued(q)
      BY <2>2, FreshThread DEF Spawn
    <3>2. \A z \in Queued(q) : state'[z] = state[z]
      BY <1>1, <2>2, <3>1 DEF Spawn, IInv, TypeOK
    <3>3. \A u, w : Ahead(PushFront(q, next_id), u, w)
                      => Ahead(q, u, w) \/ u = next_id
      BY <3>1, PushFrontProperties DEF IInv, TypeOK
    <3>4. thread_queue' = PushFront(q, next_id)
      BY <2>2 DEF Spawn
    <3>5. Ahead(q, y, x)' => Ahead(q, y, x) \/ pc[y] = "none"
      BY <3>1, <3>3, <3>4
    <3>6. y \in Queued(q) => state'[y] # "kRunning"
      BY <3>2 DEF IInv, ThreadsOK
    <3> QED
      BY <3>5, <3>6 DEF Overtaking
  <2>3. CASE \/ \E call \in YieldCalls : CallYield(k, call)
             \/ YieldFails(k) \/ KernelExits(k)
             \/ SaveContext(k) \/ LoadContext(k)
    BY <2>3, SameQueueOrder
       DEF CallYield, YieldFails, KernelExits, SaveContext, LoadContext,
           threadVars, schedVars
  <2>4. CASE Wait(k) \/ FunctionReturns(k)
    <3>1. t \in Thread /\ t \notin Queued(q)
      <4>1. kpc[k] = "run"
        BY <2>4 DEF Wait, FunctionReturns, InUser, At
      <4> QED
        BY <4>1, RunningThread
    <3>2. \A z \in Queued(q) : state'[z] = state[z]
      BY <1>1, <2>4, <3>1 DEF Wait, FunctionReturns, IInv, TypeOK
    <3> QED
      BY <2>4, <3>2, SameQueueOrder DEF Wait, FunctionReturns, schedVars
  <2>5. CASE Yield(k)
    BY <2>5, YieldOrder
  <2>6. CASE GarbageCollect(k)
    <3>1. t \in Thread /\ t \notin Queued(q)
      <4>1. kpc[k] = "run"
        BY <2>6 DEF GarbageCollect, At
      <4> QED
        BY <4>1, RunningThread
    <3>2. \A z \in Queued(q) : state'[z] = state[z]
      BY <1>1, <2>6, <3>1 DEF GarbageCollect, IInv, TypeOK
    <3>3. Ahead(q, y, x)' => Ahead(q, y, x)
      BY <2>6, CollectQueue
    <3>4. y \in Queued(q) => state'[y] # "kRunning"
      BY <3>2 DEF IInv, ThreadsOK
    <3> QED
      BY <3>3, <3>4 DEF Overtaking
  <2> QED
    BY <1>3, <2>1, <2>2, <2>3, <2>4, <2>5, <2>6 DEF KernelStep
<1> QED
  BY <1>2, <1>3 DEF Next

(* While a spawned thread waits for its turn nobody overtakes it: only      *)
(* threads queued ahead of it are switched to, and only a thread that is    *)
(* just being spawned is put ahead of it.                                   *)
THEOREM NobodyOvertakes == Spec => RoundRobin
<1> DEFINE Step == \A x, y \in Thread : Overtaking(x, y)
<1>1. IInv /\ [Next]_vars => [Step]_vars
  BY NextOrder
<1>2. [Step]_vars => [\A x, y \in Thread :
       WaitsForTurn(x) /\ WaitsForTurn(x)' =>
         /\ Ahead(thread_queue, y, x)' =>
              Ahead(thread_queue, y, x) \/ pc[y] = "none"
         /\ (y \in Queued(thread_queue) /\ state'[y] = "kRunning") =>
              Ahead(thread_queue, y, x)]_vars
  BY DEF Overtaking
<1> QED
  BY Invariance, <1>1, <1>2, PTL DEF Spec, RoundRobin

-----------------------------------------------------------------------------
(***************************************************************************)
(* Any number of kernel threads: assertions, and the threads that nobody   *)
(* waits for. What the kernel threads do is related by Roles, Watched and  *)
(* Homes.                                                                  *)
(***************************************************************************)

(* The kernel threads that are executing code of the program.               *)
Active(k) == kpc[k] \in {"run", "save", "load"}

(* Only initial threads wait, and exactly the threads whose function has    *)
(* returned are zombies.                                                    *)
ThreadRole(t) ==
  /\ op[t] = "Wait" \/ pc[t] = "waited" => t \in initial
  /\ pc[t] = "none" => op[t] = "none"
  /\ t \in initial => pc[t] \notin {"none", "start"} /\ op[t] # "Exit"
  /\ Alive(t) =>
       /\ state[t] = "kZombie" <=> op[t] = "Exit"
       /\ state[t] = "kWaiting" => t \in initial

(* A kernel thread switches to a thread it has marked running, and a zombie *)
(* it runs has not left the Yield of its end yet.                           *)
KernelRole(k) ==
  /\ kpc[k] \in {"save", "load"} => state[current_thread[k]] = "kRunning"
  /\ kpc[k] = "run" /\ state[current_thread[k]] = "kZombie" =>
       pc[current_thread[k]] = "yield"
  /\ kpc[k] = "exited" => current_thread[k] = NoThread

Roles ==
  /\ \A t \in Thread : ThreadRole(t)
  /\ \A k \in KThread : KernelRole(k)

(* Each kernel thread that has not ended has an initial thread of its own,  *)
(* wherever that thread runs.                                               *)
Homes ==
  /\ \A k \in KThread : Active(k) =>
       initial_thread_id[k] \in initial /\ Alive(initial_thread_id[k])
  /\ \A k, j \in KThread :
       Active(k) /\ Active(j) /\ initial_thread_id[k] = initial_thread_id[j]
         => k = j

(* Kernel thread k will look at the whole queue again before it ends.       *)
LooksAgain(k) ==
  \/ kpc[k] \in {"save", "load"}
  \/ kpc[k] = "run" /\ pc[current_thread[k]] # "waited"

(* Kernel thread k collects the queued zombies next, or runs a spawned      *)
(* thread, which it cannot end on.                                          *)
Collects(k) ==
  \/ kpc[k] \in {"save", "load"}
  \/ At(k, "gc")
  \/ kpc[k] = "run" /\ current_thread[k] \notin initial

(* A finished thread that has not been deleted yet.                         *)
Uncollected(t) == t \in Queued(thread_queue) /\ state[t] = "kZombie"

(* A thread that is left in the queue has a kernel thread to look after it. *)
Watched ==
  /\ (\E t \in Thread : WaitsForTurn(t)) => \E k \in KThread : LooksAgain(k)
  /\ (\E t \in Thread : Uncollected(t)) => \E k \in KThread : Collects(k)

KInv ==
  /\ IInv /\ Roles /\ NoAssertFail
  /\ Running => Homes /\ Watched

(* The step of one kernel thread leaves the others, the threads they run    *)
(* and their initial threads' names alone.                                  *)
LEMMA Bystander ==
  ASSUME IInv, NEW k \in KThread, NEW j \in KThread, j # k, KernelStep(k)
  PROVE  /\ current_thread'[j] = current_thread[j] /\ kpc'[j] = kpc[j]
         /\ initial_thread_id'[j] = initial_thread_id[j]
         /\ Active(j) => /\ pc'[current_thread[j]] = pc[current_thread[j]]
                         /\ state'[current_thread[j]] = state[current_thread[j]]
<1> DEFINE c == current_thread[j]
           t == current_thread[k]
<1>1. TypeOK
  BY DEF IInv
<1>2. /\ current_thread'[j] = current_thread[j] /\ kpc'[j] = kpc[j]
      /\ initial_thread_id'[j] = initial_thread_id[j]
  BY <1>1 DEF KernelStep, Initialize, Spawn, CallYield, Wait, FunctionReturns,
     KernelExits, YieldFails, Yield, SwitchTo, SaveContext, LoadContext,
     GarbageCollect, schedVars, switchVars, TypeOK
<1> SUFFICES ASSUME Active(j)
             PROVE  pc'[c] = pc[c] /\ state'[c] = state[c]
  BY <1>2
<1>3. c \in Thread /\ c \notin Queued(thread_queue)
  BY RunningThread DEF Active
<1>4. c # t
  BY <1>3 DEF IInv, OneOwner, NoThread, Thread
<1>5. CASE Initialize(k)
  BY <1>1, <1>3, <1>5, FreshThread DEF Initialize, TypeOK
<1>6. CASE Spawn(k)
  BY <1>1, <1>3, <1>4, <1>6, FreshThread DEF Spawn, TypeOK
<1>7. CASE \/ \E call \in YieldCalls : CallYield(k, call)
           \/ Wait(k) \/ FunctionReturns(k)
  BY <1>1, <1>3, <1>4, <1>7 DEF CallYield, Wait, FunctionReturns, TypeOK
<1>8. CASE KernelExits(k) \/ YieldFails(k) \/ SaveContext(k) \/ LoadContext(k)
  BY <1>1, <1>3, <1>4, <1>8
  DEF KernelExits, YieldFails, SaveContext, LoadContext, threadVars, TypeOK
<1>9. CASE Yield(k)
  <2>1. PICK i \in DOMAIN thread_queue : SwitchTo(k, i)
    BY <1>9 DEF Yield, Candidates
  <2>2. thread_queue[i] # c
    BY <1>3 DEF Queued
  <2> QED
    BY <1>1, <1>3, <1>4, <2>1, <2>2 DEF SwitchTo, TypeOK
<1>10. CASE GarbageCollect(k)
  BY <1>1, <1>3, <1>4, <1>10 DEF GarbageCollect, TypeOK
<1> QED
  BY <1>5, <1>6, <1>7, <1>8, <1>9, <1>10 DEF KernelStep

(* The step of kernel thread k keeps Roles when k and the threads it        *)
(* changes keep theirs.                                                     *)
LEMMA KeepsRoles ==
  ASSUME IInv, Roles, NEW k \in KThread, KernelStep(k), KernelRole(k)',
         NEW T \in SUBSET Thread, \A t \in T : ThreadRole(t)',
         \A t \in Thread \ T :
           /\ pc'[t] = pc[t] /\ op'[t] = op[t] /\ state'[t] = state[t]
           /\ t \in initial' => t \in initial
  PROVE  Roles'
<1>1. ASSUME NEW j \in KThread, j # k PROVE KernelRole(j)'
  BY <1>1, Bystander DEF KernelRole, Roles, Active
<1>2. initial \subseteq initial'
  BY DEF KernelStep, Initialize, Spawn, CallYield, Wait, FunctionReturns,
     KernelExits, YieldFails, Yield, SwitchTo, SaveContext, LoadContext,
     GarbageCollect, threadVars
<1>3. ASSUME NEW t \in Thread \ T PROVE ThreadRole(t)'
  BY <1>2, <1>3 DEF ThreadRole, Roles, Alive
<1> QED
  BY <1>1, <1>3 DEF Roles

(* The initial threads only grow in number, by a thread that is new.        *)
LEMMA InitialGrows ==
  ASSUME IInv, NEW k \in KThread, KernelStep(k)
  PROVE  /\ initial \subseteq initial'
         /\ \A j \in KThread : j # k /\ current_thread[j] \notin initial
              => current_thread[j] \notin initial'
         /\ \A t \in Thread : Alive(t) /\ t \notin initial => t \notin initial'
<1>1. initial' = initial \/ (Initialize(k) /\ initial' = initial \cup {next_id})
  BY DEF KernelStep, Initialize, Spawn, CallYield, Wait, FunctionReturns,
     KernelExits, YieldFails, Yield, SwitchTo, SaveContext, LoadContext,
     GarbageCollect, threadVars
<1> QED
  BY <1>1, FreshThread DEF Initialize, Alive

(* Who looks again, or collects, goes on doing so while another kernel      *)
(* thread takes its step.                                                   *)
LEMMA OthersKeepLooking ==
  ASSUME IInv, NEW k \in KThread, NEW j \in KThread, j # k, KernelStep(k)
  PROVE  /\ LooksAgain(j) => LooksAgain(j)'
         /\ Collects(j) => Collects(j)'
<1>1. Active(j) => /\ pc'[current_thread[j]] = pc[current_thread[j]]
                   /\ current_thread'[j] = current_thread[j] /\ kpc'[j] = kpc[j]
  BY Bystander
<1>2. current_thread[j] \notin initial => current_thread[j] \notin initial'
  BY InitialGrows
<1> QED
  BY <1>1, <1>2 DEF LooksAgain, Collects, At, Active

(* When the step of kernel thread k keeps Watched.                          *)
LEMMA KeepsWatch ==
  ASSUME IInv, Watched, NEW k \in KThread, KernelStep(k),
         \/ LooksAgain(k)'
         \/ \A t \in Thread : ~WaitsForTurn(t)'
         \/ ~LooksAgain(k) /\ \A t \in Thread : WaitsForTurn(t)' => WaitsForTurn(t),
         \/ Collects(k)'
         \/ \A t \in Thread : ~Uncollected(t)'
         \/ ~Collects(k) /\ \A t \in Thread : Uncollected(t)' => Uncollected(t)
  PROVE  Watched'
<1>1. (\E t \in Thread : WaitsForTurn(t)') => \E j \in KThread : LooksAgain(j)'
  <2>1. ASSUME NEW t \in Thread, WaitsForTurn(t)', ~LooksAgain(k)'
        PROVE  \E j \in KThread : LooksAgain(j)'
    <3>1. WaitsForTurn(t) /\ ~LooksAgain(k)
      BY <2>1
    <3>2. PICK j \in KThread : LooksAgain(j)
      BY <3>1 DEF Watched
    <3> QED
      BY <3>1, <3>2, OthersKeepLooking
  <2> QED
    BY <2>1
<1>2. (\E t \in Thread : Uncollected(t)') => \E j \in KThread : Collects(j)'
  <2>1. ASSUME NEW t \in Thread, Uncollected(t)', ~Collects(k)'
        PROVE  \E j \in KThread : Collects(j)'
    <3>1. Uncollected(t) /\ ~Collects(k)
      BY <2>1
    <3>2. PICK j \in KThread : Collects(j)
      BY <3>1 DEF Watched
    <3> QED
      BY <3>1, <3>2, OthersKeepLooking
  <2> QED
    BY <2>1
<1> QED
  BY <1>1, <1>2 DEF Watched

(* When the step of kernel thread k keeps Homes: it ends no initial thread  *)
(* but its own, and keeps that one's name.                                  *)
LEMMA KeepsHomes ==
  ASSUME IInv, Homes, NEW k \in KThread, KernelStep(k),
         Active(k)' => Active(k) /\ initial_thread_id'[k] = initial_thread_id[k],
         \A t \in initial : Alive(t) => \/ Alive(t)'
                                        \/ ~Active(k)' /\ t = initial_thread_id[k]
                                           /\ Active(k)
  PROVE  Homes'
<1>1. \A j \in KThread : Active(j)' =>
        Active(j) /\ initial_thread_id'[j] = initial_thread_id[j]
  BY Bystander DEF Active
<1>2. ASSUME NEW j \in KThread, Active(j)', NEW h, h = initial_thread_id[j]
      PROVE  h \in initial' /\ pc'[h] \notin {"none", "done", "freed"}
  <2>1. Active(j) /\ h \in initial /\ Alive(h)
    BY <1>1, <1>2 DEF Homes
  <2>2. h = initial_thread_id[k] /\ Active(k) => j = k
    BY <1>2, <2>1 DEF Homes
  <2>3. Alive(h)'
    BY <1>2, <2>1, <2>2
  <2> QED
    BY <2>1, <2>3, InitialGrows DEF Alive
<1> QED
  BY <1>1, <1>2 DEF Homes, Alive

-----------------------------------------------------------------------------
(* Each action of a kernel thread preserves the invariant.                  *)

(* Nothing has happened yet.                                                *)
LEMMA KInit == Init => KInv
<1> SUFFICES ASSUME Init PROVE KInv
  OBVIOUS
<1>1. IInv
  BY InitInv
<1>2. Roles
  BY DEF Init, Roles, ThreadRole, KernelRole, Alive
<1>3. NoAssertFail
  BY DEF Init, NoAssertFail, AssertFailed
<1>4. Homes
  BY DEF Init, Homes, Active
<1>5. Watched
  BY DEF Init, Watched, WaitsForTurn, Uncollected, Queued
<1> QED
  BY <1>1, <1>2, <1>3, <1>4, <1>5 DEF KInv

LEMMA KInitialize ==
  ASSUME KInv, NEW k \in KThread, Initialize(k)
  PROVE  KInv'
<1> DEFINE n == next_id
<1>1. IInv /\ IInv' /\ Roles /\ Homes /\ Watched /\ NoAssertFail /\ TypeOK
  BY InitializeInv DEF KInv, Initialize, IInv
<1>2. /\ n \in Thread /\ pc[n] = "none" /\ n \notin Queued(thread_queue)
      /\ ~Alive(n) /\ op[n] = "none"
  BY <1>1, FreshThread DEF Initialize, Alive, Roles, ThreadRole
<1>3. /\ kpc[k] = "off" /\ kpc'[k] = "run" /\ current_thread'[k] = n
      /\ initial_thread_id'[k] = n /\ initial' = initial \cup {n}
      /\ thread_queue' = thread_queue
      /\ pc'[n] = "user" /\ op'[n] = "none" /\ state'[n] = "kWaiting"
      /\ \A t \in Thread \ {n} :
           pc'[t] = pc[t] /\ op'[t] = op[t] /\ state'[t] = state[t]
  BY <1>1, <1>2 DEF Initialize, TypeOK
<1>4. KernelStep(k)
  BY DEF KernelStep
<1> HIDE DEF n
<1>5. Roles'
  <2>1. (\A x \in {n} : ThreadRole(x)') /\ KernelRole(k)'
    BY <1>3 DEF ThreadRole, KernelRole, Alive
  <2> QED
    BY <1>1, <1>2, <1>3, <1>4, <2>1, KeepsRoles
<1>6. NoAssertFail'
  BY <1>1, <1>3 DEF NoAssertFail, AssertFailed
<1>7. Homes'
  <2>1. \A t \in Thread : Alive(t) => t # n /\ pc'[t] = pc[t]
    BY <1>2, <1>3
  <2>2. \A j \in KThread : j # k =>
          kpc'[j] = kpc[j] /\ initial_thread_id'[j] = initial_thread_id[j]
    BY <1>1, <1>4, Bystander
  <2>3. \A j \in KThread : j # k /\ Active(j) =>
          /\ initial_thread_id[j] \in initial /\ Alive(initial_thread_id[j])
          /\ initial_thread_id[j] \in Thread
    BY <1>1 DEF Homes, TypeOK
  <2> QED
    BY <1>3, <2>1, <2>2, <2>3, <1>1 DEF Homes, Active, Alive
<1>8. Watched'
  <2>1. LooksAgain(k)'
    BY <1>3 DEF LooksAgain
  <2>2. ~Collects(k)
    BY <1>3 DEF Collects, At
  <2>3. \A t \in Thread : Uncollected(t)' => Uncollected(t)
    BY <1>2, <1>3 DEF Uncollected
  <2> QED
    BY <1>1, <1>4, <2>1, <2>2, <2>3, KeepsWatch
<1> QED
  BY <1>1, <1>5, <1>6, <1>7, <1>8 DEF KInv

LEMMA KSpawn ==
  ASSUME KInv, NEW k \in KThread, Spawn(k)
  PROVE  KInv'
<1> DEFINE t == current_thread[k]
           n == next_id
           q == thread_queue
<1>1. IInv /\ IInv' /\ Roles /\ Homes /\ Watched /\ NoAssertFail /\ TypeOK
  BY SpawnInv DEF KInv, Spawn, IInv
<1>2. /\ n \in Thread /\ pc[n] = "none" /\ n \notin Queued(q) /\ n # t
      /\ ~Alive(n) /\ op[n] = "none" /\ n \notin initial
  BY <1>1, FreshThread DEF Spawn, Alive, Roles, ThreadRole
<1>3. /\ kpc[k] = "run" /\ t \in Thread /\ Alive(t) /\ t \notin Queued(q)
      /\ pc[t] \in {"user", "waited"}
  <2>1. kpc[k] = "run" /\ pc[t] \in {"user", "waited"}
    BY DEF Spawn, InUser, At
  <2> QED
    BY <1>1, <2>1, RunningThread
<1>4. /\ kpc'[k] = "run" /\ current_thread'[k] = t
      /\ initial_thread_id' = initial_thread_id /\ initial' = initial
      /\ pc'[n] = "start" /\ state'[n] = "kReady" /\ op'[n] = "none"
      /\ pc'[t] = "yield" /\ op'[t] = "Spawn" /\ state'[t] = state[t]
      /\ \A x \in Thread \ {n, t} :
           pc'[x] = pc[x] /\ op'[x] = op[x] /\ state'[x] = state[x]
  BY <1>1, <1>2, <1>3 DEF Spawn, TypeOK
<1>5. Queued(thread_queue)' = Queued(q) \cup {n}
  <2>1. Queued(PushFront(q, n)) = Queued(q) \cup {n}
    BY <1>1, <1>2, PushFrontProperties DEF IInv, TypeOK
  <2> QED
    BY <2>1 DEF Spawn
<1>6. KernelStep(k) /\ t = current_thread[k] /\ q = thread_queue
  BY DEF KernelStep
<1> HIDE DEF n, t, q
<1>7. Roles'
  <2>1. state[t] # "kZombie" /\ (state[t] = "kWaiting" => t \in initial)
        /\ (t \in initial => pc[t] \notin {"none", "start"})
    BY <1>1, <1>3, <1>6 DEF Roles, KernelRole, ThreadRole
  <2>2. (\A x \in {n, t} : ThreadRole(x)') /\ KernelRole(k)'
    BY <1>2, <1>4, <2>1 DEF ThreadRole, KernelRole, Alive
  <2> QED
    BY <1>1, <1>2, <1>3, <1>4, <1>6, <2>2, KeepsRoles
<1>8. NoAssertFail'
  BY <1>1, <1>4 DEF NoAssertFail, AssertFailed
<1>9. Homes'
  <2>1. \A x \in initial : Alive(x) => Alive(x)'
    BY <1>2, <1>4, <1>1 DEF Alive, TypeOK
  <2> QED
    BY <1>1, <1>3, <1>4, <1>6, <2>1, KeepsHomes DEF Active
<1>10. Watched'
  <2>1. LooksAgain(k)'
    BY <1>4 DEF LooksAgain
  <2>2. Collects(k) => Collects(k)'
    BY <1>3, <1>4, <1>6 DEF Collects, At
  <2>3. \A x \in Thread : Uncollected(x)' => Uncollected(x)
    BY <1>3, <1>4, <1>5, <1>6 DEF Uncollected
  <2> QED
    BY <1>1, <1>6, <2>1, <2>2, <2>3, KeepsWatch
<1> QED
  BY <1>1, <1>7, <1>8, <1>9, <1>10 DEF KInv

(* What a current thread that stays current, in a state it keeps out of the *)
(* queue, needs for its kernel thread's step to keep Watched: the queue is  *)
(* the same.                                                                *)
LEMMA SameQueueWatch ==
  ASSUME IInv, Watched, NEW k \in KThread, KernelStep(k), Active(k),
         thread_queue' = thread_queue, initial' = initial,
         \A x \in Thread : x # current_thread[k] => state'[x] = state[x],
         \/ LooksAgain(k)'
         \/ \A t \in Thread : ~WaitsForTurn(t)
         \/ ~LooksAgain(k),
         Collects(k) => Collects(k)'
  PROVE  Watched'
<1>1. current_thread[k] \notin Queued(thread_queue)
  BY RunningThread DEF Active
<1>2. \A t \in Thread : /\ WaitsForTurn(t)' => WaitsForTurn(t)
                        /\ Uncollected(t)' => Uncollected(t)
  BY <1>1 DEF WaitsForTurn, Uncollected
<1> QED
  BY <1>2, KeepsWatch

LEMMA KCall ==
  ASSUME KInv, NEW k \in KThread,
         \/ \E call \in YieldCalls : CallYield(k, call)
         \/ Wait(k)
         \/ FunctionReturns(k)
  PROVE  KInv'
<1> DEFINE t == current_thread[k]
<1>1. IInv /\ IInv' /\ Roles /\ Homes /\ Watched /\ NoAssertFail /\ TypeOK
  BY CallInv DEF KInv, CallYield, Wait, FunctionReturns, IInv
<1>2. /\ kpc[k] = "run" /\ t \in Thread /\ Alive(t) /\ t \notin Queued(thread_queue)
      /\ pc[t] \in {"user", "waited"}
  <2>1. kpc[k] = "run" /\ pc[t] \in {"user", "waited"}
    BY DEF CallYield, Wait, FunctionReturns, InUser, At
  <2> QED
    BY <1>1, <2>1, RunningThread
<1>3. /\ initial' = initial /\ thread_queue' = thread_queue /\ kpc' = kpc
      /\ current_thread' = current_thread
      /\ initial_thread_id' = initial_thread_id
      /\ pc'[t] = "yield"
      /\ \A x \in Thread \ {t} :
           pc'[x] = pc[x] /\ op'[x] = op[x] /\ state'[x] = state[x]
  BY <1>1, <1>2
  DEF CallYield, Wait, FunctionReturns, schedVars, switchVars, TypeOK
<1>4. \/ op'[t] \in YieldCalls /\ state'[t] = state[t]
      \/ op'[t] = "Wait" /\ state'[t] = "kWaiting" /\ t \in initial
      \/ op'[t] = "Exit" /\ state'[t] = "kZombie" /\ t \notin initial
  BY <1>1, <1>2 DEF CallYield, Wait, FunctionReturns, TypeOK
<1>5. KernelStep(k) /\ t = current_thread[k]
  BY DEF KernelStep
<1> HIDE DEF t
<1>6. Roles'
  <2>1. state[t] # "kZombie" /\ (state[t] = "kWaiting" => t \in initial)
    BY <1>1, <1>2, <1>5 DEF Roles, KernelRole, ThreadRole
  <2>2. \A x \in {t} : ThreadRole(x)'
    BY <1>2, <1>3, <1>4, <2>1, YieldForms DEF ThreadRole, Alive
  <2>3. KernelRole(k)'
    BY <1>2, <1>3, <1>5 DEF KernelRole
  <2>4. /\ {t} \in SUBSET Thread
        /\ \A x \in Thread \ {t} :
             /\ pc'[x] = pc[x] /\ op'[x] = op[x] /\ state'[x] = state[x]
             /\ x \in initial' => x \in initial
    BY <1>2, <1>3
  <2> QED
    BY <1>1, <1>5, <2>2, <2>3, <2>4, KeepsRoles
<1>7. NoAssertFail'
  BY <1>1, <1>3 DEF NoAssertFail, AssertFailed
<1>8. Homes'
  <2>1. \A x \in initial : Alive(x) => Alive(x)'
    BY <1>1, <1>3 DEF Alive, TypeOK
  <2> QED
    BY <1>1, <1>2, <1>3, <1>5, <2>1, KeepsHomes DEF Active
<1>9. Watched'
  <2>1. LooksAgain(k)'
    BY <1>2, <1>3, <1>5 DEF LooksAgain
  <2>2. Collects(k) => Collects(k)'
    BY <1>2, <1>3, <1>5 DEF Collects, At
  <2> QED
    BY <1>1, <1>2, <1>3, <1>5, <2>1, <2>2, SameQueueWatch DEF Active
<1> QED
  BY <1>1, <1>6, <1>7, <1>8, <1>9 DEF KInv

(* A kernel thread that ends on another one's initial thread is lost; one   *)
(* that ends on its own takes its home with it.                             *)
LEMMA KExits ==
  ASSUME KInv, NEW k \in KThread, KernelExits(k)
  PROVE  KInv'
<1> DEFINE t == current_thread[k]
<1>1. IInv /\ IInv' /\ Roles /\ Homes /\ Watched /\ NoAssertFail /\ TypeOK
  BY KernelExitsInv DEF KInv, KernelExits, IInv
<1>2. /\ kpc[k] = "run" /\ t \in Thread /\ Alive(t) /\ t \notin Queued(thread_queue)
      /\ pc[t] = "waited" /\ t \in initial
  <2>1. kpc[k] = "run" /\ pc[t] = "waited"
    BY DEF KernelExits, At
  <2> QED
    BY <1>1, <2>1, RunningThread DEF Roles, ThreadRole
<1>3. /\ initial' = initial /\ thread_queue' = thread_queue
      /\ state' = state /\ op' = op /\ initial_thread_id' = initial_thread_id
      /\ current_thread'[k] = NoThread
      /\ kpc'[k] = IF t = initial_thread_id[k] THEN "exited" ELSE "lost"
      /\ pc'[t] = "done" /\ \A x \in Thread \ {t} : pc'[x] = pc[x]
  BY <1>1, <1>2 DEF KernelExits, TypeOK
<1>4. KernelStep(k) /\ t = current_thread[k]
  BY DEF KernelStep
<1> HIDE DEF t
<1>5. Roles'
  <2>1. \A x \in {t} : ThreadRole(x)'
    BY <1>1, <1>2, <1>3 DEF Roles, ThreadRole, Alive
  <2>2. KernelRole(k)'
    BY <1>3 DEF KernelRole
  <2>3. /\ {t} \in SUBSET Thread
        /\ \A x \in Thread \ {t} :
             /\ pc'[x] = pc[x] /\ op'[x] = op[x] /\ state'[x] = state[x]
             /\ x \in initial' => x \in initial
    BY <1>2, <1>3
  <2> QED
    BY <1>1, <1>4, <2>1, <2>2, <2>3, KeepsRoles
<1>6. NoAssertFail'
  BY <1>1, <1>3 DEF NoAssertFail, AssertFailed
<1>7. ASSUME Running' PROVE Homes'
  <2>1. kpc'[k] # "lost"
    BY <1>7 DEF Running, Undefined
  <2>2. t = initial_thread_id[k]
    BY <1>3, <2>1
  <2>3. \A x \in initial : Alive(x) => Alive(x)' \/ x = t
    BY <1>1, <1>3 DEF Alive, TypeOK
  <2>4. Active(k) /\ ~Active(k)'
    BY <1>2, <1>3 DEF Active
  <2> QED
    BY <1>1, <1>4, <2>2, <2>3, <2>4, KeepsHomes
<1>8. Watched'
  <2>1. ~LooksAgain(k) /\ ~Collects(k)
    BY <1>2, <1>4 DEF LooksAgain, Collects, At
  <2> QED
    BY <1>1, <1>2, <1>3, <1>4, <2>1, SameQueueWatch DEF Active
<1> QED
  BY <1>1, <1>5, <1>6, <1>7, <1>8 DEF KInv

(* Saving and loading a context move no thread.                             *)
LEMMA KSave ==
  ASSUME KInv, NEW k \in KThread, SaveContext(k)
  PROVE  KInv'
<1>1. IInv /\ IInv' /\ Roles /\ Homes /\ Watched /\ NoAssertFail /\ TypeOK
  BY SaveContextInv DEF KInv, SaveContext, IInv
<1>2. /\ kpc[k] = "save" /\ kpc'[k] = "load"
      /\ UNCHANGED <<state, initial, pc, op, thread_queue, current_thread,
                     initial_thread_id>>
  BY <1>1 DEF SaveContext, threadVars, schedVars, TypeOK
<1>3. KernelStep(k)
  BY DEF KernelStep
<1>4. KernelRole(k)'
  BY <1>1, <1>2 DEF Roles, KernelRole
<1>5. Roles'
  <2>1. /\ {} \in SUBSET Thread /\ \A x \in {} : ThreadRole(x)'
        /\ \A x \in Thread \ {} :
             /\ pc'[x] = pc[x] /\ op'[x] = op[x] /\ state'[x] = state[x]
             /\ x \in initial' => x \in initial
    BY <1>2
  <2> QED
    BY <1>1, <1>3, <1>4, <2>1, KeepsRoles
<1>6. NoAssertFail'
  BY <1>1, <1>2 DEF NoAssertFail, AssertFailed
<1>7. Homes'
  BY <1>1, <1>2, <1>3, KeepsHomes DEF Active, Alive
<1>8. Watched'
  BY <1>1, <1>2, <1>3, SameQueueWatch DEF Active, LooksAgain, Collects
<1> QED
  BY <1>1, <1>5, <1>6, <1>7, <1>8 DEF KInv

(* A thread that starts is no initial thread; one that was switched away    *)
(* from collects.                                                           *)
LEMMA KLoad ==
  ASSUME KInv, NEW k \in KThread, LoadContext(k)
  PROVE  KInv'
<1> DEFINE t == current_thread[k]
<1>1. IInv /\ IInv' /\ Roles /\ Homes /\ Watched /\ NoAssertFail /\ TypeOK
  BY LoadContextInv DEF KInv, LoadContext, IInv
<1>2. /\ kpc[k] = "load" /\ t \in Thread /\ Alive(t)
      /\ t \notin Queued(thread_queue) /\ state[t] = "kRunning"
      /\ ThreadRole(t)
  <2>1. kpc[k] = "load"
    BY DEF LoadContext
  <2> QED
    BY <1>1, <2>1, RunningThread DEF Roles, KernelRole
<1>3. /\ initial' = initial /\ thread_queue' = thread_queue
      /\ state' = state /\ op' = op /\ initial_thread_id' = initial_thread_id
      /\ current_thread' = current_thread /\ kpc'[k] \in {"run", "lost"}
      /\ pc'[t] = IF pc[t] = "start" THEN "user" ELSE "gc"
      /\ \A x \in Thread \ {t} : pc'[x] = pc[x]
  BY <1>1, <1>2 DEF LoadContext, schedVars, TypeOK
<1>4. KernelStep(k) /\ t = current_thread[k]
  BY DEF KernelStep
<1> HIDE DEF t
<1>5. Roles'
  <2>1. \A x \in {t} : ThreadRole(x)'
    BY <1>2, <1>3 DEF ThreadRole, Alive
  <2>2. KernelRole(k)'
    BY <1>2, <1>3, <1>4 DEF KernelRole
  <2>3. /\ {t} \in SUBSET Thread
        /\ \A x \in Thread \ {t} :
             /\ pc'[x] = pc[x] /\ op'[x] = op[x] /\ state'[x] = state[x]
             /\ x \in initial' => x \in initial
    BY <1>2, <1>3
  <2> QED
    BY <1>1, <1>4, <2>1, <2>2, <2>3, KeepsRoles
<1>6. NoAssertFail'
  BY <1>1, <1>3 DEF NoAssertFail, AssertFailed
<1>7. Homes'
  <2>1. \A x \in initial : Alive(x) => Alive(x)'
    BY <1>1, <1>3 DEF Alive, TypeOK
  <2>2. Active(k)
    BY <1>2 DEF Active
  <2> QED
    BY <1>1, <1>3, <1>4, <2>1, <2>2, KeepsHomes
<1>8. ASSUME Running' PROVE Watched'
  <2>1. kpc'[k] = "run"
    BY <1>3, <1>8 DEF Running, Undefined
  <2>2. LooksAgain(k)'
    BY <1>3, <1>4, <2>1 DEF LooksAgain
  <2>3. Collects(k)'
    BY <1>2, <1>3, <1>4, <2>1 DEF Collects, At, ThreadRole
  <2> QED
    BY <1>1, <1>2, <1>3, <1>4, <2>2, <2>3, SameQueueWatch DEF Active
<1> QED
  BY <1>1, <1>5, <1>6, <1>7, <1>8 DEF KInv

(* Yield puts its thread in the queue and will look at the queue from the   *)
(* thread it switches to.                                                   *)
LEMMA KYield ==
  ASSUME KInv, NEW k \in KThread, Yield(k)
  PROVE  KInv'
<1>1. IInv /\ IInv' /\ Roles /\ Homes /\ Watched /\ NoAssertFail /\ TypeOK
  BY YieldInv DEF KInv, Yield, IInv
<1>2. PICK i \in DOMAIN thread_queue : i \in Candidates(k) /\ SwitchTo(k, i)
  BY DEF Yield, Candidates
<1> DEFINE t == current_thread[k]
           n == thread_queue[i]
<1>3. kpc[k] = "run" /\ pc[t] = "yield" /\ t \in Thread /\ Alive(t)
  BY <1>1, RunningThread DEF Yield, At
<1>4. n \in Thread /\ n # t /\ n \in Queued(thread_queue) /\ Alive(n)
  <2>1. n \in Thread /\ n # t /\ n \in Queued(thread_queue)
    BY <1>1, <1>2, <1>3, SwitchQueue DEF Queued
  <2> QED
    BY <1>1, <2>1 DEF IInv, OneOwner
<1>5. state[n] \in {"kReady", "kWaiting"}
  BY <1>2 DEF Candidates, Eligible
<1>6. /\ initial' = initial /\ op' = op /\ initial_thread_id' = initial_thread_id
      /\ current_thread'[k] = n /\ kpc'[k] = "save"
      /\ pc'[t] = "switched" /\ state'[n] = "kRunning"
      /\ state'[t] = IF state[t] = "kRunning" THEN "kReady" ELSE state[t]
      /\ \A x \in Thread \ {t} : pc'[x] = pc[x]
      /\ \A x \in Thread \ {t, n} : state'[x] = state[x]
  BY <1>1, <1>2, <1>3, <1>4 DEF SwitchTo, TypeOK
<1>7. KernelStep(k)
  BY DEF KernelStep
<1> HIDE DEF t, n
<1>8. Roles'
  <2>1. \A x \in {t, n} : ThreadRole(x)'
    <3>1. ThreadRole(t) /\ ThreadRole(n)
      BY <1>1, <1>3, <1>4 DEF Roles
    <3> QED
      BY <1>3, <1>4, <1>5, <1>6, <3>1 DEF ThreadRole, Alive
  <2>2. KernelRole(k)'
    BY <1>6 DEF KernelRole
  <2>3. /\ {t, n} \in SUBSET Thread
        /\ \A x \in Thread \ {t, n} :
             /\ pc'[x] = pc[x] /\ op'[x] = op[x] /\ state'[x] = state[x]
             /\ x \in initial' => x \in initial
    BY <1>3, <1>4, <1>6
  <2> QED
    BY <1>1, <1>7, <2>1, <2>2, <2>3, KeepsRoles
<1>9. NoAssertFail'
  BY <1>1, <1>6 DEF NoAssertFail, AssertFailed
<1>10. Homes'
  <2>1. \A x \in initial : Alive(x) => Alive(x)'
    BY <1>1, <1>6 DEF Alive, TypeOK
  <2> QED
    BY <1>1, <1>3, <1>6, <1>7, <2>1, KeepsHomes DEF Active
<1>11. Watched'
  <2>1. LooksAgain(k)' /\ Collects(k)'
    BY <1>6 DEF LooksAgain, Collects
  <2> QED
    BY <1>1, <1>7, <2>1, KeepsWatch
<1> QED
  BY <1>1, <1>8, <1>9, <1>10, <1>11 DEF KInv

(* The thread a Yield resumes leaves no zombie in the queue, and was no     *)
(* zombie itself.                                                           *)
LEMMA KCollect ==
  ASSUME KInv, NEW k \in KThread, GarbageCollect(k)
  PROVE  KInv'
<1> DEFINE t == current_thread[k]
           Z == {x \in Queued(thread_queue) : state[x] = "kZombie"}
<1>1. IInv /\ IInv' /\ Roles /\ Homes /\ Watched /\ NoAssertFail /\ TypeOK
  BY GarbageCollectInv DEF KInv, GarbageCollect, IInv
<1>2. /\ kpc[k] = "run" /\ pc[t] = "gc" /\ t \in Thread /\ Alive(t)
      /\ t \notin Queued(thread_queue)
  BY <1>1, RunningThread DEF GarbageCollect, At
<1>3. Queued(thread_queue') = Queued(thread_queue) \ Z /\ Z \subseteq Thread
      /\ Z \subseteq Queued(thread_queue) /\ \A x \in Z : state[x] = "kZombie"
  <2>1. Queued(thread_queue) \subseteq Thread
    BY <1>1 DEF TypeOK, Queued
  <2> QED
    BY <1>1, <2>1, CollectQueue
<1>4. op[t] # "Exit" /\ (op[t] = "Wait" => t \in initial)
  BY <1>1, <1>2 DEF Roles, ThreadRole, KernelRole
<1>5. AfterYield(t) \in {"yield", "user"}
  BY <1>4 DEF AfterYield
<1>6. /\ initial' = initial /\ kpc' = kpc /\ current_thread' = current_thread
      /\ initial_thread_id' = initial_thread_id
      /\ pc'[t] = AfterYield(t)
      /\ \A x \in Z : pc'[x] = "freed"
      /\ \A x \in Thread : x # t /\ x \notin Z => pc'[x] = pc[x]
      /\ state'[t] = IF op[t] = "Wait" THEN "kWaiting" ELSE state[t]
      /\ op'[t] = IF op[t] = "Wait" THEN "Wait" ELSE "none"
      /\ \A x \in Thread \ {t} : op'[x] = op[x] /\ state'[x] = state[x]
  <2>1. pc' = [x \in Thread |-> IF x = t THEN AfterYield(t)
                                ELSE IF x \in Z THEN "freed" ELSE pc[x]]
    BY DEF GarbageCollect
  <2>2. t \notin Z
    BY <1>2
  <2> HIDE DEF Z, t
  <2>3. /\ pc'[t] = AfterYield(t)
        /\ \A x \in Z : pc'[x] = "freed"
        /\ \A x \in Thread : x # t /\ x \notin Z => pc'[x] = pc[x]
    BY <1>2, <1>3, <2>1, <2>2
  <2> QED
    BY <1>1, <1>2, <2>3 DEF GarbageCollect, switchVars, TypeOK, t
<1>7. KernelStep(k) /\ t = current_thread[k]
  BY DEF KernelStep
<1>8. \A x \in Queued(thread_queue) \ Z : state[x] # "kZombie"
  OBVIOUS
<1> HIDE DEF t, Z
<1>9. Roles'
  <2> DEFINE T == Z \cup {t}
  <2>1. ASSUME NEW x \in Z PROVE ThreadRole(x)'
    <3>1. ThreadRole(x) /\ x # t
      BY <1>1, <1>2, <1>3, <2>1 DEF Roles
    <3>2. Alive(x)
      BY <1>1, <1>3, <2>1 DEF IInv, OneOwner
    <3> QED
      BY <1>3, <1>6, <2>1, <3>1, <3>2 DEF ThreadRole, Alive
  <2>2. ASSUME NEW x, x = t PROVE ThreadRole(x)'
    <3>1. ThreadRole(x)
      BY <1>1, <1>2, <2>2 DEF Roles
    <3> QED
      BY <1>2, <1>4, <1>5, <1>6, <2>2, <3>1 DEF ThreadRole, Alive
  <2>3. \A x \in T : ThreadRole(x)'
    BY <2>1, <2>2
  <2>4. KernelRole(k)'
    BY <1>1, <1>2, <1>6, <1>7 DEF KernelRole, Roles
  <2>5. /\ T \in SUBSET Thread
        /\ \A x \in Thread \ T :
             /\ pc'[x] = pc[x] /\ op'[x] = op[x] /\ state'[x] = state[x]
             /\ x \in initial' => x \in initial
    BY <1>2, <1>3, <1>6
  <2> HIDE DEF T
  <2> QED
    BY <1>1, <1>7, <2>3, <2>4, <2>5, KeepsRoles
<1>10. NoAssertFail'
  BY <1>1, <1>3, <1>5, <1>6 DEF NoAssertFail, AssertFailed
<1>11. Homes'
  <2>1. ASSUME NEW x \in initial, Alive(x) PROVE Alive(x)'
    <3>1. x \in Thread /\ state[x] # "kZombie"
      BY <1>1, <2>1 DEF TypeOK, Roles, ThreadRole
    <3>2. x \notin Z
      BY <1>3, <3>1
    <3> QED
      BY <1>5, <1>6, <2>1, <3>1, <3>2 DEF Alive
  <2> QED
    BY <1>1, <1>2, <1>6, <1>7, <2>1, KeepsHomes DEF Active
<1>12. Watched'
  <2>1. LooksAgain(k)'
    BY <1>2, <1>5, <1>6, <1>7 DEF LooksAgain
  <2>2. \A x \in Thread : ~Uncollected(x)'
    BY <1>2, <1>3, <1>6, <1>8 DEF Uncollected
  <2> QED
    BY <1>1, <1>7, <2>1, <2>2, KeepsWatch
<1> QED
  BY <1>1, <1>9, <1>10, <1>11, <1>12 DEF KInv

(* A spawned thread never runs out of threads to switch to when it has      *)
(* finished: as many initial threads are alive as kernel threads are        *)
(* running, and this kernel thread runs none of them, so one is queued.     *)
LEMMA FinishedFinds ==
  ASSUME IInv, Roles, Homes, Running, NEW k \in KThread, At(k, "yield"),
         op[current_thread[k]] = "Exit"
  PROVE  Candidates(k) # {}
<1> SUFFICES ASSUME Candidates(k) = {} PROVE FALSE
  OBVIOUS
<1> DEFINE t == current_thread[k]
           A == {j \in KThread : Active(j)}
           C == {current_thread[j] : j \in A}
           Runner(c) == CHOOSE j \in A : current_thread[j] = c
           home == [c \in C |-> initial_thread_id[Runner(c)]]
<1>1. /\ k \in A /\ t \in Thread /\ t \notin initial
      /\ \A j \in A : current_thread[j] \in Thread
  <2>1. Active(k) /\ \A j \in A : current_thread[j] \in Thread
    BY RunningThread DEF At, Active
  <2> QED
    BY <2>1 DEF Roles, ThreadRole, IInv, TypeOK
<1>2. IsFiniteSet(C) /\ t \in C
  <2>1. IsFiniteSet(Thread)
    BY ThreadBound, FS_Interval DEF Thread
  <2>2. C \in SUBSET Thread
    BY <1>1
  <2> QED
    BY <1>1, <2>1, <2>2, FS_Subset
<1>3. \A j \in A : initial_thread_id[j] \in C \ {t}
  <2> SUFFICES ASSUME NEW j \in A PROVE initial_thread_id[j] \in C \ {t}
    OBVIOUS
  <2> DEFINE h == initial_thread_id[j]
  <2>1. h \in Thread /\ h \in initial /\ Alive(h) /\ h # t
    BY <1>1 DEF Homes, IInv, TypeOK
  <2>2. h \notin Queued(thread_queue)
    <3> SUFFICES ASSUME NEW i \in DOMAIN thread_queue, thread_queue[i] = h
                 PROVE  FALSE
      BY DEF Queued
    <3>1. state[h] # "kRunning"
      BY DEF IInv, ThreadsOK, Queued
    <3>2. state[h] # "kZombie" /\ state[h] \in States
      BY <2>1 DEF Roles, ThreadRole, IInv, TypeOK
    <3>3. state[h] \in {"kReady", "kWaiting"}
      BY <3>1, <3>2 DEF States
    <3>4. current_thread[k] # initial_thread_id[k]
      BY <1>1 DEF Homes
    <3>5. ~OnlyReady(current_thread[k])
      BY DEF OnlyReady
    <3>6. Eligible(k, thread_queue[i])
      BY <3>3, <3>4, <3>5 DEF Eligible
    <3> QED
      BY <3>6 DEF Candidates
  <2>3. PICK m \in KThread : current_thread[m] = h
    BY <2>1, <2>2 DEF IInv, OneOwner
  <2>4. Active(m)
    <3>1. kpc[m] # "lost"
      BY DEF Running, Undefined
    <3>2. h # NoThread
      BY <2>1 DEF NoThread, Thread
    <3> QED
      BY <2>3, <3>1, <3>2
      DEF Active, IInv, KernelsOK, Roles, KernelRole, TypeOK, KPoints
  <2> QED
    BY <2>1, <2>3, <2>4
<1>4. \A c \in C : Runner(c) \in A /\ current_thread[Runner(c)] = c
  OBVIOUS
<1>5. \A i, j \in A : initial_thread_id[i] = initial_thread_id[j] => i = j
  BY DEF Homes
<1> HIDE DEF A, C, Runner, t
<1>6. home \in [C -> C \ {t}]
  BY <1>3, <1>4
<1>7. \A c, d \in C : home[c] = home[d] => c = d
  BY <1>4, <1>5
<1>8. home \in Injection(C, C \ {t})
  BY <1>6, <1>7 DEF Injection, IsInjective
<1> HIDE DEF home
<1>9. IsFiniteSet(C \ {t}) /\ Cardinality(C \ {t}) = Cardinality(C) - 1
  BY <1>2, FS_RemoveElement
<1>10. Cardinality(C) <= Cardinality(C \ {t})
  BY <1>8, <1>9, FS_Injection
<1>11. Cardinality(C) \in Nat
  BY <1>2, FS_CardinalityType
<1> QED
  BY <1>9, <1>10, <1>11

(* A Yield that fails returns from Wait only when no spawned thread that    *)
(* could run is queued.                                                     *)
LEMMA KYieldFails ==
  ASSUME KInv, NEW k \in KThread, YieldFails(k)
  PROVE  KInv'
<1> DEFINE t == current_thread[k]
<1>1. /\ IInv /\ IInv' /\ Roles /\ Homes /\ Watched /\ NoAssertFail /\ TypeOK
      /\ Running
  BY YieldFailsInv DEF KInv, YieldFails, IInv
<1>2. /\ kpc[k] = "run" /\ pc[t] = "yield" /\ t \in Thread /\ Alive(t)
      /\ t \notin Queued(thread_queue) /\ ThreadRole(t)
  <2>1. kpc[k] = "run" /\ pc[t] = "yield"
    BY DEF YieldFails, At
  <2> QED
    BY <1>1, <2>1, RunningThread DEF Roles
<1>3. op[t] # "Exit"
  BY <1>1, FinishedFinds DEF YieldFails
<1>4. /\ initial' = initial /\ thread_queue' = thread_queue /\ kpc' = kpc
      /\ current_thread' = current_thread /\ state' = state
      /\ initial_thread_id' = initial_thread_id
      /\ op'[t] = "none" /\ pc'[t] = IF op[t] = "Wait" THEN "waited" ELSE "user"
      /\ \A x \in Thread \ {t} : pc'[x] = pc[x] /\ op'[x] = op[x]
  <2>1. AfterFailedYield(t) = IF op[t] = "Wait" THEN "waited" ELSE "user"
    BY <1>3 DEF AfterFailedYield
  <2> QED
    BY <1>1, <1>2, <2>1 DEF YieldFails, schedVars, switchVars, TypeOK
<1>5. KernelStep(k) /\ t = current_thread[k]
  BY DEF KernelStep
<1> HIDE DEF t
<1>6. Roles'
  <2>1. \A x \in {t} : ThreadRole(x)'
    BY <1>2, <1>3, <1>4 DEF ThreadRole, Alive
  <2>2. KernelRole(k)'
    BY <1>2, <1>3, <1>4, <1>5 DEF KernelRole, ThreadRole
  <2>3. /\ {t} \in SUBSET Thread
        /\ \A x \in Thread \ {t} :
             /\ pc'[x] = pc[x] /\ op'[x] = op[x] /\ state'[x] = state[x]
             /\ x \in initial' => x \in initial
    BY <1>2, <1>4
  <2> QED
    BY <1>1, <1>5, <2>1, <2>2, <2>3, KeepsRoles
<1>7. NoAssertFail'
  BY <1>1, <1>4 DEF NoAssertFail, AssertFailed
<1>8. Homes'
  <2>1. \A x \in initial : Alive(x) => Alive(x)'
    BY <1>1, <1>4 DEF Alive, TypeOK
  <2> QED
    BY <1>1, <1>2, <1>4, <1>5, <2>1, KeepsHomes DEF Active
<1>9. Watched'
  <2>1. Collects(k) => Collects(k)'
    BY <1>2, <1>4, <1>5 DEF Collects, At
  <2>2. \A x \in Thread : WaitsForTurn(x) => Candidates(k) # {}
    BY DEF WaitsForTurn, Candidates, Eligible, Queued
  <2>3. \A x \in Thread : ~WaitsForTurn(x)
    BY <2>2 DEF YieldFails
  <2> QED
    BY <1>1, <1>2, <1>4, <1>5, <2>1, <2>3, SameQueueWatch DEF Active
<1> QED
  BY <1>1, <1>6, <1>7, <1>8, <1>9 DEF KInv

(* So does every step.                                                      *)
LEMMA KNext == KInv /\ [Next]_vars => KInv'
<1> SUFFICES ASSUME KInv, [Next]_vars PROVE KInv'
  OBVIOUS
<1>1. ASSUME NEW k \in KThread, KernelStep(k) PROVE KInv'
  BY <1>1, KInitialize, KSpawn, KCall, KExits, KYieldFails, KYield, KSave,
     KLoad, KCollect DEF KernelStep
<1>2. CASE UNCHANGED vars
  <2>1. IInv'
    BY <1>2, NextInv DEF KInv
  <2>2. UNCHANGED <<next_id, state, initial, pc, op, thread_queue, current_thread,
                    initial_thread_id, saved, kpc, leaving>>
    BY <1>2 DEF vars, threadVars, schedVars, switchVars
  <2> QED
    BY <2>1, <2>2
    DEF KInv, Roles, ThreadRole, KernelRole, NoAssertFail, AssertFailed, Running,
        Undefined, UseAfterFree, Homes, Active, Watched, WaitsForTurn,
        Uncollected, LooksAgain, Collects, At, Alive
<1> QED
  BY <1>1, <1>2 DEF Next, Halted

(* The inductive invariant holds in every reachable state.                  *)
THEOREM KInvariance == Spec => []KInv
<1> QED
  BY KInit, KNext, PTL DEF Spec

-----------------------------------------------------------------------------
(* However many kernel threads share the queue, the ASSERT(false) of        *)
(* ThreadEntry is unreachable until a step has undefined behaviour.         *)
THEOREM NeverAborts == Spec => []NoAssertFail
<1>1. KInv => NoAssertFail
  BY DEF KInv
<1> QED
  BY KInvariance, <1>1, PTL

(* However many kernel threads share the queue, when all of them have left  *)
(* Wait and ended no spawned thread is left that could still run, or still  *)
(* has to be deleted.                                                       *)
THEOREM NobodyLeftBehind == Spec => []NoOrphan
<1>1. KInv => NoOrphan
  <2> SUFFICES ASSUME KInv, Running, NEW t \in Thread \ initial, Alive(t),
                      \A k \in KThread : kpc[k] \in {"off", "exited"}
               PROVE  FALSE
    BY DEF NoOrphan
  <2>1. IInv /\ Roles /\ Watched
    BY DEF KInv
  <2>2. \A k \in KThread : current_thread[k] = NoThread
    BY <2>1 DEF IInv, KernelsOK, Roles, KernelRole
  <2>3. t \in Queued(thread_queue)
    BY <2>1, <2>2 DEF IInv, OneOwner, NoThread, Thread
  <2>4. state[t] \in {"kReady", "kZombie"}
    BY <2>1, <2>3 DEF IInv, TypeOK, States, ThreadsOK, Roles, ThreadRole
  <2>5. WaitsForTurn(t) \/ Uncollected(t)
    BY <2>3, <2>4 DEF WaitsForTurn, Uncollected
  <2> QED
    BY <2>1, <2>5 DEF Watched, LooksAgain, Collects, At
<1> QED
  BY KInvariance, <1>1, PTL

-----------------------------------------------------------------------------
(***************************************************************************)
(* One kernel thread, k: the queue and the current thread are all there    *)
(* is.                                                                     *)
(***************************************************************************)

(* The thread kernel thread k runs or is about to run.                      *)
Cur(k) == current_thread[k]

(* The kernel thread has one initial thread, which lives as long as it.     *)
Home(k) ==
  /\ kpc[k] # "lost"
  /\ kpc[k] = "off" => next_id = 0 /\ initial = {}
  /\ kpc[k] = "exited" => current_thread[k] = NoThread
  /\ kpc[k] \in {"run", "save", "load"} =>
       initial_thread_id[k] \in initial /\ Alive(initial_thread_id[k])
  /\ \A t \in initial : t = initial_thread_id[k] /\ state[t] # "kZombie"

(* Every context that can be loaded next has been saved.                    *)
Contexts(k) ==
  /\ \A t \in Queued(thread_queue) :
       t \in saved \/ (kpc[k] = "save" /\ t = leaving[k])
  /\ kpc[k] \in {"save", "load"} => Cur(k) \in saved
  /\ kpc[k] = "save" => leaving[k] \in Queued(thread_queue)

(* A thread that has never run is queued only between Spawn's insert and    *)
(* its Yield, and then at the front.                                        *)
Places(k) ==
  /\ \A t \in Thread :
       /\ pc[t] = "none" => op[t] = "none"
       /\ op[t] = "Wait" \/ pc[t] = "waited" => t \in initial
  /\ \A t \in Queued(thread_queue) : pc[t] \in {"start", "switched"}
  /\ kpc[k] \in {"save", "load"} => pc[Cur(k)] \in {"start", "switched"}
  /\ kpc[k] = "run" =>
       pc[Cur(k)] \in {"user", "yield", "waited", "gc"}
  /\ \A t \in Queued(thread_queue) : pc[t] = "start" =>
       /\ At(k, "yield") /\ op[Cur(k)] = "Spawn" /\ t = thread_queue[1]
       /\ state[t] = "kReady" /\ t \notin initial
  /\ At(k, "yield") /\ op[Cur(k)] = "Spawn" =>
       /\ 1 \in DOMAIN thread_queue
       /\ pc[thread_queue[1]] = "start"

(* Where zombies are, and which threads wait.                               *)
Zombies(k) ==
  /\ \A t \in Queued(thread_queue) : state[t] = "kZombie" =>
       \/ kpc[k] \in {"save", "load"} /\ pc[Cur(k)] = "switched"
       \/ At(k, "gc")
  /\ \A t \in Thread : Alive(t) =>
       /\ state[t] = "kZombie" <=> op[t] = "Exit"
       /\ state[t] = "kWaiting" => t \in initial
  /\ kpc[k] \in {"save", "load"} => state[Cur(k)] = "kRunning"
  /\ kpc[k] = "run" /\ state[Cur(k)] = "kZombie" => pc[Cur(k)] = "yield"

OneKernelInv(k) ==
  IInv /\ Home(k) /\ Contexts(k) /\ Places(k) /\ Zombies(k)

(* What a current thread is, in the states of one kernel thread.            *)
LEMMA CurrentThread ==
  ASSUME NEW k, KThread = {k}, IInv, kpc[k] \in {"run", "save", "load"}
  PROVE  /\ Cur(k) \in Thread /\ Alive(Cur(k)) /\ Cur(k) # NoThread
         /\ Cur(k) \notin Queued(thread_queue)
         /\ \A t \in Thread : Alive(t) <=> t = Cur(k) \/ t \in Queued(thread_queue)
         /\ Queued(thread_queue) \subseteq Thread
<1>1. Cur(k) \in Thread /\ Alive(Cur(k)) /\ Cur(k) \notin Queued(thread_queue)
  BY RunningThread DEF Cur
<1>2. \A t \in Thread : Alive(t) <=> t = Cur(k) \/ t \in Queued(thread_queue)
  BY DEF IInv, OneOwner, Cur
<1>3. Queued(thread_queue) \subseteq Thread
  BY DEF IInv, TypeOK, Queued
<1> QED
  BY <1>1, <1>2, <1>3 DEF NoThread, Thread

LEMMA OneKernelInit ==
  ASSUME NEW k, KThread = {k}, Init
  PROVE  OneKernelInv(k)
<1>1. IInv
  BY InitInv
<1>2. Queued(thread_queue) = {}
  BY DEF Init, Queued
<1> QED
  BY <1>1, <1>2 DEF Init, OneKernelInv, Home, Contexts, Places, Zombies, At, Alive

LEMMA OneKernelInitialize ==
  ASSUME NEW k, KThread = {k}, OneKernelInv(k), Initialize(k)
  PROVE  OneKernelInv(k)'
<1> DEFINE n == next_id
<1>1. IInv /\ Home(k) /\ Contexts(k) /\ Places(k) /\ Zombies(k)
  BY DEF OneKernelInv
<1>2. IInv'
  BY <1>1, InitializeInv
<1>3. n \in Thread /\ pc[n] = "none" /\ n = 0 /\ initial = {}
  BY <1>1, FreshThread DEF Initialize, Home
<1>4. \A t \in Thread : pc[t] = "none" /\ op[t] = "none"
  BY <1>1, <1>3 DEF IInv, ThreadsOK, Thread, TypeOK, Places
<1>5. Queued(thread_queue) = {}
  <2>1. \A t \in Queued(thread_queue) : t \in Thread /\ Alive(t)
    BY <1>1 DEF IInv, OneOwner, TypeOK, Queued
  <2> QED
    BY <1>4, <2>1 DEF Alive
<1>6. /\ pc' = [pc EXCEPT ![n] = "user"] /\ state' = [state EXCEPT ![n] = "kWaiting"]
      /\ initial' = {n} /\ Queued(thread_queue)' = {} /\ op' = op
      /\ initial_thread_id'[k] = n /\ current_thread'[k] = n /\ kpc'[k] = "run"
  BY <1>1, <1>3, <1>5 DEF Initialize, IInv, TypeOK
<1> HIDE DEF n
<1>7. /\ pc'[n] = "user" /\ state'[n] = "kWaiting" /\ op'[n] = "none"
      /\ \A t \in Thread : t # n => pc'[t] = "none" /\ op'[t] = "none"
  BY <1>1, <1>3, <1>4, <1>6 DEF IInv, TypeOK
<1>8. Home(k)'
  BY <1>3, <1>6, <1>7 DEF Home, Alive
<1>9. Contexts(k)'
  BY <1>6 DEF Contexts
<1>10. Places(k)'
  BY <1>6, <1>7 DEF Places, Cur, At
<1>11. Zombies(k)'
  BY <1>6, <1>7 DEF Zombies, Cur, At, Alive
<1> QED
  BY <1>2, <1>8, <1>9, <1>10, <1>11 DEF OneKernelInv

LEMMA OneKernelSpawn ==
  ASSUME NEW k, KThread = {k}, OneKernelInv(k), Spawn(k)
  PROVE  OneKernelInv(k)'
<1> DEFINE t == Cur(k)
           n == next_id
           q == thread_queue
<1>1. IInv /\ Home(k) /\ Contexts(k) /\ Places(k) /\ Zombies(k)
  BY DEF OneKernelInv
<1>2. IInv'
  BY <1>1, SpawnInv
<1>3. n \in Thread /\ pc[n] = "none" /\ n \notin Queued(q) /\ n # t
  BY <1>1, FreshThread DEF Spawn, Cur
<1>4. kpc[k] = "run" /\ pc[t] \in {"user", "waited"}
  BY DEF Spawn, InUser, At, Cur
<1>5. /\ t \in Thread /\ Alive(t) /\ t \notin Queued(q)
      /\ Queued(q) \subseteq Thread
  BY <1>1, <1>4, CurrentThread
<1>6. /\ pc' = [pc EXCEPT ![n] = "start", ![t] = "yield"]
      /\ state' = [state EXCEPT ![n] = "kReady"]
      /\ op' = [op EXCEPT ![t] = "Spawn"]
      /\ saved' = saved \cup {n} /\ thread_queue' = PushFront(q, n)
      /\ UNCHANGED <<initial, current_thread, initial_thread_id, kpc, leaving>>
  BY DEF Spawn, Cur
<1>7. /\ Queued(thread_queue)' = Queued(q) \cup {n}
      /\ 1 \in DOMAIN thread_queue' /\ thread_queue'[1] = n
  <2>1. Queued(PushFront(q, n)) = Queued(q) \cup {n}
    BY <1>1, <1>3, PushFrontProperties DEF IInv, TypeOK
  <2>2. Len(q) \in Nat
    BY <1>1 DEF IInv, TypeOK
  <2> QED
    BY <1>6, <2>1, <2>2 DEF PushFront
<1>8. Cur(k)' = t /\ At(k, "yield")'
  BY <1>3, <1>4, <1>5, <1>6, <1>1 DEF Cur, At, IInv, TypeOK
<1> HIDE DEF t, n, q
<1>9. /\ pc'[n] = "start" /\ pc'[t] = "yield" /\ state'[n] = "kReady"
      /\ op'[t] = "Spawn" /\ op'[n] = "none" /\ op[n] = "none"
      /\ \A x \in Thread : x # n => state'[x] = state[x]
      /\ \A x \in Thread : x # t => op'[x] = op[x]
      /\ \A x \in Thread : x # n /\ x # t => pc'[x] = pc[x]
  BY <1>1, <1>3, <1>5, <1>6 DEF IInv, TypeOK, Places
<1>10. n \notin initial /\ t = Cur(k) /\ q = thread_queue /\ state[t] # "kZombie"
  <2>1. \A x \in initial : Alive(x)
    BY <1>1, <1>4 DEF Home
  <2> QED
    BY <1>1, <1>3, <1>4, <2>1 DEF t, q, Alive, Zombies
<1>11. \A x \in Thread : Alive(x)' <=> Alive(x) \/ x = n
  BY <1>3, <1>5, <1>9 DEF Alive
<1>12. Home(k)'
  BY <1>1, <1>4, <1>6, <1>9, <1>10, <1>11 DEF Home, IInv, TypeOK
<1>13. Contexts(k)'
  BY <1>1, <1>4, <1>6, <1>7, <1>10 DEF Contexts, Cur
<1>14. Places(k)'
  <2>1. \A x \in Queued(q) : pc[x] = "switched"
    BY <1>1, <1>4, <1>10 DEF Places, At, Cur
  <2>2. \A x \in Queued(q) : pc'[x] = "switched"
    BY <1>3, <1>5, <1>9, <2>1
  <2>3. \A x \in Thread :
          /\ pc'[x] = "none" => op'[x] = "none"
          /\ op'[x] = "Wait" \/ pc'[x] = "waited" => x \in initial
    BY <1>1, <1>9 DEF Places
  <2>4. \A x \in Queued(thread_queue)' : x = n \/ pc'[x] = "switched"
    BY <1>7, <2>2, <1>10
  <2>5. Queued(thread_queue)' \subseteq Thread
    BY <1>3, <1>5, <1>7, <1>10
  <2>6. \A x \in Queued(thread_queue)' : pc'[x] \in {"start", "switched"}
    BY <1>9, <2>4
  <2>7. kpc'[k] = "run"
    BY <1>4, <1>6
  <2>8. pc'[Cur(k)'] = "yield" /\ op'[Cur(k)'] = "Spawn"
    BY <1>8, <1>9
  <2>9. \A x \in Queued(thread_queue)' : pc'[x] = "start" =>
          /\ x = thread_queue'[1]
          /\ state'[x] = "kReady" /\ x \notin initial'
    BY <1>6, <1>7, <1>9, <1>10, <2>4
  <2>10. 1 \in DOMAIN thread_queue' /\ pc'[thread_queue'[1]] = "start"
    BY <1>7, <1>9
  <2>11. (\A x \in Thread :
            /\ pc[x] = "none" => op[x] = "none"
            /\ op[x] = "Wait" \/ pc[x] = "waited" => x \in initial)'
    BY <1>6, <2>3
  <2> QED
    BY <1>8, <2>6, <2>7, <2>8, <2>9, <2>10, <2>11 DEF Places
<1>15. Zombies(k)'
  <2>1. \A x \in Queued(q) : state[x] # "kZombie"
    BY <1>1, <1>4, <1>10 DEF Zombies, At, Cur
  <2>2. \A x \in Queued(q) \cup {n} : state'[x] # "kZombie"
    BY <1>3, <1>5, <1>9, <2>1
  <2>3. \A x \in Thread : Alive(x)' =>
          /\ state'[x] = "kZombie" <=> op'[x] = "Exit"
          /\ state'[x] = "kWaiting" => x \in initial
    BY <1>1, <1>3, <1>5, <1>9, <1>10, <1>11 DEF Zombies
  <2> QED
    BY <1>3, <1>4, <1>6, <1>7, <1>8, <1>9, <1>10, <2>2, <2>3 DEF Zombies
<1> QED
  BY <1>2, <1>12, <1>13, <1>14, <1>15 DEF OneKernelInv

(* The calls that only change the place and the state of the caller.        *)
LEMMA OneKernelCall ==
  ASSUME NEW k, KThread = {k}, OneKernelInv(k),
         \/ \E call \in YieldCalls : CallYield(k, call)
         \/ Wait(k)
         \/ FunctionReturns(k)
  PROVE  OneKernelInv(k)'
<1> DEFINE t == Cur(k)
           q == thread_queue
<1>1. IInv /\ Home(k) /\ Contexts(k) /\ Places(k) /\ Zombies(k)
  BY DEF OneKernelInv
<1>2. IInv'
  BY <1>1, CallInv
<1>3. kpc[k] = "run" /\ pc[t] \in {"user", "waited"}
  BY DEF CallYield, Wait, FunctionReturns, InUser, At, Cur
<1>4. /\ t \in Thread /\ Alive(t) /\ t \notin Queued(q)
      /\ Queued(q) \subseteq Thread
  BY <1>1, <1>3, CurrentThread
<1>5. /\ UNCHANGED <<initial, thread_queue, current_thread, initial_thread_id,
                     saved, kpc, leaving>>
      /\ pc' = [pc EXCEPT ![t] = "yield"]
  BY DEF CallYield, Wait, FunctionReturns, schedVars, switchVars, Cur
<1>6. PICK c \in Calls, v \in States :
        /\ op' = [op EXCEPT ![t] = c]
        /\ state' = [state EXCEPT ![t] = v]
        /\ v = "kZombie" <=> c = "Exit"
        /\ v = "kZombie" => t \notin initial
        /\ c = "Wait" \/ v = "kWaiting" => t \in initial
        /\ c # "Spawn"
  <2>1. state[t] # "kZombie" /\ (state[t] = "kWaiting" => t \in initial)
    BY <1>1, <1>3, <1>4 DEF Zombies
  <2>2. state[t] \in States /\ state = [state EXCEPT ![t] = state[t]]
    BY <1>1, <1>4 DEF IInv, TypeOK
  <2>3. CASE \E call \in YieldCalls : CallYield(k, call)
    <3>1. PICK call \in YieldCalls : CallYield(k, call)
      BY <2>3
    <3>2. call \in {"Yield", "YieldReady"}
      BY YieldForms
    <3>3. op' = [op EXCEPT ![t] = call] /\ state' = [state EXCEPT ![t] = state[t]]
      BY <2>2, <3>1 DEF CallYield, Cur
    <3> QED
      BY <2>1, <2>2, <3>2, <3>3 DEF Calls
  <2>4. CASE Wait(k)
    BY <2>4 DEF Wait, Cur, Calls, States
  <2>5. CASE FunctionReturns(k)
    BY <2>5 DEF FunctionReturns, Cur, Calls, States
  <2> QED
    BY <2>3, <2>4, <2>5
<1>7. Cur(k)' = t /\ t = Cur(k) /\ q = thread_queue
  BY <1>5 DEF Cur
<1> HIDE DEF t, q
<1>8. /\ pc'[t] = "yield" /\ op'[t] = c /\ state'[t] = v
      /\ \A x \in Thread : x # t =>
           pc'[x] = pc[x] /\ op'[x] = op[x] /\ state'[x] = state[x]
  BY <1>1, <1>4, <1>5, <1>6 DEF IInv, TypeOK
<1>9. \A x \in Thread : Alive(x)' <=> Alive(x)
  BY <1>4, <1>8 DEF Alive
<1>10. Home(k)'
  BY <1>1, <1>3, <1>5, <1>6, <1>8, <1>9 DEF Home, IInv, TypeOK
<1>11. Contexts(k)'
  BY <1>1, <1>3, <1>5, <1>7 DEF Contexts
<1>12. Places(k)'
  <2>1. \A x \in Queued(q) : pc'[x] = "switched"
    BY <1>1, <1>3, <1>4, <1>7, <1>8 DEF Places, At, Cur
  <2>2. \A x \in Thread :
          /\ pc'[x] = "none" => op'[x] = "none"
          /\ op'[x] = "Wait" \/ pc'[x] = "waited" => x \in initial
    BY <1>1, <1>6, <1>8 DEF Places
  <2> QED
    BY <1>1, <1>3, <1>4, <1>5, <1>6, <1>7, <1>8, <2>1, <2>2
       DEF Places, At, Cur
<1>13. Zombies(k)'
  <2>1. \A x \in Queued(q) : state[x] # "kZombie"
    BY <1>1, <1>3, <1>7 DEF Zombies, At, Cur
  <2>2. \A x \in Queued(q) : state'[x] # "kZombie"
    BY <1>4, <1>8, <2>1
  <2>3. \A x \in Thread : Alive(x)' =>
          /\ state'[x] = "kZombie" <=> op'[x] = "Exit"
          /\ state'[x] = "kWaiting" => x \in initial
    BY <1>1, <1>6, <1>8, <1>9 DEF Zombies
  <2> QED
    BY <1>1, <1>3, <1>4, <1>5, <1>7, <1>8, <2>2, <2>3 DEF Zombies
<1> QED
  BY <1>2, <1>10, <1>11, <1>12, <1>13 DEF OneKernelInv

LEMMA OneKernelExits ==
  ASSUME NEW k, KThread = {k}, OneKernelInv(k), KernelExits(k)
  PROVE  OneKernelInv(k)'
<1> DEFINE t == Cur(k)
<1>1. IInv /\ Home(k) /\ Contexts(k) /\ Places(k) /\ Zombies(k)
  BY DEF OneKernelInv
<1>2. IInv'
  BY <1>1, KernelExitsInv
<1>3. kpc[k] = "run" /\ pc[t] = "waited" /\ t = Cur(k)
  BY DEF KernelExits, At, Cur
<1>4. /\ t \in Thread /\ t \notin Queued(thread_queue)
      /\ Queued(thread_queue) \subseteq Thread
  BY <1>1, <1>3, CurrentThread
<1>5. t = initial_thread_id[k]
  BY <1>1, <1>3, <1>4 DEF Home, Places
<1>6. /\ pc' = [pc EXCEPT ![t] = "done"] /\ kpc'[k] = "exited"
      /\ current_thread'[k] = NoThread
      /\ UNCHANGED <<state, initial, op, thread_queue, initial_thread_id, saved>>
  BY <1>1, <1>5 DEF KernelExits, Cur, IInv, TypeOK
<1> HIDE DEF t
<1>7. pc'[t] = "done" /\ \A x \in Thread : x # t => pc'[x] = pc[x]
  BY <1>1, <1>4, <1>6 DEF IInv, TypeOK
<1>8. Home(k)' /\ Contexts(k)'
  BY <1>1, <1>3, <1>6 DEF Home, Contexts
<1>9. Places(k)'
  <2>1. \A x \in Queued(thread_queue) : pc'[x] = "switched"
    BY <1>1, <1>3, <1>4, <1>7 DEF Places, At, Cur
  <2> QED
    BY <1>1, <1>6, <1>7, <2>1 DEF Places, At
<1>10. Zombies(k)'
  <2>1. \A x \in Queued(thread_queue) : state[x] # "kZombie"
    BY <1>1, <1>3 DEF Zombies, At, Cur
  <2> QED
    BY <1>1, <1>6, <1>7, <2>1 DEF Zombies, Alive
<1> QED
  BY <1>2, <1>8, <1>9, <1>10 DEF OneKernelInv

(* A Spawn or a finished thread always finds a thread to switch to: the     *)
(* child at the front of the queue, or the initial thread.                  *)
LEMMA YieldFinds ==
  ASSUME NEW k, KThread = {k}, OneKernelInv(k), At(k, "yield"),
         op[Cur(k)] \in {"Spawn", "Exit"}
  PROVE  Candidates(k) # {}
<1> DEFINE t == Cur(k)
           h == initial_thread_id[k]
<1>1. IInv /\ Home(k) /\ Places(k) /\ Zombies(k) /\ kpc[k] = "run"
  BY DEF OneKernelInv, At
<1>2. t \in Thread /\ Alive(t) /\ t = current_thread[k]
  BY <1>1, CurrentThread DEF Cur
<1>3. CASE op[t] = "Spawn"
  <2>1. /\ 1 \in DOMAIN thread_queue /\ pc[thread_queue[1]] = "start"
        /\ thread_queue[1] \in Queued(thread_queue)
    BY <1>1, <1>3 DEF Places, Queued
  <2>2. state[thread_queue[1]] = "kReady" /\ thread_queue[1] \notin initial
    BY <1>1, <2>1 DEF Places
  <2> QED
    BY <2>1, <2>2 DEF Candidates, Eligible
<1>4. CASE op[t] = "Exit"
  <2>1. h \in initial /\ h \in Thread /\ Alive(h) /\ state[h] # "kZombie"
    BY <1>1 DEF Home, IInv, TypeOK
  <2>2. h # t
    BY <1>1, <1>2, <1>4, <2>1 DEF Zombies
  <2>3. h \in Queued(thread_queue)
    BY <1>1, <2>1, <2>2, CurrentThread
  <2>4. state[h] = "kReady" \/ state[h] = "kWaiting"
    BY <1>1, <2>1, <2>3 DEF IInv, TypeOK, States, ThreadsOK
  <2>5. ~OnlyReady(t)
    BY <1>4 DEF OnlyReady
  <2>6. Eligible(k, h)
    BY <1>2, <2>2, <2>4, <2>5 DEF Eligible
  <2> QED
    BY <2>3, <2>6 DEF Candidates, Queued
<1> QED
  BY <1>3, <1>4

LEMMA OneKernelYieldFails ==
  ASSUME NEW k, KThread = {k}, OneKernelInv(k), YieldFails(k)
  PROVE  OneKernelInv(k)'
<1> DEFINE t == Cur(k)
           p == AfterFailedYield(t)
<1>1. IInv /\ Home(k) /\ Contexts(k) /\ Places(k) /\ Zombies(k)
  BY DEF OneKernelInv
<1>2. IInv'
  BY <1>1, YieldFailsInv
<1>3. kpc[k] = "run" /\ pc[t] = "yield" /\ t = Cur(k)
  BY DEF YieldFails, At, Cur
<1>4. /\ t \in Thread /\ Alive(t) /\ t \notin Queued(thread_queue)
      /\ Queued(thread_queue) \subseteq Thread
  BY <1>1, <1>3, CurrentThread
<1>5. op[t] # "Spawn" /\ op[t] # "Exit"
  BY YieldFinds DEF YieldFails
<1>6. p \in {"waited", "user"} /\ (p = "waited" => op[t] = "Wait")
  <2>1. op[t] = "Wait" => p = "waited"
    BY DEF AfterFailedYield
  <2>2. op[t] # "Wait" => p = "user"
    BY <1>5 DEF AfterFailedYield
  <2> QED
    BY <2>1, <2>2
<1>7. /\ pc' = [pc EXCEPT ![t] = p] /\ op' = [op EXCEPT ![t] = "none"]
      /\ UNCHANGED <<next_id, state, initial, thread_queue, current_thread,
                     initial_thread_id, saved, kpc, leaving>>
  BY DEF YieldFails, Cur, schedVars, switchVars
<1> HIDE DEF t, p
<1>8. /\ pc'[t] = p /\ op'[t] = "none" /\ Cur(k)' = t
      /\ \A x \in Thread : x # t => pc'[x] = pc[x] /\ op'[x] = op[x]
  BY <1>1, <1>3, <1>4, <1>7 DEF IInv, TypeOK, Cur
<1>9. \A x \in Thread : Alive(x)' <=> Alive(x)
  BY <1>4, <1>6, <1>8 DEF Alive
<1>10. Home(k)'
  BY <1>1, <1>7, <1>9 DEF Home, IInv, TypeOK
<1>11. Contexts(k)'
  BY <1>1, <1>3, <1>7 DEF Contexts
<1>12. Places(k)'
  <2>1. \A x \in Queued(thread_queue) : pc'[x] = "switched"
    BY <1>1, <1>3, <1>4, <1>5, <1>8 DEF Places, At, Cur
  <2>2. t \in initial \/ op[t] # "Wait"
    BY <1>1, <1>4 DEF Places
  <2>3. \A x \in Thread :
          /\ pc'[x] = "none" => op'[x] = "none"
          /\ op'[x] = "Wait" \/ pc'[x] = "waited" => x \in initial
    BY <1>1, <1>6, <1>8, <2>2 DEF Places
  <2> QED
    BY <1>3, <1>6, <1>7, <1>8, <2>1, <2>3 DEF Places, At, Cur
<1>13. Zombies(k)'
  <2>1. state[t] # "kZombie"
    BY <1>1, <1>4, <1>5 DEF Zombies
  <2>2. \A x \in Queued(thread_queue) : state[x] # "kZombie"
    BY <1>1, <1>3 DEF Zombies, At, Cur
  <2>3. \A x \in Thread : Alive(x)' =>
          /\ state[x] = "kZombie" <=> op'[x] = "Exit"
          /\ state[x] = "kWaiting" => x \in initial
    BY <1>1, <1>8, <1>9, <2>1 DEF Zombies
  <2> QED
    BY <1>3, <1>7, <1>8, <2>1, <2>2, <2>3 DEF Zombies
<1> QED
  BY <1>2, <1>10, <1>11, <1>12, <1>13 DEF OneKernelInv

LEMMA OneKernelYield ==
  ASSUME NEW k, KThread = {k}, OneKernelInv(k), Yield(k)
  PROVE  OneKernelInv(k)'
<1>1. IInv /\ Home(k) /\ Contexts(k) /\ Places(k) /\ Zombies(k)
  BY DEF OneKernelInv
<1>2. IInv'
  BY <1>1, YieldInv
<1>3. PICK i \in Candidates(k) :
        (\A j \in Candidates(k) : i <= j) /\ SwitchTo(k, i)
  BY DEF Yield
<1> DEFINE t == Cur(k)
           n == thread_queue[i]
           v == IF state[t] = "kRunning" THEN "kReady" ELSE state[t]
<1>4. kpc[k] = "run" /\ pc[t] = "yield" /\ t = Cur(k)
  BY DEF Yield, At, Cur
<1>5. /\ t \in Thread /\ Alive(t) /\ t \notin Queued(thread_queue)
      /\ Queued(thread_queue) \subseteq Thread
  BY <1>1, <1>4, CurrentThread
<1>6. i \in DOMAIN thread_queue /\ n \in Queued(thread_queue)
  BY <1>3 DEF Candidates, Queued
<1>7. /\ n \in Thread /\ n # t
      /\ Queued(thread_queue)' = (Queued(thread_queue) \ {n}) \cup {t}
  BY <1>1, <1>3, <1>4, <1>6, SwitchQueue DEF Cur
<1>8. /\ state' = [state EXCEPT ![t] = v, ![n] = "kRunning"]
      /\ current_thread'[k] = n /\ kpc'[k] = "save" /\ leaving'[k] = t
      /\ pc' = [pc EXCEPT ![t] = "switched"]
      /\ UNCHANGED <<next_id, initial, op, initial_thread_id, saved>>
  BY <1>1, <1>3 DEF SwitchTo, Cur, IInv, TypeOK
<1>9. \A x \in Queued(thread_queue) \ {n} : pc[x] = "switched"
  <2> SUFFICES ASSUME NEW x \in Queued(thread_queue), x # n, pc[x] = "start"
               PROVE  FALSE
    BY <1>1 DEF Places
  <2>1. /\ x = thread_queue[1] /\ op[t] = "Spawn"
        /\ state[x] = "kReady" /\ x \notin initial
    BY <1>1 DEF Places
  <2>2. 1 \in DOMAIN thread_queue
    BY <1>1, <1>4, <2>1 DEF Places, At, Cur
  <2>3. 1 \in Candidates(k)
    BY <2>1, <2>2 DEF Candidates, Eligible
  <2>4. i = 1
    <3>1. DOMAIN thread_queue = 1 .. Len(thread_queue) /\ Len(thread_queue) \in Nat
      BY <1>1 DEF IInv, TypeOK
    <3> QED
      BY <1>3, <1>6, <2>3, <3>1
  <2> QED
    BY <2>1, <2>4
<1>10. \A x \in Queued(thread_queue) : state[x] # "kZombie"
  BY <1>1, <1>4 DEF Zombies, At, Cur
<1>11. state[t] = "kZombie" => pc[n] = "switched"
  <2>1. state[t] = "kZombie" => op[t] = "Exit"
    BY <1>1, <1>5 DEF Zombies
  <2>2. pc[n] = "start" => op[t] = "Spawn"
    BY <1>1, <1>6 DEF Places
  <2> QED
    BY <1>1, <1>6, <2>1, <2>2 DEF Places
<1>12. v # "kRunning" /\ (v = "kZombie" <=> state[t] = "kZombie")
       /\ (v = "kWaiting" <=> state[t] = "kWaiting")
  OBVIOUS
<1> HIDE DEF t, n, v
<1>13. /\ pc'[t] = "switched" /\ state'[t] = v /\ state'[n] = "kRunning"
       /\ Cur(k)' = n
       /\ \A x \in Thread : x # t => pc'[x] = pc[x]
       /\ \A x \in Thread : x # t /\ x # n => state'[x] = state[x]
  BY <1>1, <1>5, <1>7, <1>8 DEF IInv, TypeOK, Cur
<1>14. \A x \in Thread : Alive(x)' <=> Alive(x)
  BY <1>5, <1>13 DEF Alive
<1>15. Home(k)'
  BY <1>1, <1>4, <1>8, <1>12, <1>13, <1>14 DEF Home, IInv, TypeOK
<1>16. Contexts(k)'
  BY <1>1, <1>4, <1>6, <1>7, <1>8, <1>13 DEF Contexts
<1>17. Places(k)'
  <2>1. \A x \in Queued(thread_queue)' : pc'[x] = "switched"
    BY <1>5, <1>7, <1>9, <1>13
  <2>2. pc'[n] \in {"start", "switched"}
    BY <1>1, <1>6, <1>7, <1>13 DEF Places
  <2>3. \A x \in Thread :
          /\ pc'[x] = "none" => op'[x] = "none"
          /\ op'[x] = "Wait" \/ pc'[x] = "waited" => x \in initial'
    BY <1>1, <1>8, <1>13 DEF Places
  <2> QED
    BY <1>8, <1>13, <2>1, <2>2, <2>3 DEF Places, At
<1>18. Zombies(k)'
  <2>1. \A x \in Queued(thread_queue)' : state'[x] = "kZombie" => pc'[n] = "switched"
    BY <1>5, <1>7, <1>10, <1>11, <1>12, <1>13
  <2>2. \A x \in Thread : Alive(x)' =>
          /\ state'[x] = "kZombie" <=> op'[x] = "Exit"
          /\ state'[x] = "kWaiting" => x \in initial'
    <3>1. op[n] # "Exit"
      BY <1>1, <1>6, <1>7, <1>10 DEF Zombies, IInv, OneOwner
    <3> SUFFICES ASSUME NEW x \in Thread, Alive(x)
                 PROVE  /\ state'[x] = "kZombie" <=> op[x] = "Exit"
                        /\ state'[x] = "kWaiting" => x \in initial
      BY <1>8, <1>14
    <3>2. /\ state[x] = "kZombie" <=> op[x] = "Exit"
          /\ state[x] = "kWaiting" => x \in initial
      BY <1>1 DEF Zombies
    <3> QED
      BY <1>12, <1>13, <3>1, <3>2
  <2> QED
    BY <1>8, <1>13, <2>1, <2>2 DEF Zombies
<1> QED
  BY <1>2, <1>15, <1>16, <1>17, <1>18 DEF OneKernelInv

LEMMA OneKernelSave ==
  ASSUME NEW k, KThread = {k}, OneKernelInv(k), SaveContext(k)
  PROVE  OneKernelInv(k)'
<1>1. IInv /\ Home(k) /\ Contexts(k) /\ Places(k) /\ Zombies(k)
  BY DEF OneKernelInv
<1>2. IInv'
  BY <1>1, SaveContextInv
<1>3. /\ kpc[k] = "save" /\ kpc'[k] = "load"
      /\ saved' = saved \cup {leaving[k]}
      /\ UNCHANGED <<next_id, state, initial, pc, op, thread_queue,
                     current_thread, initial_thread_id, leaving>>
  BY <1>1 DEF SaveContext, threadVars, schedVars, IInv, TypeOK
<1>4. Home(k)'
  BY <1>1, <1>3 DEF Home, Alive
<1>5. Contexts(k)'
  BY <1>1, <1>3 DEF Contexts, Cur
<1>6. Places(k)'
  BY <1>1, <1>3 DEF Places, Cur, At
<1>7. Zombies(k)'
  BY <1>1, <1>3 DEF Zombies, Cur, At, Alive
<1> QED
  BY <1>2, <1>4, <1>5, <1>6, <1>7 DEF OneKernelInv

LEMMA OneKernelLoad ==
  ASSUME NEW k, KThread = {k}, OneKernelInv(k), LoadContext(k)
  PROVE  OneKernelInv(k)'
<1> DEFINE t == Cur(k)
           p == IF pc[t] = "start" THEN "user" ELSE "gc"
<1>1. IInv /\ Home(k) /\ Contexts(k) /\ Places(k) /\ Zombies(k)
  BY DEF OneKernelInv
<1>2. IInv'
  BY <1>1, LoadContextInv
<1>3. kpc[k] = "load" /\ t = Cur(k)
  BY DEF LoadContext
<1>4. /\ t \in Thread /\ Alive(t) /\ t \notin Queued(thread_queue)
      /\ Queued(thread_queue) \subseteq Thread
  BY <1>1, <1>3, CurrentThread
<1>5. t \in saved /\ pc[t] \in {"start", "switched"} /\ state[t] = "kRunning"
  BY <1>1, <1>3 DEF Contexts, Places, Zombies
<1>6. p \in {"user", "gc"} /\ (pc[t] = "switched" => p = "gc")
  OBVIOUS
<1>7. /\ pc' = [pc EXCEPT ![t] = p] /\ kpc'[k] = "run" /\ saved' = saved \ {t}
      /\ UNCHANGED <<next_id, state, initial, op, thread_queue,
                     current_thread, initial_thread_id>>
  BY <1>1, <1>5 DEF LoadContext, schedVars, Cur, IInv, TypeOK
<1> HIDE DEF t, p
<1>8. pc'[t] = p /\ Cur(k)' = t /\ \A x \in Thread : x # t => pc'[x] = pc[x]
  BY <1>1, <1>3, <1>4, <1>7 DEF IInv, TypeOK, Cur
<1>9. \A x \in Thread : Alive(x)' <=> Alive(x)
  BY <1>4, <1>6, <1>8 DEF Alive
<1>10. Home(k)'
  BY <1>1, <1>3, <1>7, <1>9 DEF Home, IInv, TypeOK
<1>11. Contexts(k)'
  BY <1>1, <1>3, <1>4, <1>7 DEF Contexts
<1>12. Places(k)'
  <2>1. \A x \in Queued(thread_queue) : pc'[x] = "switched"
    BY <1>1, <1>3, <1>4, <1>8 DEF Places, At
  <2>2. \A x \in Thread :
          /\ pc'[x] = "none" => op'[x] = "none"
          /\ op'[x] = "Wait" \/ pc'[x] = "waited" => x \in initial'
    BY <1>1, <1>6, <1>7, <1>8 DEF Places
  <2>3. ~At(k, "yield")'
    BY <1>6, <1>7, <1>8 DEF At, Cur
  <2> QED
    BY <1>6, <1>7, <1>8, <2>1, <2>2, <2>3 DEF Places
<1>13. Zombies(k)'
  <2>1. \A x \in Queued(thread_queue) : state[x] = "kZombie" => p = "gc"
    BY <1>1, <1>3, <1>6 DEF Zombies, At
  <2>2. p = "gc" => At(k, "gc")'
    BY <1>7, <1>8 DEF At, Cur
  <2> QED
    BY <1>1, <1>5, <1>7, <1>8, <1>9, <2>1, <2>2 DEF Zombies
<1> QED
  BY <1>2, <1>10, <1>11, <1>12, <1>13 DEF OneKernelInv

LEMMA OneKernelCollect ==
  ASSUME NEW k, KThread = {k}, OneKernelInv(k), GarbageCollect(k)
  PROVE  OneKernelInv(k)'
<1> DEFINE t == Cur(k)
           q == thread_queue
           Z == {x \in Queued(q) : state[x] = "kZombie"}
           p == AfterYield(t)
           o == IF op[t] = "Wait" THEN "Wait" ELSE "none"
           v == IF op[t] = "Wait" THEN "kWaiting" ELSE state[t]
<1>1. IInv /\ Home(k) /\ Contexts(k) /\ Places(k) /\ Zombies(k)
  BY DEF OneKernelInv
<1>2. IInv'
  BY <1>1, GarbageCollectInv
<1>3. kpc[k] = "run" /\ pc[t] = "gc" /\ t = Cur(k)
  BY DEF GarbageCollect, At, Cur
<1>4. /\ t \in Thread /\ Alive(t) /\ t \notin Queued(q)
      /\ Queued(q) \subseteq Thread
  BY <1>1, <1>3, CurrentThread
<1>5. state[t] # "kZombie" /\ op[t] # "Exit"
  BY <1>1, <1>3, <1>4 DEF Zombies
<1>6. p \in {"yield", "user"}
  <2>1. op[t] = "Wait" => p = "yield"
    BY DEF AfterYield
  <2>2. op[t] # "Wait" => p = "user"
    BY <1>5 DEF AfterYield
  <2> QED
    BY <2>1, <2>2
<1>7. Queued(thread_queue)' = Queued(q) \ Z
  BY <1>1, CollectQueue
<1>8. /\ pc' = [x \in Thread |-> IF x = t THEN p
                                 ELSE IF x \in Z THEN "freed" ELSE pc[x]]
      /\ state' = [state EXCEPT ![t] = v]
      /\ op' = [op EXCEPT ![t] = o]
      /\ UNCHANGED <<next_id, initial, current_thread, initial_thread_id,
                     saved, kpc, leaving>>
  <2>1. op \in [Thread -> Calls] /\ state \in [Thread -> States]
    BY <1>1 DEF IInv, TypeOK
  <2> QED
    BY <1>4, <2>1 DEF GarbageCollect, Cur, switchVars
<1>9. /\ o \in {"Wait", "none"} /\ (o = "Wait" => t \in initial)
      /\ v # "kZombie" /\ (v = "kWaiting" => t \in initial)
  BY <1>1, <1>4, <1>5 DEF Places, Zombies
<1>10. Z \subseteq Queued(q) /\ t \notin Z /\ \A x \in Z : state[x] = "kZombie"
  BY <1>4
<1>11. q = thread_queue
       /\ \A x \in Queued(q) : x \notin Z => state[x] # "kZombie"
  OBVIOUS
<1> HIDE DEF t, q, Z, p, o, v
<1>12. /\ pc'[t] = p /\ op'[t] = o /\ state'[t] = v /\ Cur(k)' = t
       /\ \A x \in Z : pc'[x] = "freed"
       /\ \A x \in Thread : x # t => op'[x] = op[x] /\ state'[x] = state[x]
       /\ \A x \in Thread : x # t /\ x \notin Z => pc'[x] = pc[x]
  BY <1>1, <1>3, <1>4, <1>8, <1>10 DEF IInv, TypeOK, Cur
<1>13. \A x \in Thread : Alive(x)' => Alive(x) /\ x \notin Z
  BY <1>4, <1>12 DEF Alive
<1>14. \A x \in Thread : Alive(x) /\ x \notin Z => Alive(x)'
  BY <1>6, <1>12 DEF Alive
<1>15. Home(k)'
  BY <1>1, <1>3, <1>8, <1>9, <1>10, <1>12, <1>14 DEF Home, IInv, TypeOK
<1>16. Contexts(k)'
  BY <1>1, <1>3, <1>7, <1>8, <1>11 DEF Contexts
<1>17. Places(k)'
  <2>1. \A x \in Queued(q) \ Z : pc'[x] = "switched"
    BY <1>1, <1>3, <1>4, <1>11, <1>12 DEF Places, At, Cur
  <2>2. \A x \in Thread :
          /\ pc'[x] = "none" => op'[x] = "none"
          /\ op'[x] = "Wait" \/ pc'[x] = "waited" => x \in initial'
    BY <1>1, <1>6, <1>8, <1>9, <1>12 DEF Places
  <2> QED
    BY <1>3, <1>6, <1>7, <1>8, <1>9, <1>12, <2>1, <2>2 DEF Places
<1>18. Zombies(k)'
  <2>1. \A x \in Queued(q) \ Z : state'[x] # "kZombie"
    BY <1>4, <1>11, <1>12
  <2>2. \A x \in Thread : Alive(x)' =>
          /\ state'[x] = "kZombie" <=> op'[x] = "Exit"
          /\ state'[x] = "kWaiting" => x \in initial'
    BY <1>1, <1>8, <1>9, <1>12, <1>13 DEF Zombies
  <2> QED
    BY <1>3, <1>7, <1>8, <1>9, <1>12, <2>1, <2>2 DEF Zombies
<1> QED
  BY <1>2, <1>15, <1>16, <1>17, <1>18 DEF OneKernelInv

-----------------------------------------------------------------------------
LEMMA OneKernelNext ==
  ASSUME NEW k, KThread = {k}, OneKernelInv(k), [Next]_vars
  PROVE  OneKernelInv(k)'
<1>1. CASE KernelStep(k)
  BY <1>1, OneKernelInitialize, OneKernelSpawn, OneKernelCall, OneKernelExits,
     OneKernelYieldFails, OneKernelYield, OneKernelSave, OneKernelLoad,
     OneKernelCollect DEF KernelStep
<1>2. CASE UNCHANGED vars
  <2>1. IInv'
    BY <1>2, NextInv DEF OneKernelInv
  <2>2. UNCHANGED <<next_id, state, initial, pc, op, thread_queue, current_thread,
                    initial_thread_id, saved, kpc, leaving>>
    BY <1>2 DEF vars, threadVars, schedVars, switchVars
  <2> QED
    BY <2>1, <2>2 DEF OneKernelInv, Home, Contexts, Places, Zombies, At, Cur, Alive
<1> QED
  BY <1>1, <1>2 DEF Next, Halted

(* With one kernel thread the library never takes an undefined step: every  *)
(* context it loads was saved, and no thread is deleted under its own feet. *)
THEOREM DefinedWithOneKernel ==
  ASSUME NEW k, KThread = {k}
  PROVE  Spec => []NoUndefined
<1>1. Init => OneKernelInv(k)
  BY OneKernelInit
<1>2. OneKernelInv(k) /\ [Next]_vars => OneKernelInv(k)'
  BY OneKernelNext
<1>3. OneKernelInv(k) => NoUndefined
  BY DEF OneKernelInv, Home, Contexts, Places, NoUndefined, Undefined,
     UseAfterFree
<1> QED
  BY <1>1, <1>2, <1>3, PTL DEF Spec

(* With one kernel thread no zombie is queued while a caller's code runs,   *)
(* though a thread that starts does not pass through GarbageCollect.        *)
THEOREM ZombiesReapedWithOneKernel ==
  ASSUME NEW k, KThread = {k}
  PROVE  Spec => []ZombiesReaped
<1>1. Init => OneKernelInv(k)
  BY OneKernelInit
<1>2. OneKernelInv(k) /\ [Next]_vars => OneKernelInv(k)'
  BY OneKernelNext
<1>3. OneKernelInv(k) => ZombiesReaped
  BY DEF OneKernelInv, Zombies, ZombiesReaped, InUser, At
<1> QED
  BY <1>1, <1>2, <1>3, PTL DEF Spec

-----------------------------------------------------------------------------
(* A step that moves a thread out of "yield" is Yield or YieldFails.        *)
LEMMA LeavesYield ==
  ASSUME NEW k, KThread = {k}, OneKernelInv(k), Next, At(k, "yield"),
         pc'[Cur(k)] # "yield"
  PROVE  Yield(k) \/ YieldFails(k)
<1>1. ~Halted
  BY DEF Halted, vars, threadVars, At, Cur
<1>2. KernelStep(k)
  BY <1>1 DEF Next
<1> QED
  BY <1>2 DEF KernelStep, Initialize, Spawn, CallYield, Wait, FunctionReturns,
     KernelExits, SaveContext, LoadContext, GarbageCollect, InUser, At

(* A step that returns from Wait leaves "yield": the end of a Yield that    *)
(* found a thread goes on with the loop.                                    *)
LEMMA WaitReturnsFromYield ==
  ASSUME NEW k, KThread = {k}, OneKernelInv(k), Next, kpc[k] = "run",
         ~At(k, "waited"), pc'[Cur(k)] = "waited"
  PROVE  At(k, "yield")
<1> DEFINE t == Cur(k)
<1>1. /\ t \in Thread /\ t = current_thread[k] /\ pc \in [Thread -> Points]
      /\ pc[t] \in {"user", "yield", "gc"} /\ pc[t] # "waited"
  BY CurrentThread DEF OneKernelInv, IInv, TypeOK, Places, At, Cur
<1>2. KernelStep(k)
  BY <1>1 DEF Next, Halted, vars, threadVars
<1>3. ~GarbageCollect(k)
  <2>1. AfterYield(t) # "waited"
    BY DEF AfterYield
  <2> QED BY <1>1, <2>1 DEF GarbageCollect
<1>4. ~(Spawn(k) \/ Wait(k) \/ FunctionReturns(k))
  BY <1>1 DEF Spawn, Wait, FunctionReturns
<1>5. ASSUME NEW call \in YieldCalls PROVE ~CallYield(k, call)
  BY <1>1 DEF CallYield
<1> QED
  BY <1>1, <1>2, <1>3, <1>4, <1>5
  DEF KernelStep, Initialize, KernelExits, YieldFails, Yield, SaveContext,
      LoadContext, At

LEMMA WaitSeesAllDone ==
  ASSUME NEW k, KThread = {k}, OneKernelInv(k), Next, At(k, "yield"),
         pc'[Cur(k)] = "waited", NEW x \in Thread \ initial
  PROVE  ~Alive(x)
<1> DEFINE t == Cur(k)
<1>1. IInv /\ Home(k) /\ Places(k) /\ Zombies(k) /\ kpc[k] = "run"
      /\ t = current_thread[k] /\ pc[t] = "yield"
  BY DEF OneKernelInv, At, Cur
<1>2. t \in Thread /\ Alive(t)
  BY <1>1, CurrentThread
<1>3. YieldFails(k)
  <2>1. Yield(k) => pc' = [pc EXCEPT ![t] = "switched"]
    BY DEF Yield, SwitchTo, Cur
  <2> QED
    BY <1>1, <1>2, <2>1, LeavesYield DEF IInv, TypeOK
<1>4. op[t] = "Wait"
  <2>1. pc'[t] = AfterFailedYield(t)
    BY <1>1, <1>2, <1>3 DEF YieldFails, IInv, TypeOK
  <2>2. op[t] # "Wait" => AfterFailedYield(t) # "waited"
    BY DEF AfterFailedYield
  <2> QED
    BY <2>1, <2>2
<1>5. t \in initial /\ t = initial_thread_id[k]
  BY <1>1, <1>2, <1>4 DEF Places, Home
<1>6. SUFFICES ASSUME x \in Queued(thread_queue), Alive(x) PROVE FALSE
  BY <1>1, <1>5, CurrentThread
<1>7. state[x] = "kReady"
  <2>1. state[x] # "kZombie" /\ state[x] # "kWaiting"
    BY <1>1, <1>6 DEF Zombies, At, Cur
  <2> QED
    BY <1>1, <1>6, <2>1 DEF IInv, TypeOK, States, ThreadsOK
<1>8. Eligible(k, x)
  BY <1>7 DEF Eligible
<1> QED
  BY <1>3, <1>6, <1>8 DEF YieldFails, Candidates, Queued

LEMMA SpawnSwitchesToStart ==
  ASSUME NEW k, KThread = {k}, OneKernelInv(k), Next, At(k, "yield"),
         op[Cur(k)] = "Spawn", pc'[Cur(k)] # "yield"
  PROVE  kpc'[k] = "save" /\ pc[current_thread'[k]] = "start"
<1>1. IInv /\ Places(k)
  BY DEF OneKernelInv
<1>2. Yield(k)
  BY LeavesYield, YieldFinds DEF YieldFails
<1>3. PICK i \in Candidates(k) :
        (\A j \in Candidates(k) : i <= j) /\ SwitchTo(k, i)
  BY <1>2 DEF Yield
<1>4. /\ 1 \in DOMAIN thread_queue /\ pc[thread_queue[1]] = "start"
      /\ thread_queue[1] \in Queued(thread_queue)
  BY <1>1 DEF Places, Queued
<1>5. 1 \in Candidates(k)
  <2>1. state[thread_queue[1]] = "kReady" /\ thread_queue[1] \notin initial
    BY <1>1, <1>4 DEF Places
  <2> QED
    BY <1>4, <2>1 DEF Candidates, Eligible
<1>6. i = 1
  <2>1. i \in DOMAIN thread_queue
    BY <1>3 DEF Candidates
  <2>2. DOMAIN thread_queue = 1 .. Len(thread_queue) /\ Len(thread_queue) \in Nat
    BY <1>1 DEF IInv, TypeOK
  <2> QED
    BY <1>3, <1>5, <2>1, <2>2
<1>7. kpc'[k] = "save" /\ current_thread'[k] = thread_queue[i]
  BY <1>1, <1>3 DEF SwitchTo, IInv, TypeOK
<1> QED
  BY <1>4, <1>6, <1>7

(* With one kernel thread Wait returns only when every spawned thread has   *)
(* finished and been deleted.                                               *)
THEOREM WaitWaitsForAll ==
  ASSUME NEW c, KThread = {c}
  PROVE  Spec => WaitMeansDone
<1>1. Init => OneKernelInv(c)
  BY OneKernelInit
<1>2. OneKernelInv(c) /\ [Next]_vars => OneKernelInv(c)'
  BY OneKernelNext
<1>3. OneKernelInv(c) /\ [Next]_vars =>
        [\A k \in KThread : WaitReturnsDone(k)]_vars
  BY WaitSeesAllDone, WaitReturnsFromYield DEF WaitReturnsDone, Cur
<1> QED
  BY <1>1, <1>2, <1>3, PTL DEF Spec, WaitMeansDone

(* With one kernel thread a Spawn always switches to the new thread: when   *)
(* it yields, the child is the only thread that never ran, and is eligible. *)
THEOREM SpawnSwitchesToChild ==
  ASSUME NEW c, KThread = {c}
  PROVE  Spec => SpawnRunsChild
<1>1. Init => OneKernelInv(c)
  BY OneKernelInit
<1>2. OneKernelInv(c) /\ [Next]_vars => OneKernelInv(c)'
  BY OneKernelNext
<1>3. OneKernelInv(c) /\ [Next]_vars =>
        [\A k \in KThread : SpawnSwitches(k)]_vars
  BY SpawnSwitchesToStart DEF SpawnSwitches, Cur
<1> QED
  BY <1>1, <1>2, <1>3, PTL DEF Spec, SpawnRunsChild
=============================================================================
