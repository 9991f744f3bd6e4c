# TLA+ specifications of the CS240 labs

The repository holds two programs and the library the second one is built on:

- **Lab 1, chloros** (`src/lab1`): a library of cooperative green threads on
  top of one or several kernel threads: `Initialize`, `Spawn`, `Yield`, `Wait`,
  `GarbageCollect`, and a context switch in assembly.
- **Lab 2, SNFS** (`src/lab2`): a small network file system. A FUSE client
  turns file system calls into requests, sends them over nanomsg to a server
  that is jailed in the directory it serves, and names files with random 64-bit
  *file handles* that the server keeps in a Berkeley DB file.
- **nanomsg** (`src/lab2/libs/nanomsg`, vendored): the sockets SNFS talks over.
  They are state machines that worker threads, timers, peers and callers feed
  with events.

This directory models all three, checks the models with TLC on small instances
and proves the main results for every instance with TLAPS. `PROJECT.json` lists
the components, the runs, the source lines every definition stands for, the
hazards and the theorems.

## 1. Inventory

### Lab 1

| Component | State | Operations | What makes it correct |
|---|---|---|---|
| scheduler, `chloros.cpp` | shared `thread_queue` (under `queue_lock`), `Thread::next_id`; per kernel thread `current_thread`, `initial_thread_id`; per thread `state`, `context`, `stack` | `Initialize`, `Spawn`, `Yield`, `Wait`, `GarbageCollect`, `ThreadEntry` | a thread has one owner; round robin, no starvation; a child runs at once; `Wait` waits for all; zombies are deleted, never too early; `ASSERT(false)` is unreachable |
| `context_switch.S` | registers, the stack words `Spawn` lays out | `context_switch`, `start_thread` | a context is loaded only after it was saved |
| `common.cpp`, tests | - | logging, assertions | - |

How they interact: `Spawn` and `Wait` call `Yield`; `Yield` moves two
`unique_ptr`s through the queue, unlocks, calls `context_switch`, and the thread
that is resumed runs `GarbageCollect`. Kernel threads share only the queue and
`next_id`. Hard: everything after `queue_lock.unlock()` in `Yield` runs
unprotected while the previous thread is already in the queue; the caller of a
`Yield` and the code that returns from it are different threads; a new thread
enters through `start_thread` and skips the end of `Yield`.

### Lab 2

| Component | State | Operations | What makes it correct |
|---|---|---|---|
| handle database, `server/fhandledb.c` | records handle -> path and path -> handle, in a cache and a file | `name_find_or_insert`, `get_file`, `name_remove`, `init_db_if_needed`, `destroy_db` | the two records of a handle agree; a handle stays valid and keeps leading to its file |
| request handlers, `server/handlers.c` | the served directory, open descriptors | MOUNT, GETATTR, SETATTR, READ, WRITE, READDIR, LOOKUP, CREATE, MKDIR, REMOVE, RENAME | an error means nothing happened; the handle in a reply works |
| server process, `server/main.c` | socket, `terminated` | `serve_loop`, `sigterm_handler`, `server_main` | requests one at a time; handles survive the process |
| client file system, `client/fuseops.c` | `STATE->root_fhandle`, `fi->fh` of open files | the FUSE callbacks; `lookup` sends one LOOKUP per name | a call reports what the server did; an open file stays the same file |
| client requests, `client/request.c`, `common/comm.c` | the REQ socket and its pending request | `snfs_req_rep_f`, `send_data`, `receive_data` | a reply belongs to its request; a request runs once |
| client process, `client/main.c` | options, root handle | mount, unmount | - |
| messages, strings, utilities | - | layouts, printing, options | - |
| Berkeley DB, libfuse, Linux | - | external | - |

How they interact: client and server exchange one request and one reply over
REQ/REP sockets; the server handles one request at a time and calls Linux and
the database; FUSE runs the client single-threaded (`-s`), but there may be
several clients. Hard: a handle is bound to a *path* and must follow renames; a
request changes the directory and then the database, and either may fail; a
process may die between requests; the client gives up after 1.25 s on requests
the server may still run; nanomsg re-sends a request that has not been answered
when it connects again.

### nanomsg

| Component | State | Operations | What makes it correct |
|---|---|---|---|
| events and workers, `aio/fsm.c`, `ctx.c`, `timer.c`, `worker_posix.inc`, `poller_epoll.inc` | events raised and not handled, per context and between contexts; tasks, timers and descriptors of the worker | raise, handle, leave the context; execute, expire, poll | an event or task is queued once, and its target is there when it is handled |
| sockets of the system, `aio/usock_posix.inc` | state, the descriptor, what it is polled for | connect, accept, send, recv, stop | nothing is done to a descriptor that was closed; every stop ends |
| TCP, `transports/tcp`, `transports/utils` | state of `ctcp`, `btcp`, `atcp`, `stcp`, `streamhdr`, `dns`, `backoff` | resolve, connect, accept, exchange headers, carry messages, retry, stop | every event is expected; a header exchange ends; a lost connection is made again |
| IPC, `transports/ipc` | state of `cipc`, `bipc`, `aipc`, `sipc`; the file of the address | as TCP, without names to resolve; remove a stale file before listening | as TCP |
| REQ and REP, `protocols/reqrep` | the request and its timer, pipes that can send, the backtrace | submit, resend, receive, cancel; reply | an answer belongs to the newest request, which was run; a request is answered in the end |
| PUB and SUB, `protocols/pubsub`, `utils/dist.c`, `fq.c` | a trie of topics; pipes that can send or have a message | subscribe, unsubscribe, send, receive | the trie holds the topics; messages are filtered by them |
| inproc and PAIR, `transports/inproc`, `protocols/pair`, `utils/excl.c` | endpoints by address, two sessions for each connection, message queues | bind, connect, send, receive, stop | messages arrive once and in order; sessions stop in pairs |
| the library, `core/global.c`, `core/sock.c`, `core/ep.c` | table of sockets under a global lock; per socket a context, efds, a semaphore | `nn_socket` ... `nn_term` from any thread | calls return; pollers see what a socket can do; what is freed leaves nothing |
| surveys, bus, pipeline, devices, tools | - | - | - |

How they interact: a machine raises an event to its owner, and whoever is in the
context handles all of them before leaving it. Events to other sockets'
contexts wait until the own context is left. The worker thread turns
descriptors, timers and tasks into events; callers of the library enter the
context of their socket and may hold the global lock meanwhile. Hard: what is
asked of the worker is done later, when its object may be on its way out;
stopping goes down a tree of machines and its answers come back in any order;
two threads' calls on a socket interleave with events that are in nobody's
queue; a request may be run twice, or its answer may come after the next one
was asked.

## 2. Modules

| Module | Models |
|---|---|
| `QueueOps` | operations on queues of distinct items: `std::vector`, nanomsg's lists of pipes |
| `Chloros` | the scheduler with any set `KThread` of kernel threads |
| `ChlorosProperties`, `MCChloros` | what it promises; instances |
| `QueueLemmas`, `ChlorosProofs` | proofs: about queues; about any number of kernel threads and about one |
| `ServedTree` | the jailed directory and the Linux calls made on it (external) |
| `FHandleDb` | the handle database |
| `SnfsServer` | the server: handlers, end of the process, restart; extends the two above |
| `HandleMap` | abstract: a table of handles, which `SnfsServer` implements |
| `SnfsProperties`, `MCSnfs` | what the server promises; instances |
| `SnfsServerProofs` | proofs: the database, then the handles |
| `RequestSocket` | a REQ socket as its user may rely on it |
| `SnfsClient` | clients composed with `SnfsServer` over `RequestSocket`s |
| `SnfsClientProperties`, `MCSnfsClient`, `SnfsClientProofs` | what they achieve together; instance; proofs |
| `NnPipes`, `NnReq`, `NnRep`, `NnReqRep` | connections, REQ sockets, a REP socket, and their composition |
| `AtLeastOnce` | abstract: requests and answers, which `NnReqRep` implements |
| `NnReqRepProperties`, `MCNnReqRep`, `NnReqRepProofs` | what they achieve; instance; proofs |
| `NnAio`, `NnUsock`, `NnStcp`, `NnTcp`, `NnIpc`, `NnEndpoint` | events and worker, system sockets, streams, TCP endpoints, IPC endpoints, and a socket with one of them |
| `NnEndpointProperties`, `MCNnEndpoint` | what an endpoint keeps; instance |
| `NnInproc`, `NnGlobal` | the inproc transport with PAIR; the library as threads use it |
| `NnGlobalProperties`, `MCNnGlobal` | what it promises; instance |
| `NnSessionProofs`, `NnContextProofs`, `NnGlobalProofs` | proofs: the invariant and the sessions; endpoints, sockets and contexts; the calls of threads |
| `NnTrie`, `NnPubSub` | the trie; PUB and SUB sockets |
| `NnPubSubProperties`, `MCNnPubSub` | what a SUB socket promises; instance |

Definitions whose names start with `Mutant` are not part of the models: each is
a plausible bug in the definition that follows it and is used to see that a
property notices it.

### Chloros

A green thread is the number `next_id` gave it. `state`, `initial`,
`thread_queue`, `current_thread` and `initial_thread_id` are the fields of the
same names. `pc[t]` is where the code of thread `t` stands ("start" before
`start_thread`, "user" in the caller's function, "yield" before the search of
`Yield`, "switched" inside `ContextSwitch`, "gc" before `GarbageCollect`,
"waited" after `Wait`, "freed" after its destructor), `op[t]` the library call
it is inside. The program that uses the library is arbitrary: from "user" it
may make any call (`Wait` only on initial threads, as the header demands).

A step is what runs without interference: the locked part of `Yield` is one
action (`Yield`, `SwitchTo`), the save and the load of `context_switch` are two
more (`SaveContext`, `LoadContext`), `GarbageCollect` is the fourth, with
`Wait`'s `state = kWaiting` after it: that touches only the running thread,
which no other kernel thread can reach. `kpc[k]` is where kernel thread `k`
stands in the switch and `leaving[k]` the thread whose context it is saving.
`saved` is the set of threads whose `context` names the stack position at which
they can go on: `Spawn` puts a new thread in, a save puts it in, a load takes it
out.

Undefined behaviour ends a behaviour. Loading a context that is not in `saved`,
saving into a deleted thread, or returning from the main function of another
kernel thread makes `Undefined` true; after it, or after a failed assertion, no
action but the stutter `Halted` is enabled (`Running` guards every action), and
nothing is claimed.

### SnfsServer

A path is the sequence of its names; `tree` gives every path a node with an
identity and a type, `ServedTree` the result and effect of `stat`, `creat`,
`mkdir`, `unlink`, `rmdir` and `rename` as Linux defines them for a process
running as root (`chroot` needs it). `db` is the database as the process sees
it, `disk` the file, `fds` the descriptors the handlers leak, `reply` the last
answer. `meant` is a history variable: the file each handle was first given for.
A handler is one action: the server is sequential, and the records a handler has
written before a crash are still in the cache, so that what a crash in the
middle of a handler leaves is what a crash before or after it leaves. READ,
WRITE, GETATTR and SETATTR act on the name space only: contents and attributes
are abstracted, and errors that depend on them (a bad offset) are
nondeterministic. The requests come from the environment: any operation, any
handle that a reply has ever contained, any path.

Modelling assumptions, all of them about what surrounds the code:

- `get_random` never draws a handle that has been drawn before (64 bits).
- Berkeley DB, opened without an environment, keeps its pages in the cache until
  `close`: nothing in this code calls `sync`, and the databases in question are
  far smaller than the cache.
- No other process changes the directory, and clients leave `.snfs.db` alone.
- The kernel answers a rename of a path to itself without asking FUSE, so a
  RENAME onto its own path is never sent.
- A reply that cannot be sent is not noticed by `SnfsServer` (the handlers ignore
  it); in `SnfsClient` it is an answer that is lost.

### RequestSocket, SnfsClient

`RequestSocket` is the user's view of a REQ socket: the request it holds, whether
its user waits, the answer, and `late`, older requests that were never answered
and of which copies may still be on their way. A request the user has given up
stays in the socket (`snfs_req_rep_f` only shuts the endpoint down), so the next
connection sends it again. It assumes that a connection breaks only when a
process ends.

A client makes one callback at a time (`-s`); `call[c]` is the callback with the
names it has looked up and the handle they led to. Each callback of
`fuseops.c` is the sequence of its requests: one LOOKUP for each name, then its
own. `TimeOut` is `receive_data` after 1.25 s, `Receive` an answer, `Serve` the
server taking any request that has reached it, `ServerProcess` its end by SIGTERM
or crash and its restart. Truncate, chmod, chown and utimens are all
`snfs_setattr`. `e.acts` (history) counts how often request `e` changed the
directory.

### NnPipes, NnReq, NnRep, NnReqRep

A connection has a pipe at each end and a stream of messages each way; a message
is the pair of its client and its request number. Everything a socket does in
one visit of its context is one action: a call of its user, or one event of the
worker with the events it raises. `req[c].state` is the state of `req.c`'s
machine (`bad` after an event it does not expect), `lb` the load balancer's list,
`fq` the fair queue, `serving` the backtrace. Connections break at either end
first, and what was under way is lost; replies to a pipe that is gone or busy are
dropped; timers fire at any time, but untimely ones, broken connections and
dropped replies together are at most `MaxFaults`. `nn_rep_recv` gives up the request
in progress before it looks for another, so also when there is none (EAGAIN): its
client asks again.

### NnAio ... NnEndpoint

The whole state is one record `s`; a C function is an operator from a record to
the next one or to a set of them, so that calls nest as they do in the code. An
object is `<<class, number>>`: number 0 for the endpoint's own, `c` for those of
connection `c`. `s.events` is the context's queue, `s.tasks` the worker's, `s.fd`
what the worker polls a descriptor for. `s.transport` is TCP or IPC: `NnIpc` states only
what the IPC objects do otherwise than the TCP ones. `Event` handles the next event,
`WorkerTask`, `Expire`, `FdReady`, `FdError` are the worker's rounds, `Use`,
`Shutdown` and `Close` the user's calls. An assertion that fails, or an object
that is used after it was freed, sets `s.abort` to its reason and ends the
behaviour.

### NnInproc, NnGlobal

Likewise, with several sockets, endpoints and sessions in one record `p`, and
threads. All a thread does in a context is one step, but for the places where it
can be held up or overtaken: the global lock, entering a context, the events for
other contexts (`pend`, `hand`: taken from the queue and not yet delivered),
`nn_efd_wait`, the semaphore of `nn_close`, and the statistics that read
`self.socks [s]` again. `May` says which calls each thread makes.
`p.overlap` (history) tells whether a call that makes or ends connections
overlapped another one. `p.abort` is the reason of an abort.

Loops are recursive functions: `ForEach` is a loop over a list, `Drained` the loop
of `nn_ctx_leave` that handles events until the queue is empty. The code's loop has
no bound; `Drained` has `MaxRounds`, and a context with more events would abort
with `out_of_rounds`, which `SequentialUseIsSafe` says never happens. An endpoint
that the bound `MaxEndpoints` leaves no room for is not made (`NewEndpoints`). A
connected endpoint has one session of a bound endpoint (`WithSession`, else
`no_session_left`, which never happens either).

An address can be bound again while an endpoint is there that was connected to the
endpoint bound before. If a bind has found it already (`connects`), the process aborts
in `nn_ins_bind`. If it had connected itself, the new endpoint gets a session that never
has a peer (`AnotherSession`, `lonely`): what ends the process is its CONNECT when
it is delivered to an endpoint that is still connected, or the stop of that session;
an endpoint that stops takes no notice of the CONNECT.

An event that is raised while it is in a queue fails the queue's assertion
(`event_raised_twice`). One that another thread has popped and is about to read is
overwritten in silence; the model ends there with a reason of its own
(`event_overwritten`). `SequentialUseIsSafe` says that neither happens, whatever
calls overlap.

### NnTrie, NnPubSub

A pointer to a node is `<<>>` or `<<node>>`, and `nn_trie_subscribe`,
`nn_node_unsubscribe` and `nn_trie_match` are recursive operators that do what
the C functions do, step by step: split, convert, merge, compact. `SparseMax`
and `PrefixMax` are the limits of `trie.h` (8 and 10 there). A PUB socket gives
a message to every pipe that can take it now; a SUB socket takes one from each
pipe in its fair queue until one matches. A trie is followed until its user
unsubscribes a topic that it does not hold (`wild`): what the code does then is
described in section 6.

## 3. Runs

| Run | Instance | Shows |
|---|---|---|
| `chloros_one_kernel` | 1 kernel thread, 5 green threads (87,011 states) | `TypeOK`, `OneOwner`, `NoUndefined`, `WaitMeansDone`, `RoundRobin`, `SpawnRunsChild`; liveness: `StarvationFree`, `ZombieDeleted` |
| `chloros_two_kernels` | 2 kernel threads, 4 green threads (943,767 states) | `NoAssertFail`, `NoOrphan`, up to the first undefined step |
| `switch_unsaved_context` | 2 kernel threads | refutes `ResumesSavedContext`, see section 6 |
| `snfs_server` | 2 names, depth 2, 4 nodes, 3 handles, all renames, SIGTERM, crash (213,695 states up to symmetry) | `TypeOK`, `Paired`, `GrantedHandleWorks`, `ErrorChangesNothing`, `RenameKeepsFile` |
| `snfs_server_moves` | 3 nodes, 4 handles, files renamed to free names, SIGTERM | the server implements `HandleMap` |
| `handles_lost_in_crash` | 3 nodes, 3 handles | refutes `HandlesSurviveCrash`, see section 6 |
| `snfs_client` | 2 clients with 3 callbacks, 4 nodes, 4 handles, SIGTERM (662,036 states up to symmetry) | `HandlesFit`, `ActsOnce`, `SuccessMeansDone` |
| `nn_reqrep` | 2 REQ sockets, one with two requests, 3 connections, 1 fault (87,514 states) | `ReqRepTypeOK`, `NoBadAction`, `OwnReplies`; the sockets implement `AtLeastOnce`; liveness: `RequestsAnswered` |
| `nn_endpoint` | an endpoint of each transport and kind, 2 connection objects (26,175 states) | `EndpointConsistent`, `NoUnexpectedEvent`; liveness: `StopCompletes`, `HandshakeEnds`, `Reconnects` |
| `nn_inproc` | 2 threads, 2 sockets, 2 endpoints, 2 messages, a queue of 1 (399,748 states) | `NnGlobalTypeOK`, `SlotsConsistent`, `ReadyIsSignalled`, `StreamKept`, `FreedLeavesNothing`, `SequentialUseIsSafe`; liveness: `CallsReturn`, `TermUnblocks` |
| `nn_pubsub` | 2 PUB sockets and a SUB socket, 6 topics, up to 4 subscriptions (216,599 states up to symmetry) | `PubSubTypeOK`, `TrieKeepsTopics`, `FilterExact` |
| `nn_topic_lost` | the same | refutes `AnyTopicMatches`, see section 6 |

**Why these bounds.** `MaxThreads` counts threads ever created. Five with one
kernel thread are the initial thread and four spawned ones: enough for a spawner,
its child and its grandchild in the queue with a zombie and a waiting thread.
With two kernel threads there are two initial threads; the four threads leave one
spawned thread for each kernel thread, and the error of section 6 needs no more.

In the server a path of depth two is needed for a directory with something in
it; four nodes and three handles let a client move a directory away, make a new
one at the old path and reach an entry that was left behind; with `MaxFds = 1`
the table fills and the errors that follow are answered in every state. A request
that would need one more node, handle or level than the instance has is not
sent. The clients start with a directory and a file in it: one client uses the
file twice, so that the answer of its first callback may be late for the second,
while the other renames, removes and makes what is above it.

In `nn_reqrep` the connections of one client break and are made again while its
second request replaces the first; the other client's connection is there for
replies that go astray. A larger instance, in which both make requests, has
1,436,658 states; it was checked for safety and nothing was violated. Two
connection objects are what a listener needs for one connection that is accepted
and one that waits; with three (5.8 million states) the invariants of
`nn_endpoint` hold as well. Two sockets with two endpoints are one connection of
`nn_inproc`; an instance with three sockets and three endpoints and one thread that
makes all calls but `nn_setsockopt`, without blocking (2.9 million states), was
checked for safety and violated nothing; with two threads that do so, and two sockets
(5.2 million states up to symmetry), the first part of `SequentialUseIsSafe` holds.
With `SparseMax = 2` three topics with different first characters make a node dense;
with `PrefixMax = 2` a topic of four characters takes more than one node.

Names, handles and publishers are only compared, so TLC uses their symmetry; no
liveness is checked with it. Deadlock is checked except in `snfs_client`, `nn_reqrep` and
`nn_inproc`, which stop when the callbacks, requests or calls they are allowed
are used up; an abort or a closed socket is a stutter (`Halted`, `Ended`).

`ThreadBound` and the other `ASSUME`s are evaluated in these runs, and
`MCChloros` also checks that `Keep`, which stands for `vector::erase` and for the
loop of `GarbageCollect` (and which the provers can expand), is `SelectSeq`.

**Fairness.**

- `Chloros`: weak fairness of `KernelStep(k)` for each kernel thread: the
  operating system runs it, and green threads are cooperative: a function calls
  the library again or returns. No fairness is asked of a green thread or of a
  single action: that each thread gets its turn is what the round robin has to
  achieve. Liveness is claimed for programs that create finitely many threads:
  `Spawn` puts the new thread first, so a program in which every thread spawns
  another would starve the queue.
- `SnfsClient`: weak fairness of each client's `ClientStep`, its own clock and
  code. Nothing is asked of the server.
- `NnReqRep`: the workers handle the events of each pipe, the REP user takes
  requests and answers them, endpoints keep trying to connect (the backoff of
  `ctcp` ends). Nothing is asked of the REQ user, and no fault has to happen.
- `NnEndpoint`: events are handled and the context is left again and again; the
  worker executes its tasks and expired timers also while descriptors are always
  ready (each round does both, hence strong fairness); a name lookup ends.
  Nothing is asked of peers and users, who may never send or read a byte.
- `NnGlobal`: a thread that can again and again run on, take a lock that becomes
  free, or see a signalled efd of a terminated socket, does move.
- The server and `NnPubSub` have no liveness property: an answer to every
  request is the shape of the loop, and PUB may drop any message.

## 4. Proofs

All theorems are checked by TLAPS for every value of the constants.

`ChlorosProofs`, **any number of kernel threads**. The invariant `IInv` adds to
`TypeOK` and `OneOwner` that a kernel thread has a current thread whenever it is
running or switching (`KernelsOK`) and that exactly the threads below `next_id`
exist and no queued thread is `kRunning` (`ThreadsOK`): `OneOwner` is not
inductive without them, as a `Spawn` must not hand out an identifier that is in
use and a load must have a thread to load. From it:

- `TypeCorrect`: `TypeOK`.
- `ThreadsOwnedOnce`: `OneOwner`.
- `NobodyOvertakes`: `RoundRobin`. The argument is about positions: `erase`
  keeps the order of what is left, `push_back` adds behind everyone, the push to
  the front of `Spawn` adds only a thread that did not exist, and the search
  takes the first candidate. `QueueLemmas` states these facts about `Keep`,
  `PushFront` and `PushBack`.

Its second part is about **any number of kernel threads up to the first undefined
step** (after it nothing moves, and nothing is claimed). The invariant `KInv` adds to
`IInv`:

- `Roles`: only initial threads wait, exactly the finished threads are zombies, and
  a zombie that runs is on its way into the `Yield` of its end. So only a finished
  thread can come to the `ASSERT(false)` behind that `Yield` (`chloros.cpp:269`).
- `Homes`: each kernel thread that has not ended has an initial thread of its own,
  alive, whoever runs it now. The `ASSERT(false)` after `Yield` in `ThreadEntry` says that a
  finished thread always finds another one; with several kernel threads this is a
  pigeonhole (`FinishedFinds`, by `FS_Injection`): there are at least as many initial
  threads alive as kernel threads active, and the finished thread takes one kernel
  thread and is no initial one, so some initial thread is free and in the queue.
- `Watched`: as long as a spawned thread waits for its turn, some kernel thread looks
  at the whole queue again before it ends, and as long as a zombie is queued, some
  kernel thread collects or runs a thread it cannot end on. This is inductive
  because a kernel thread that finds nothing has seen the queue under its lock.

From it `NeverAborts` (`NoAssertFail`) and `NobodyLeftBehind` (`NoOrphan`).

Its third part is about **one kernel thread** (`KThread = {k}`). `OneKernelInv` adds
to `IInv`: `Home` (the initial thread of `k` is the only initial one),
`Contexts` (every queued thread is in `saved`, except the one `k` is leaving
while it saves), `Places` (where a thread's code stands follows from whether it
is queued, and with which `op`) and `Zombies` (a zombie is the running thread on
its way out, or is queued while `k` switches to a thread that has run before or
is about to run `GarbageCollect`). The last part is the interesting one: a finished thread
goes to the *back* of the queue while a new one could only start, skipping
`GarbageCollect`, from the front; but `Spawn` yields at once, so a thread that
has not started is never in the queue when another thread finishes.

- `DefinedWithOneKernel`: `NoUndefined`.
- `ZombiesReapedWithOneKernel`: `ZombiesReaped`.
- `WaitWaitsForAll`: `WaitMeansDone`. `SpawnSwitchesToChild`: `SpawnRunsChild`.

`SnfsServerProofs`, **any names, depth, handles, renames and ends**. `IInv` says
that both the database and its file are typed and paired and that the server has
not left by `err_exit`. The file is in it because a crash brings it back. The
lemmas `InsertPaired` and `RemovedPaired` carry the argument: a handle that is
in no record, inserted for a path without one, makes a pair and leaves all
others; removing a path removes both its records.

- `TypeCorrect`: `TypeOK`. `HandlesPaired`: `Paired`.
- `NeverErrExit`: `NoErrExit`. The path that REMOVE or RENAME forgets was found
  through a handle, so by `Paired` it has one, and both records are there; for
  RENAME this needs that the insertion before it was for another path.
- `ErrorsAreHarmless`: `ErrorChangesNothing`, for the same reason: the database
  step, the only one that can fail after the directory has been changed, does
  not fail.

The second part of `SnfsServerProofs` is about handles. A handler is
shown to be one of four kinds of step (no path and no handle changed, a handle
granted, a path removed, a path renamed); the end of the process and its start are
the other steps. The invariant `GInv` adds to `IInv` that the root stays a
directory, that a granted handle leads somewhere, and that a process that is not
there has left its database as its file has it and has granted nothing.

- `GrantsWork`: `GrantedHandleWorks`. `RenamesKeepFile`: `RenameKeepsFile`.
- `PathsKeepHandle`: `PathKeepsHandle`, which says that a file that stays at its
  path keeps its handle unless the server crashes.
- `ExactHandles`, `MapImplemented`: under `Gentle` (`Renames` is at most
  `{"file"}`, and `"crash"` is not in `Ends`) every valid handle leads to the file
  it was first given for, and the server implements `HandleMap`. The strengthening
  `EInv` adds to `GInv` the shape of the tree (`Shape`: no two paths share a node,
  and what has a path has directories above it) and `Exact`: every valid handle
  reaches the node it was given for.

`SnfsClientProofs`, **any number of clients, callbacks, names and ends**. The lemma
`HandleStep` says of every step of the server what it does to handles: one that has been issued
is never given to another path (a RENAME makes a new one), in the database or in its
file, and without a crash one that was deleted does not come back and the root's
stays. The invariant `CInv` adds to `ServerInv`, the server's own invariant,
that every client has its type (`ClientTypes`) and that its callback, socket, root
handle and open file fit together (`ClientFits`): the handle a callback has looked up
is *bound* to the names it has gone through (it leads there or nowhere), a socket
waits for the answer to the callback's next request and for no other, everything it
holds or has on its way can be served, and an answer fits the request it is for. That
an answer in the socket is still true when the callback takes it is why `Bound` has
to survive every step of the server and of every other client.

- `ServerIsServer`: the server among its clients, with requests that come late, twice
  or never, is `SnfsServer`: its steps are that module's steps. So `ServerKeepsWorking`:
  `TypeOK`, `Paired`, `NoErrExit` and `GrantedHandleWorks` hold here.
- `ClientsTyped`; `HandlesFitPaths`: `HandlesFit`; `SuccessIsReal`: `SuccessMeansDone`.
- `ActsAtMostOnce` (`ActsOnce`) and `RootHandleLasts` (`RootHandleWorks`), if `"crash"` is not
  in `Ends`. `AInv` adds to `CInv` that a REMOVE or RENAME that has changed the directory
  did so once and has lost its handle (`ActedOnce`), and that the root handle of a
  client, or of an answer on its way to it, leads to the root (`RootKept`). A crash takes
  the database back and not the directory, so both fail then (section 5) and the
  hypothesis is needed.

`NnReqRepProofs`, **any clients, connections, endpoints, requests and faults**.
`NnInv` is the conjunction of `ReqInv`, `NetTypes`, `QueuesOk` and `MessagesOk`,
and each is needed:

- `ReqInv`: what the state says of timer and pipe. A request's pipe is among its
  client's connections, so that a pipe's removal reaches the machine only in
  ACTIVE; the states that wait for the timer are those in which it stops.
- `QueuesOk`: the pipes in the load balancer are there and have room, so that a
  request that is sent without delay has a pipe; those in the fair queue have a
  request.
- `MessagesOk`: what is under way is no newer than its client's request, and
  replies are in `ran`, so that an answer that is delivered was run.

From it `ReqRepTypes` (`ReqRepTypeOK`), `ExpectedEvents` (`NoBadAction`),
`TimersFit` (`TimerFits`), `RepliesToAskers` (`OwnReplies`) and `KeepsPromise`: the
sockets implement `AtLeastOnce`, one step of it or a stutter for each of theirs.

`NnSessionProofs`, `NnContextProofs` and `NnGlobalProofs`, **any sockets, endpoints,
threads, descriptors, buffers and rounds, and threads that make any calls**. The
state is one record, and a step nests a C function in a C function in a loop. So the
invariant is a predicate of a record, and each function has a lemma that says which
relation `Step` holds between what it gets and what it returns: if `Good(s)`, then
`Good` of the result, and what no handler may change (the calls, the table, what is
freed) is as it was. A caller's lemma uses those of the functions it calls and never
their definitions; loops go through `LoopExists`, by induction over the round. The
lemmas follow the layers of the code: a session, its queue and its stream in
`NnSessionProofs`; endpoints, sockets, `Handle`, `Drained` and `nn_ctx_leave` in
`NnContextProofs`; one lemma for each action in `NnGlobalProofs`.

`Whole` is `Good`, `CallsFit` and `TableFits`. None of the properties is inductive by
itself, and each part below is there since a step needs it:

- `Peers`, `Homes`, `Bases`, `Addressed`, `AllFit`: sessions point at each other and
  at their endpoints, the registry names active endpoints of the right kind, and every
  event that is on its way is of a kind its target handles. Without the last, a
  handler might be called in a state in which it does nothing the others expect.
- `FreedClean` is `FreedLeavesNothing`. To keep it when the last endpoint of a socket
  goes needs `Life`: an endpoint that exists is in its socket's `eps` or `sdeps`
  (`Owned`), a session that exists is held by an endpoint that exists (`Housed`),
  sockets that are not in use own nothing (`Bare`), nor do endpoints not yet made
  (`Unmade`). So the endpoints that `nn_close` waits for are all there are.
- `Flow` carries the messages. An event's slot is in one queue at one place (`Uniq`,
  `Hands`): otherwise a SENT or RECEIVED would be handled twice. A SENT on its way
  means that the peer still offers its message, a RECEIVED that the message was
  fetched (`Due`), and `Streams` says that the receiver's queue and then the message
  that waits with the sender are the numbers after those received up to the last one sent.
- `TableFits`: a socket in use is in exactly one slot, the stack of unused
  descriptors names each free one once, and `nsocks` counts the others. `CallsFit`:
  where a thread stands in a call it has the locks, the slot and the socket that the
  code there relies on, so that two calls never push or pop a descriptor at once.

From it `TypeCorrect` (`NnGlobalTypeOK`), `SlotsRight` (`SlotsConsistent`), `StreamRight`
(`StreamKept`) and `FreedRight` (`FreedLeavesNothing`). `Life` and `Flow` are claimed until
the process aborts; the types, `FreedClean` and the table hold after it as well. The
attempt to prove `FreedLeavesNothing` found a mistake in the model: the semaphore of
`nn_close` was taken without the check that no endpoint is still being shut down
(`sdeps`, `sock.c:218`), which the code makes; the model makes it now.

`SignalledRight` (`ReadyIsSignalled`) takes a second invariant, `AtRest`, next to `Whole`.
The efds are right only when a context is left: in between, the socket's context
has changed a pipe, or has an IN or OUT in its queue that the socket has not handled
yet. So `Led(s, o)` says what holds while the context of socket `o` is entered, the
relation `Turn(s, u, o)` that a function keeps it, and each function of the model has
a lemma that it is a `Turn`, next to the one that it is a `Step`: sessions and pipes in
`NnSessionProofs`, endpoints, sockets, `Handle` and `Drained` in `NnContextProofs`, and one
lemma for each action (`...Rests`) in `NnGlobalProofs`. `AtRest` is `Led` of no socket,
with no event of a context waiting. The parts of `Led`:

- `Links`: the states `in` and `out` of an active pipe say whether its session's queue
  has a message and whether one is being sent; before the session is active its
  pipe is not used. nn_pipe_recv and nn_pipe_send decide by these states whether the
  pipe stays with `nn_excl`.
- `Wires`: for a socket and the pipe that `nn_excl` holds, the queue has a message
  exactly if `inpipe` is the pipe or an IN of it is under way, and likewise for OUT; the
  efd is what `flags` says. `Heard`: an IN or OUT is of a pipe that was started.
- `Rested`: every *other* socket's `flags` are what its pipe can do. A context must not
  touch them: hence `Local`, the events in the queue of a context are for that socket
  and its endpoints, and `Kin`, with which the owner of a session or endpoint is the
  same on both ways to it and stays so (`Stays`).
- `nn_sock_onleave` then makes `flags` and efd of `o` what its pipe can do
  (`OnleaveRests`), and `Led(s, o)` becomes `AtRest`.

Assumptions of the proofs: the `ASSUME`s of `Chloros` (`ThreadBound`,
`YieldForms`), `ServedTree` (`DepthBound`, `NodeBound`), `FHandleDb`
(`Sentinels`: the values for "none" are no handle and no path), `SnfsServer`
(`RenameKinds`, `FdBound`, `EndKinds`), `SnfsClient` (`CallbackForms`, `ServedDirectory`:
the callbacks are those of `fuseops.c`, with paths a caller of theirs may give, and the
server starts in a directory), `NnPipes` (`PipeBounds`, `NoClientIsNone`), `NnInproc`
(`InprocBounds`: there is a socket, an endpoint and room for a message) and `NnGlobal`
(`GlobalBounds`: kinds of constants, and that options name descriptors).

**Only proved**, as the runs need not repeat it: `ZombiesReaped`, `NoErrExit`,
`PathKeepsHandle`, `HandleExact`, `TimerFits`, `RootHandleWorks`; that the clients' server
implements `SnfsServer`; and that `OneOwner` and `RoundRobin` hold for any number of
kernel threads.

**Only model-checked**, and why:

- liveness, since the prover has no ENABLED and so no fairness: `StarvationFree`,
  `ZombieDeleted`, `RequestsAnswered`, `StopCompletes`, `HandshakeEnds`, `Reconnects`,
  `CallsReturn`, `TermUnblocks`;
- `SequentialUseIsSafe` of `NnGlobal`. It says which of two
  dozen aborts never happen without overlapping calls; its invariant would list the
  events each pair of machines may have under way, for every abort, in an execution
  with one call at a time, and that the rounds suffice, which is a matter of the
  instance (`MaxRounds`);
- `NnTrie` and `NnPubSub`: the trie is a recursive structure and its operators are
  recursive; that it holds the topics is an induction over its depth;
- `NnEndpoint`: a step nests the operators of up to ten C functions, over sets of
  records and folds over sets of connections, and `NoUnexpectedEvent` is a statement
  about the order of the events in the queue, whose invariant would list the events
  each pair of machines may have under way. Its only constant is `MaxConns`, and
  connection objects meet only in the listening endpoint.

## 5. What holds, in short

With one kernel thread chloros does what its header says. With several, the
bookkeeping of owners and the order of the queue still hold at every
interleaving, and no spawned thread is lost, but `Wait` and `Spawn` promise less
than with one: `Wait` may return while another kernel thread runs a spawned
thread, and the child of a `Spawn` may be taken by another kernel thread between
the two critical sections of `Spawn`. That is why `WaitMeansDone` and
`SpawnRunsChild` are stated for one kernel thread.

The server's database stays consistent under every sequence of requests, crashes
and restarts, errors change nothing, and the handle in a reply leads, when it is
sent, to the file it is for. That a handle *keeps* leading to its file holds as
long as only files are renamed, to free names, and the server ends by SIGTERM;
each of the three restrictions is necessary.

Clients get more than their timeouts suggest: a handle they use is the handle of
the path they meant or of nothing, a REMOVE or RENAME changes the directory at
most once although it may be run several times (the first time takes its handle
away), and a callback that returns 0 has been carried out by its own request.
This needs a server that does not crash: after one, `ActsOnce` fails, since the
handle database goes back and the directory does not. MKDIR and CREATE may take
effect twice in any case, and a root handle that was asked for once stays valid
only without crashes (`RootHandleWorks`).

REQ sockets keep the at-least-once promise over connections that break, and
answer every request in the end. A TCP or IPC endpoint always stops, ends handshakes and
reconnects. Its machines expect every event but for nine cases, below. A program
that makes its nanomsg calls one after the other is never aborted, apart from
three uses that the library does not support; one whose calls overlap can be, though
not by an event that is raised twice or freed in a queue, a pipe that is gone, or an
efd that should have been signalled. Every call returns or polls, unless two threads
wait for each other's lock (`LockCycle`).

A hazard that the code does run into has no property in `PROJECT.json`: the aborts that
`NoUnexpectedEvent` and `SequentialUseIsSafe` name, the cycle that `CallsReturn`
excuses, and the races of several kernel threads in chloros are described in
section 6 and not caught by a run, but for the one that `ResumesSavedContext` shows.

## 6. Disagreements between the code and what the repository says of it

- `switch_unsaved_context`: with two kernel threads, `Yield` unlocks the queue
  before the context of the thread it has queued is saved; another kernel thread
  can load a stale context (`chloros.cpp:211-216`).
- `handles_lost_in_crash`: handles given since the database was last closed are
  lost in a crash (`fhandledb.c:195`).
- `nn_topic_lost`: a node that gets one child more than a sparse node holds (and
  a dense one that shrinks) is made again without its own subscriptions
  (`trie.c:384`, `609`), and the SUB socket drops what matches them.

Statements TLC also refutes, on instances like those of section 3:
`InitialStaysHome` (a spawned thread may carry another kernel thread's initial
thread away, `chloros.cpp:179-186`, although lines 44-45 say who owns it) and
`CleanupIsSafe` (another kernel thread deletes a zombie whose stack is in use;
handout of lab 1, page 4), both with two kernel threads; `GoneMeansEnoent` and
`EnoentMeansGone` (`handlers.c:121-123`: after a rename over an existing file its
handle leads to the file that replaced it, and after the rename of a directory
the handles of what is in it lead nowhere, `handlers.c:780-781`);
`HandlesImplementMap` with `Renames = {"directory"}`; `DoneHoldsReply`
(`req.c:228`, "In DONE state the reply is stored in 'reply' field") for a socket
with two endpoints, since `nn_req_in` (146-201) destroys the reply when another
copy comes; `AnswersAtLeastOnce` holds there all the same.

The reasons in `NoUnexpectedEvent` are ways the code does abort:
`polls_closed_fd` (a queued task polls a descriptor that was closed),
`uses_failed_socket` (a send or receive between a failure and its event),
`event_of_removed_pipe` and `pipe_event_at_close` (an event of a pipe that was
removed in the same visit, or while the socket closes), `late_header_error` (the
connection ends while the header timer is being stopped), `retry_timer_freed`
(`btcp.c:222` does not wait for its timer, nor `bipc.c:178`), `frees_queued_task`
(`nn_usock_term` cancels only the task to receive) and, for IPC,
`unknown_message_type` (a peer's message starts with another byte than
`NN_SIPC_MSG_NORMAL`, `sipc.c:333`) and `file_not_removed` (a stale file cannot be
unlinked, `bipc.c:411`).

In `NnGlobal`, for calls that do not overlap: a second connection to a PAIR
socket aborts (`sinproc.c:345`; `tests/inproc.c:116` is switched off), so does
binding an address again while an endpoint that was connected to it remains
(`ins.c:120`, `cinproc.c:223`), and shutting down after `nn_term`, where `doc/nn_term.txt:22-26`
promises ETERM; a second `nn_term` aborts as well. For calls that overlap:
`nn_setsockopt` of a transport's option holds its context and wants the global
lock while `nn_bind`, `nn_connect`, `nn_close` or `nn_term` holds that and wants
the context; a thread that polls a socket which another closes is not woken,
though `sock.c:800-801` expects so of closing the descriptors; sessions that stop
while they connect, or whose events are in nobody's queue at that moment, are
used without a peer or after they were freed; an event reaches an object that was
freed meanwhile; statistics are counted on a socket
that was closed (`global.c:837`). `nn_close` that is interrupted leaves its
socket half closed, and the flag of `nn_term` is never taken back.

In `trie.c`, once a user unsubscribes a topic that the trie does not hold: the
end of the topic is seen before the prefix is compared, so another topic goes
(`trie.c:490`); an empty trie, or a NULL child of a dense node, is dereferenced;
the EINVAL of a dense node's NULL child leaves its count one too small. And
`nn_trie_match` reads past the end of a message that ends within a topic
(`FilterExact` allows for it).

Smaller ones, met while reading: `Initialize` creates the initial thread in
state `kWaiting`, so it is queued as waiting at its first `Spawn` although it
has not called `Wait` (`chloros.cpp:110`, `chloros.h:97-98`); `RENAME` over an
existing file answers with the handle the replaced file had, where the write-up
speaks of a new one (`extra_credit.ops.txt:48-50`); the `eof` flag of READ
compares with the requested count and not with the file size
(`handlers.c:389-391, 458`); SETATTR sets attributes one after the other and may
fail between two (`handlers.c:549-628`); `nn_shutdown(sock, 0)` in `serve_loop`
does nothing; the second NOOP and MOUNT of a client wait for ever if the server
ends (`request.c:79`). `CallReturns`, that every callback of a *mounted* client
returns, holds for one client with every callback and a server that crashes
(514,913 states).

## 7. Not modelled, and why

- Logging, printing, option parsing, message layouts and allocation failure: no
  state that the properties tell apart.
- The registers and stack words of `context_switch.S`: `SaveContext` and
  `LoadContext` stand for the whole save and load.
- Contents and attributes of files, hence what READ, WRITE and SETATTR carry.
- Berkeley DB, Linux, libfuse and FUSE: external, modelled as the code uses them.
- nanomsg's other protocols (survey, bus, pipeline), which share the load
  balancer, fair queue and distribution modelled here; devices, symbols, statistics and tools; the
  Windows, kqueue, poll and thread-per-lookup variants. The name lookup is that of
  builds with `getaddrinfo_a`, which configure chooses on Linux.
- Priorities of endpoints, the keys that devices add to a request's backtrace,
  and the values of socket options.
- The bodies and sizes of messages: a receive buffer's limit counts messages.
