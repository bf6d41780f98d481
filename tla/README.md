# TLA+ models of the Inference Engine runtime

These modules describe, check and partly prove the runtime of the OpenVINO
Inference Engine that stands in this repository: how an inference request is
queued, executed, waited for, called back, reused and destroyed, on the CPU and
GPU, on several devices at once (HETERO), on a Myriad stick and on the GNA; by
how many threads, and what happens when an inference fails, a wait times out, a
queue is full or a device is lost.  One sequential algorithm is modelled too:
the placement of the tensors in the memory of the CPU plugin.

## The system

A plugin (CPU, GPU, GNA, Myriad, HETERO) turns a network into an *executable
network*.  A network creates *infer requests*, which share its task executor,
its task synchronizer and its callback executor.  An application calls
`Infer()`, `StartAsync()`, `Wait()` and `SetCompletionCallback()` on requests
from threads of its own; callbacks run on the callback executor and may call
the request again.

| Component | State | Operations | What makes it correct |
|---|---|---|---|
| Task synchronizer (`ie_task_synchronizer.hpp`) | ticket counter, queue of tickets | `lock`, `unlock` | one at a time, in order, nobody starves, a refusal leaves nothing behind |
| Task (`ie_task.cpp`) | status, exception, `_isOnWait` | `occupy`, `runNoThrowNoBusyCheck`, `runWithSynchronizer`, `wait` | a BUSY task is queued or running once; waiters are woken |
| Task executor (`ie_task_executor.cpp`) | queue, `_isStopped` | `startTask`, worker loop, destructor | every accepted task runs once, in order; the destructor ends |
| Staged task and default request (`ie_task_with_stages.cpp`, `impl/ie_infer_async_request_thread_safe_*.hpp`) | busy flag, task list, current task, callback manager | `StartAsync`, `Infer`, `Wait`, callback, destructor | one inference at a time, one callback for each start, told the right outcome; the destructor waits for everything |
| `Infer()` of the CPU and GPU plugins (`*_async_infer_request.cpp`) | callback enabled | `Infer` | the callback is off for this call only |
| CPU and GPU streams (`mkldnn_streams.cpp`, `cldnn_streams_task_executor.cpp`) | queue, several workers | as the executor | tasks begin in order and run once; no stream sleeps while needed; the destructor ends |
| HETERO request (`hetero_*_infer_request.cpp`) | chain of sub-requests, busy flag, shared blobs | `SetBlob`, `StartAsync`, `Infer`, `Wait`, chained callbacks | sub-requests in order, no inference overtakes another, each uses the blobs set before it; a failure is reported |
| Myriad device pool (`myriad_executor.cpp`, `myriad_executable_network.h`) | sticks, graphs on each | `openDevice`, `allocateGraph`, `deallocateGraph`, `closeDevices` | the counts are the graphs; no stick is overfilled; a stick is shared only when none is empty |
| Myriad request (`myriad_*infer_request.cpp`, `mvnc_api.c`) | two executors, two FIFOs for each graph | write, trigger, read | a result reaches the request whose input it belongs to; every start ends |
| GNA request slots (`gna_plugin.cpp`, `gna_infer_request.hpp`) | copies of the network, their buffers | `QueueInference`, `Wait`, `Infer`, `Reset` | a request is given its own result; a slot is taken as long as it is needed |
| Memory solver (`mkldnn_memory_solver.cpp`) | boxes, time slots | constructor, `maxDepth`, `solve` | boxes alive together do not overlap; the blob holds all; nothing lies higher than it must |
| HETERO splitter, VPU allocator, executor manager, XLink and mvnc, Core, network representation and readers, shape inference, transformations, kernels | graphs, blobs, registries | mostly sequential code | not modelled, see the end |

The components interact through calls on the application's threads, through the
queues of the executors, and through callbacks.  The hard part is that most of
the state of a request (`_currentTask`, `_asyncTask`, the list of tasks, the
stage of a task, the callback manager, the callback flag) has no lock: only
the busy flag is meant to protect it.  `PROJECT.json` lists the hazards with
the line at which each one bites and the property aimed at it.

## The modules

    FifoLock <------ TaskSynchronizer <------------ TaskSynchronizerProofs
    TaskQueue <----- TaskExecutor <---------------- TaskExecutorProofs
        ^----------- MultiWorkerTaskExecutor <----- MultiWorkerTaskExecutorProofs
        .
        . (the queue that TaskQueue specifies, with one active task)
    AsyncInferRequest <---------------------------- AsyncInferRequestProofs
        .
        . (its contract: when it refuses a start, when its callback begins)
    SubRequestChain <--- HeteroInferRequest <------ HeteroInferRequestProofs
    MyriadInferRequests <--+
                           +----------------------- MyriadProofs
    MyriadDevicePool <-----+
    GNARequestSlots <------------------------------ GNARequestSlotsProofs
    MemorySolver <--------------------------------- MemorySolverProofs

On the left are the abstract specifications.  Each module in the middle has an
`MC` module and one to three `.cfg` files.  The two Myriad modules share a module
of proofs, so the names of the pool's specification do not clash with those of
the requests (`PoolInit`, `PoolNext`, `PoolSpec`).

**TaskSynchronizer** is the ticket lock of a network.  A thread is `outside`,
has drawn a ticket and is `waiting` (about to test the front of the queue),
`asleep` on the condition variable, `inside`, or in one of the steps of
`unlock()`: `popping` (it holds `_taskMutex`) and `notifying`.  The pushing of
a ticket and the test of the front are two critical sections under different
mutexes, and `unlock()` takes both; the model keeps these steps apart.  A
refused `lock()` uses up a ticket number, as in the code.  Spurious wake-ups
are actions.

**FifoLock** is what it promises: callers join a line of bounded length and
are served one at a time in that order.  `ImplementsFifoLock` maps the queue
of tickets to the line of the threads that hold them.

**TaskExecutor** has the status of each task, the queue, the single worker
thread (test of `_isStopped`, wait, run, notify, pop), clients in `startTask`
(occupy, then push: two critical sections) and in `Task::wait` with and without
timeout, and the destructor (wait for an empty queue, stop, join).  A finished
task is popped only after its status is final, so a client can restart it
while its old entry is still at the front.

**MultiWorkerTaskExecutor** is the executor of a CPU or GPU network with
several streams.  It has the queue, and for each worker thread its place, its
`currentTask`, its `isQueueEmpty` and the state of its thread-local graph; an
owner thread that is in the constructor, holds the executor, or is in the
destructor; and clients in `startTask`.  All these threads share one condition
variable, so a notification is the choice of a set of sleeping threads:
`notify_one` in `startTask`, `notify_all` by the worker that took the last task
and by the destructor.  The initialization tasks of the workers may fail; the
network then destroys the executor it has just made.  The CPU and the GPU have
the same code; only the GPU has `waitingCounter`, a static member that the
executors of all GPU networks in the process change.  One executor is modelled
in full, the others by what they do to the counter: they raise it and lower it
again, at any moment (`elsewhere`).

**TaskQueue** is the promise of both executors: accepted tasks are run once,
they begin in FIFO order with at most `MaxActive` at a time (one for
`TaskExecutor`, the number of streams for the other), and the queue closes when
all have been run.

**AsyncInferRequest** is one request of the default runtime with all threads
that touch it: clients, the thread of the request executor and that of the
callback executor.  The two executors are the FIFO queues that `TaskQueue`
specifies.  Each access to unprotected state is a step:

- `StartAsync()`: flag (atomic exchange), `checkBlobs` which may throw, reset
  of the callback manager, choice of a task, reset of its stages, occupy, push;
- a running staged task: lock of `_runMutex`, copy of `_asyncTask`, switch on
  the stage, inference, `stageDone`, decision between callback and end, start
  of the callback stage, the callback stage itself, and
  `processAsyncTaskFailure` from each place an exception can come from;
- `Wait()`: flag of the task, test, sleep, timeout, return, release of the
  busy flag, check of the exception;
- `Infer()`: the default one on the client's thread, and that of the CPU and
  GPU plugins, which is `disableCallback`, `StartAsync`, `Wait`,
  `enableCallback`;
- the destructor: sweeps of the task list and waits.

`usage` says what the application does in a behaviour (see `Usages` in the
module): set a callback, restart from it, use timeouts, start again before it
knows of the completion, and so on.  The code allows all of these; the runs
separate the ways of use that the runtime serves correctly from those that it
does not.  Data is abstract: an inference has an outcome and nothing else.  The
task list is the set of its slots; a slot is numbered when its task is created,
so the first task of the list is the lowest slot of the set.

**HeteroInferRequest** composes sub-requests.  A sub-request is an
`AsyncInferRequest`, reduced to what its neighbours see of it: `phase` is how
far its task of each round is, `AtRest` when it accepts a start, `TaskEnds` when
a `Wait()` on it returns.  The callback of each sub-request starts the next
one; that of the last lowers the flag and calls the user.  Blobs are numbers:
`given` is what the user set, `known` what the request has handed on, `bound`
what each sub-request holds.  `Wait()` goes through the sub-requests one after
the other with the same timeout.

**SubRequestChain** is its promise: one inference at a time passes the
sub-requests in their order, up to the first that fails.

**MyriadDevicePool** is the pool of sticks of a plugin.  A step is a critical
section of `device_mutex`: `openDevice` (an empty stick, a named one, a mock for
a platform that is not there, a new boot, the least loaded one),
`deallocateGraph`, `closeDevices`.  Compilation and `allocateGraph`, outside the
lock, may throw; networks have requests, which keep them alive; the plugin may
be unloaded first.

**MyriadInferRequests** has the requests of several networks, the queues of
their executors (own or shared), the two FIFOs of each graph, the triggers and
the device, which may be lost.  An element of a FIFO is the request and the
number of its start, which the code does not store: it is there to say whose
result a request reads.  A trigger may be refused while the link is up; its
request fails, and the input that it has written stays in the FIFO (`refused`
counts these).

**GNARequestSlots** has the slots of the device, what each one runs, the index
that a request keeps, the memory layers, and one thread of calls beside the
device.  The output blob of each request has a layout: `Wait()` exports to `NC`,
exports nothing to `CN`, and throws on others, such as the `NCHW` of an output
that is not 2-D, after it has freed the slot.

**MemorySolver** is the solver a turn of a loop at a time: the constructor with
its two cursors, `maxTopDepth`, and `solve` with each lift of a box.  Where
`std::sort` leaves the order open, any order is taken.

## The runs

| Run | Bounds | Shows |
|---|---|---|
| `synchronizer` | four threads, three places, a counter that wraps at five | exclusion, tickets match threads, FIFO lock with its liveness |
| `executor` | two tasks, two clients, restarts without bound, a destructor at any moment | refinement of `TaskQueue`; the destructor returns, and every `wait()` without timeout unless its task is restarted for ever |
| `streams` | three streams, two clients, four starts of three tasks, initialization that may fail, a destructor at any moment, a task in another GPU executor | loaded graphs, no stream sleeps while needed, exact static counter, refinement of `TaskQueue`, the destructor returns |
| `async_request` | two clients, four starts, six ways of use | types; one inference at a time; each start served, called back once and told its own outcome; `Wait()` and the destructor wait for all of it |
| `hetero` | three sub-requests of a CPU, another device and a CPU, three inferences, two new blobs, four ways of use | the chain, `Wait()` says OK only of a complete chain, each inference uses the blobs set before it, the callback is called, the flag is lowered |
| `myriad_pool` | four networks with three kinds of wishes, three sticks of two platforms for one, two and one graph | counts are graphs, no stick overfilled, sharing only if none is empty |
| `myriad_requests` | three requests of one network and one of another, four starts, FIFOs of two, own and shared executors, up to two refused triggers, a device that may be lost | each refused trigger leaves one element; without one, results match inputs and the FIFOs hold the inferences in flight in order; every start ends unless refused triggers have filled a FIFO |
| `memory` | every multiset of four boxes of two sizes in four time steps | slots exist, no overlap, exact depth, lowest place, the solver ends |
| `gna_slots` | three requests with blobs of every layout, two slots, or one with memory layers, five inferences | a request with an `NC` blob is given its own result; a taken slot is waited for |
| `async_timed_wait` | finding | `Wait()` lowers the busy flag on a timeout, and two inferences run at once |
| `hetero_failure` | finding | a sub-request that fails ends the chain: the callback of the user is never called, and the flag stays up |
| `myriad_mixed` | finding | `Infer()` beside `StartAsync()` on one network: each reads the result of the other |

`CHECK_DEADLOCK FALSE` is set where the system stops: requests, streams and the
pool are destroyed or the clients have made all their calls, the solver ends.

### Why the bounds are enough

- `MaxTasksInQueue` = 3 stands for 10 in the code.  Refusal depends on the
  queue being full, not on its length; four threads make a refusal happen.
- `IdModulus` = 5 stands for 2^32.  `NoLap` leaves out runs in which a ticket
  number comes round while its previous holder is still at the front; that
  takes 2^32 refused calls during one inference.
- `MaxStarts` bounds the number of accepted starts (`TaskExecutor` needs no such
  bound, since it counts nothing).  Three or four starts let a
  task be used, used again and followed by another one; `MaxTasks` is as large
  as the number of tasks that these starts create, so the bound never hides a
  start.
- Three streams let a notification reach one sleeper while a second one sleeps
  and a third one works.  `CounterModulus` = 6 stands for 2^32; it has to
  exceed the number of tasks that can be waiting.  `MaxElsewhere` = 1 bounds
  those in the other GPU executors, which raise and lower the counter as often
  as they like.
- Two clients are enough for each race between calls of a request; with the
  callback they make three threads that start it.
- Three sub-requests give a first, an inner and a last one, and three rounds
  let one inference follow another while the task of a third has yet to end.
- `FifoElements` = 2 is what `allocateGraph()` uses; three requests fill it.
  The second network shares the executors and must not be disturbed.
  `MaxRefused` = 2: one refused trigger shifts the results, two fill a FIFO; it
  is 0 in `myriad_mixed`.
- A stick that can be shared, two that can be full and a platform that is
  named make each branch of `openDevice` happen, with a failure in each.
- Four boxes are what it takes for a gap between two placed boxes to be found
  too small; the proofs do not need the bound.
- Two slots and three requests make the device full and a slot change hands.
  Every mix of the three layouts is an initial state.

### Fairness

Only weak fairness, and only for threads that the code obliges to go on: a
thread inside a call of the library, the worker threads, the callbacks, a
destructor that has begun, the solver, and the device as long as it answers (it
serves the triggers it has).  No client has to call anything, no timeout has to
elapse, no inference has to fail or succeed, no device has to be lost, and
mutexes are not assumed to be fair.  An inference ends at last, as
`Wait(RESULT_READY)` supposes.

Two liveness properties have an escape, because the code does not give more:

- `WaitReturns` does not speak of a task that is restarted for ever.  A client
  that `notify_all` wakes tests the status again, and may find each time that
  another client has made the task BUSY in between (`ie_task.cpp:57-65`); TLC
  finds this behaviour when the escape is taken away.
- `EveryStartEnds` lets a start wait for ever when refused triggers have filled
  the input FIFO that it, or the executor it shares, writes to (`IsJammed`).

## Findings and remarks

Three runs end in a counterexample that a comment or a document of the
repository excludes:

- `async_timed_wait`: `Wait()` with a timeout lowers the busy flag when the
  timeout elapses (`impl/ie_infer_async_request_thread_safe_default.hpp:210`),
  so `Infer()` is accepted and runs beside the inference in flight.
- `hetero_failure`: when a sub-request that is not the last one fails, its
  callback neither starts the next one nor calls the user
  (`hetero_infer_request.cpp:143`), and the flag stays up.
- `myriad_mixed`: `InferImpl()` takes the task synchronizer, the stages of
  `StartAsync()` do not (`myriad_infer_request.cpp:97`,
  `myriad_async_infer_request.cpp:28`).  Inputs and outputs then pair up
  wrongly: each of two requests reads the result of the other.

Other observations met while modelling; `usage` and the constants exclude them
from the passing runs, and the first group shows up when they are changed.

Default request:

- `wait(-1)` can return `TS_BUSY` when the task is restarted between the wake-up
  and the return (`ie_task.cpp:71`; `ie_task.hpp:66` says otherwise).
- `Infer()` on a busy CPU or GPU request is refused, but it has switched the
  callback of the inference in flight off and on
  (`mkldnn_async_infer_request.cpp:19`).
- A failure lowers the flag twice (`..._default.hpp:154` and the `Wait()`); the
  second time may be in the middle of the next inference.
- A task that fails and is restarted by the application at that moment: the
  callback stage reads another task from `_asyncTask` (line 170).  The callback
  is lost and the destructor hangs.
- A synchronous task stays `TS_BUSY` for ever when the synchronizer refuses it
  (`ie_task.cpp:46`).
- With a callback that restarts the request, a client that also calls `Wait()`
  lowers the flag of the restarted inference (`..._default.hpp:210`).
- After a timed `Wait()` a second `StartAsync()` can be accepted and never
  inferred, because it resets the stages of the task that still runs (line 137).
- `SetBlob()` and the like test the flag and then act
  (`..._internal.hpp:82`).

HETERO:

- Two clients that start one request both pass the test of the flag
  (`hetero_async_infer_request.cpp:30`).
- An input that two subgraphs read is handed to the first only
  (`hetero_infer_request.cpp:106`).
- A failed `Infer()` of a CPU or GPU sub-request leaves its callback off, and
  the next `Wait()` of HETERO says OK.
- No destructor waits (`hetero_async_infer_request.cpp:52`).
- `DefaultSplitChecker` starts at `index = 1` (`hetero_graph_splitter.cpp:157`).

Myriad and GNA:

- `myriad_metrics.cpp:61` reads the pool and `myriad_executable_network.h:122`
  the executors without a lock.  `myriad_executor.cpp:201` does not check that a
  stick allows at least one graph; `PoolAssumption` supposes it.
- When `ncGraphQueueInference()` fails although the device answers
  (`mvnc_api.c:3978`), the input has been written already, and `queueInference()`
  throws without taking it back (`myriad_executor.cpp:411`).  The next trigger
  infers the stale input, and its request gets that result; two such failures
  fill the FIFO, and the next write blocks for ever.  The model has these
  failures (`TriggerRefused`).  `ResultsMatchInputs`, which does not except them,
  is violated with one of them and `StartAsync()` alone (`MaxRefused = 1`).
- GNA: `GNAPlugin::Wait()` frees the slot (`gna_plugin.cpp:2195`) before it throws
  on the output blob (2205, 2250), which `GetOutputBlob()` makes `NCHW` for every
  output that is not 2-D.  A second `Wait()` returns at once (2189) and the
  request says OK, with no result.  A `CN` blob gets OK without one on the first
  `Wait()`.  The model has both; `HasOwnResult` is violated for a request with
  such a blob (`Layouts = {"NCHW"}`, one request, one slot, one inference).
- GNA: with `Reuses = TRUE`, `ExportedResultsAreOwn` is violated: after
  `StartAsync()`, `Infer()` and `Wait()` on one request, `Wait()` returns OK and
  has overwritten the blob by the older result. The slot that the request
  forgets stays taken. A failing `Infer()` leaves its slot taken as well.
  `Wait()` ignores its timeout, and the callback is never called.

## The proofs

Each theorem holds for every value of the constants that satisfies the named
assumption of its module.  The `Proofs` modules are hierarchical; each has an
inductive invariant whose parts have lemmas of their own, and the type
invariant of the module is its first theorem.  A theorem that speaks of the ways
of use has them as a hypothesis on the constants, which the configuration of the
passing run meets.

**TaskSynchronizerProofs** (`SynchronizerAssumption`): `TypeCorrect`,
`MutuallyExclusive`, `TicketsAccounted`.  The inductive invariant `IInv` adds
what makes them hold when the counter wraps: the queue holds consecutive
numbers modulo `IdModulus`, the last of them just before `taskCount`, so numbers
in the queue are distinct as long as the queue is shorter than the modulus; each
number belongs to the one thread whose `taskID` it is; a thread that is inside
or popping has its number at the front; and `_taskMutex` is held by exactly the
thread that pops or notifies.  Mutual exclusion follows: two threads inside
would both own the front ticket.  `NoLap` is part of the specification and
named as a bound there.  From the same invariant, `SynchronizerIsAFifoLock`: the
line of `FifoLock` is the sequence of the holders of the queued tickets, and
each step of the synchronizer changes it as a step of the lock does, or not at
all.  `SynchronizerLosesNoWakeup` and `SynchronizerDoesNotDeadlock`: see "Waking
up" below.

**TaskExecutorProofs** (`ExecutorAssumption`): `ExecutorTypeCorrect`,
`ExecutorBusyPendingOnce` (a task is BUSY exactly if one start of it is on its
way: taken by a client, queued or running), `ExecutorDestructorLosesNothing`
(the queue is empty from the stop on), and `ExecutorIsATaskQueue`: the initial
states and every step of the executor map to `TaskQueue`, or leave it alone.
`ExecutorLosesNoWakeup` and `ExecutorDoesNotDeadlock`: see "Waking up".

**AsyncInferRequestProofs** (`RequestAssumption`, hypothesis `ServedUsages`):
`RequestTypeCorrect`, `InferenceExclusive`, `BusyGuards`, `StartsServedOnce`,
`WaitIsAfterCallback`, `DestroyedIsUnused`, the action property
`CallbackIsToldOutcome`, and `RequestLosesNoWakeup` and `RequestDoesNotDeadlock`
(see "Waking up").  `ServedUsages` asks that each way of use is in one of
two families, which together contain the six ways of the run:

- `Relayed`: a callback tells of each completion; any number of clients and the
  callback itself start the request, with `StartAsync()` or the default
  `Infer()`; nobody waits and no inference fails;
- `OneClient`: one client uses the request, and waits for each result if there
  is a callback; inferences may fail, `Wait()` may time out (not together with
  an impatient client), `Infer()` may be that of the CPU and GPU plugins (not
  together with a callback and failures).

An accepted inference is in one place at a time, in a queue or with an
executor, from the push of its task until its callback stage lowers the flag or
its status is final: `Flight`.  While it flies nobody is between the flag that
it raised and the push of the task: in the first family because the flag is up,
in the second because the client has not been told of the end.  So the task in
flight is `_currentTask` and `_asyncTask`, and its status and stage say how far
it is.  `Inv` is the conjunction of the types, of these facts (`FlightInv`), of
where the client is (`ClientInv`), of the numbers of starts, inferences and
callbacks (`CountOK`) and of the outcomes (`OutcomeOK`).  TLC found no violation
of `Inv` in the 152 ways of use that are served, on a small instance, before it
was proved.

**MultiWorkerTaskExecutorProofs** (`StreamsAssumption`: finitely many clients,
at least one worker, a counter wide enough for `MaxStarts` and `MaxElsewhere`
together): `TypeCorrect`, `NoStreamSleepsWhenNeeded`, `LoadedBeforeRunning`,
`CounterNeverWraps`, `BusyTaskPendingOnce`, `DestructorLosesNothing`,
`StreamsAreATaskQueue`, `StreamsLoseNoWakeup`, `StreamsDoNotDeadlock` (see
"Waking up").  All rest on `ControlInv`: types, places of the threads, nobody
starts a task unless the executor is loaded, workers hold a task exactly between
taking and finishing it, `_initCount` is the number of initialised workers.

- No stream sleeps needlessly: a worker falls asleep only on an empty queue;
  after that a push adds a task and an awake worker, and a worker that takes a
  task removes both.  That the woken thread is a worker and not the destructor
  is what `ControlInv` is needed for.
- Graphs: the constructor has counted all workers, so all have a graph or have
  failed, and it goes on to `loaded` only if none failed.
- Counter: it is the tasks on their way here and elsewhere.  The former never
  exceed the starts, the latter `MaxElsewhere`, for every value of both, and each
  is lowered only after it was raised, so it cannot wrap.
- BUSY: what is on its way is BUSY, what is BUSY is on its way, and in one place
  only; the cardinalities follow.
- Destruction: the queue is empty from the stop on, and the workers have gone
  when it is over.
- `TaskQueue`: the active tasks are those that workers hold, at most one for
  each worker; the bag of active tasks grows when a worker takes a task and
  shrinks when it has finished it, and no notification is seen.

**HeteroInferRequestProofs** (`HeteroAssumption`; all theorems assume
`OneUser`: one client, beside the callback):

| Theorem | Property | Further hypothesis |
|---|---|---|
| `HeteroTypeCorrect` | `TypeOK` | |
| `NextSubRequestIsAlwaysFree` | `NextSubRequestIsFree` | |
| `WaitOkIsComplete` | `WaitOkMeansComplete` | who waits does not mix `Infer()` with inferences that fail |
| `EndIsCalledBack` | `EndMeansCallback` | who counts on the callback sees no inference fail |
| `BlobsAreHandedOn` | `InferenceUsesItsBlobs` | a blob that is set has one asker or is preprocessed, and an output that is set is not read again |
| `HeteroIsAChain` | `ImplementsChain` | `Infer()` and inferences that fail are not mixed |
| `FlagIsNotForgotten` | `FlagIsHeldForAReason` | the same |
| `HeteroDoesNotDeadlock` | `SomebodyGoesOn` | a network has an input or an output |

The further hypotheses are the cases in which the code does not keep the
property (see the remarks on HETERO below the findings, and `hetero_failure`).
The inductive invariant says that at most one sub-request is active, that it
makes the round that was accepted last, and that those before it have passed
(`PhasesOK`).  Nobody begins a start while one is active (`StartsOK`): where the
callback does not restart, because the flag stays up until the chain has ended,
and a `Wait()`, which lowers it too, goes through the sub-requests behind the
active one (`WaitsOK`); where it does, because the client starts the request
only once, and the user's callback runs when the last sub-request has ended.
`InfersOK` and `EnabledOK` follow `Infer()` and the callbacks that it turns off;
`FollowsOK` says that what passes a sub-request comes to the next one, and
`SeenOK` and `CountOK` what `Wait()` has seen and how often the user was called.
The blobs have an invariant of their own (`BlobsOK`).  TLC found no violation of
either in the 108 ways in which one client may use three sub-requests, with two
rounds, before they were proved.

`FlagIsHeldForAReason` is what can be proved of `FlagIsLowered`: while the flag
is up somebody is on the way to lower it, or the last round has failed.  It needs
that no start is refused once the flag is up, and that a callback which is off is
off for an `Infer()` that is waiting for it; after an `Infer()` that failed the
latter does not hold, hence the hypothesis.  On a small instance with 38 ways of
use TLC finds it violated where the two are mixed, and nowhere else; it finds no
violation of `SomebodyGoesOn`.

**MyriadProofs**, the pool (`PoolAssumption`): `PoolTypeCorrect`,
`PoolCountsAreExact`, `PoolGraphsFit`, `PoolRequestsHaveGraph`, and the action
property `PoolSharesLast`.  The count of a stick is the cardinality of its
holders, a loader that failed included, until it gives the stick back; a stick
is given out only below its limit, and a network lives as long as its requests.
A stick of the pool whose count is zero has therefore no holder, and
`openDevice` tries those first.

**MyriadProofs**, the requests (`RequestsAssumption`, hypothesis `OneWayEach`:
all starts on one network are made in the same way): `RequestsTypeCorrect`,
`ResultsAreOfTheInput`, `FifosHoldInferencesInOrder`.  Whoever writes or triggers
is at the head of its queue.  All requests of a network write from the same
queue, so when one writes, all others in flight have been handed over to the
queue that reads; the order of the inputs, of the triggers and of the reads is
then one and the same, until a trigger of the network is refused.  Each refusal
adds exactly one element that belongs to nobody, so that the number of elements
is known afterwards too, and no trigger meets an empty FIFO.  `myriad_mixed` shows
that the hypothesis is needed, the remarks above show it of the condition.

**Waking up.**  Liveness under fairness cannot be proved here, but what it rests
on can, and is, for the four modules with condition variables.  In each,
`SleepersWillBeWoken` says that whoever sleeps has something to wait for that is
still to come, or that has come and is about to be announced by a thread that
holds on to the announcement; `SomebodyGoesOn` says that as long as there is
something to do, some thread has a step that needs no timeout and no spurious
wake-up.  The second follows from the first: where no thread can go on, nobody
is in a position to announce anything, so what the sleepers wait for is still to
come, and the invariants tell which thread has to bring it about.  The HETERO
request has no condition variable of its own; there `SomebodyGoesOn` says that no
thread, callback and device wait for each other in a circle.

| Module | Lost wake-ups excluded by | Who goes on |
|---|---|---|
| `TaskSynchronizer` | the pop and the notification being under the mutex that a waiter holds when it looks at the front | the owner of `_taskMutex`, or the thread at the front |
| `TaskExecutor` | the status being final before `notify_all`, and the destructor raising `_isStopped` under the mutex of the queue | the worker, a client on its way to push or out of `wait()`, the destructor |
| `MultiWorkerTaskExecutor` | the worker that takes the last task remembering in `isQueueEmpty` that it has to notify when the task has run | a worker, or the owner, which joins only workers that may exit |
| `AsyncInferRequest` | the thread that sets the final status being the one that notifies, after it; a POSTPONED task being run by an executor | an executor, a client, the destructor, which waits only for a task that nobody else waits for |
| `HeteroInferRequest` | (it waits for the tasks of its sub-requests) what a thread waits for having been begun (`BegunOK`) | the callback thread, the one active sub-request, or else the client, whose task is then over |

`AsyncInferRequest` needs four more facts for this (`WakeInv`): `_runMutex` is
held by the executor that runs the task, so who waits for the mutex waits for a
thread that goes on; a POSTPONED task is run by an executor; `_isOnWait` is set
by a thread in `wait()`, so `waitAllAsyncTasks()` finds a task to wait for as
long as the list is not empty; and the task of `Infer()` is BUSY only while
`Infer()` runs.  The last fails when the synchronizer refuses the task, and so
does the theorem: `Forsaken` names who then waits for ever (see the remarks on
the default request).

**MemorySolverProofs** (`SolverAssumption`): `SolverTypeCorrect`,
`SolverSlotsExist`, `SolverNoOverlap`, `SolverBlobHoldsAll`,
`SolverLowestPlace`, `SolverDepthExact`, `SolverStepsForward`,
`SolverNeverStuck`.  The two cursors of the constructor know how many unused
timestamps lie below, so renumbering keeps which boxes meet; a box is compared
with all placed boxes it meets, lifted above each one it hits, and looked at
again until none is hit; and each lift is forced by boxes that leave no gap.

For the depth (`DepthIsExact`), `calcDepth()` keeps the boxes that it holds,
their total size and their number.  `DepthInv` says that the total is the sum
over the boxes held, that those are the boxes seen so far that are alive at the
latest start, and that the maxima are reached and not exceeded by the sums at
the starts seen; between two starts no box begins, so no other time has a
larger sum.  The sum folds a set with a recursive function on its subsets.  Its
laws, that it does not depend on the order and adds up over disjoint sets, are
proved from `WFMin`: a smallest set for which one of them failed would have a
smaller one.

For the end of the loops, `StepsForward`: each step goes to the next loop, takes
a box off those left, picks a box to place, or lifts it, above where it was and
never above the top of all; and `NeverStuck`: before the end there is always a
next box.  Since each of these can happen only finitely often in a row, this is
what `SolveReturns` rests on, without the fairness.

**GNARequestSlotsProofs** (`SlotsAssumption`, hypothesis `Reuses = FALSE`):
`SlotsTypeCorrect`, `RequestsGetOwnResults`, `SlotsArePending`.  A slot knows the
blobs it was given, a request has at most one slot, and the blob of a request is
up to date whenever no slot is taken for it, if its layout is `NC`.  The
remarks above say what other blobs get; the layouts of the other requests do not
matter.

### What is only model-checked

- All liveness, for which the prover has no rule (fairness and `ENABLED`): every
  start, wait and destructor ends, the HETERO flag is lowered, the solver ends,
  and the fairness of `FifoLock` and `TaskQueue`.  What is proved instead: no
  wake-up is lost, no deadlock is reached, the HETERO flag is up only for a
  reason, the solver goes forward, and every step maps to a step or a stutter of
  the two abstract queues.  `SubRequestChain` states no fairness, so its
  refinement is proved whole.
- Nothing is proved of the ways of use outside the hypotheses above.  The
  findings and remarks name those in which a property is known to fail; of the
  others neither the runs nor the proofs say anything.

## Plan

1. Done: synchronizer, task and executor, default request, streams, HETERO
   request, Myriad pool and request, GNA slots, memory solver, and the proofs
   about them listed above.  Every safety property of the passing runs is
   stated by a theorem.
2. More modules: the HETERO splitter, the VPU allocator, the executor manager
   with the networks that share it.
3. More proofs: families of use of the default request and of HETERO beyond
   those above.

## What is not modelled

- HETERO splitter, VPU allocator, executor manager: sequential, planned.
- Graph representation, readers, validators, shape inference, transformations,
  quantisation, kernels and preprocessing: numeric or rewriting code without
  state shared between actors.
- Loading of plugins: I/O.  Samples, tools and tests: clients of the library.
- XLink and mvnc: the driver of the device, seen through the calls that the
  Myriad plugin makes.
- `SetBlob()` of the default request and the calls that only read: they test
  the busy flag and change nothing that the models keep.  HETERO's is modelled.
- Of the streams, the pinning of threads and the graph-less request; of the
  Myriad request, profiling and the copies of blobs; of GNA, a `Reset()` while
  the device runs and a `SetBlob()` between a start and its `Wait()`.

The modules follow the runtime, a few thousand lines.  The repository also
holds bundled third-party code, generated OpenCL headers, numeric kernels and
samples, more than 600,000 lines, for which a state machine would say nothing;
measured against all of that the models cover about a thousandth.
