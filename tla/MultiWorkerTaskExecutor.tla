----------------------- MODULE MultiWorkerTaskExecutor -----------------------
(***************************************************************************)
(* mkldnn_plugin/mkldnn_streams.cpp and its twin of the GPU plugin,        *)
(* cldnn_engine/cldnn_streams_task_executor.cpp: the executor of a network *)
(* with several streams.  Each worker thread first runs an initialization  *)
(* task that loads its copy of the graph, then takes tasks from one queue. *)
(*                                                                         *)
(* All threads sleep on one condition variable: the workers until there is *)
(* a task or a stop, the destructor until the queue is empty.  startTask() *)
(* notifies one thread.  A worker pops its task before it runs it, and     *)
(* remembers in isQueueEmpty that it took the last one, to tell the        *)
(* destructor after the run, when that may no longer be true.              *)
(*                                                                         *)
(* One step is a critical section of _queueMutex, a change of a task's     *)
(* status, or an access to an atomic outside the mutex.                    *)
(*                                                                         *)
(* waitingCounter is a static member: every executor of the GPU plugin in  *)
(* the process changes it.  One executor is modelled in full; the others   *)
(* appear as raises and lowerings of the counter at any moment.            *)
(***************************************************************************)
EXTENDS Integers, Sequences, FiniteSets

CONSTANTS
    Tasks,
    Clients,            \* the threads that start tasks
    Workers,            \* the threads of the executor, one for each stream
    Owner,              \* the thread that creates and destroys the executor
    MaxStarts,          \* BOUND: startTask() calls in one behaviour
    MaxElsewhere,       \* BOUND: tasks that wait in the other GPU executors
    CounterModulus,     \* BOUND: 2^32 in the code, the width of waitingCounter
    None                \* no task

ASSUME StreamsAssumption ==
    /\ None \notin Tasks
    /\ Owner \notin Workers
    /\ IsFiniteSet(Workers) /\ Workers # {}
    /\ IsFiniteSet(Clients)
    /\ MaxStarts \in Nat
    /\ MaxElsewhere \in Nat
    /\ CounterModulus \in Nat /\ CounterModulus > MaxStarts + MaxElsewhere

Threads == Workers \cup {Owner}

VARIABLES
    status,             \* _status of each task
    taskQueue,          \* _taskQueue
    isStopped,          \* _isStopped
    initCount,          \* _initCount
    waitingCounter,     \* waitingCounter (GPU), static
    elsewhere,          \* raised by other GPU executors and not lowered yet
    graph,              \* ptrContext.ptrGraph of each worker, a thread_local
    currentTask,        \* currentTask of each worker
    isQueueEmpty,       \* isQueueEmpty of each worker
    pc,                 \* where each worker and the owner are
    startingTask,       \* the task each client has occupied and not pushed
    starts              \* startTask() calls so far, against MaxStarts

vars == <<status, taskQueue, isStopped, initCount, waitingCounter, elsewhere,
          graph, currentTask, isQueueEmpty, pc, startingTask, starts>>

localVars  == <<graph, currentTask, isQueueEmpty>>
clientVars == <<startingTask, starts, elsewhere>>  \* what callers outside change

Statuses == {"INITIAL", "BUSY", "DONE", "ERROR"}
Finished == {"DONE", "ERROR"}

WorkerPcs == {"initialising", "counting", "testing", "waiting", "asleep",
              "taken", "running", "ended", "notifying", "exited"}
OwnerPcs  == {"constructing", "loaded", "waiting", "asleep", "joining", "done"}

Init == /\ status = [k \in Tasks |-> "INITIAL"]
        /\ taskQueue = <<>>
        /\ isStopped = FALSE
        /\ initCount = 0
        /\ waitingCounter = 0
        /\ elsewhere = 0
        /\ graph = [w \in Workers |-> "none"]
        /\ currentTask = [w \in Workers |-> None]
        /\ isQueueEmpty = [w \in Workers |-> FALSE]
        /\ pc = [t \in Threads |-> IF t = Owner THEN "constructing" ELSE "initialising"]
        /\ startingTask = [c \in Clients |-> None]
        /\ starts = 0

-----------------------------------------------------------------------------
(* The condition variable.  A notification is the choice of a set of       *)
(* sleeping threads, which will test their predicates again.               *)

Sleepers == {t \in Threads : pc[t] = "asleep"}

Awake(p, woken) == [t \in Threads |-> IF t \in woken THEN "waiting" ELSE p[t]]

NotifyAll(sleeping) == {sleeping}
NotifyOne(sleeping) == IF sleeping = {} THEN {{}} ELSE {{t} : t \in sleeping}

-----------------------------------------------------------------------------
(* The constructor, and the check of the initialization tasks by the       *)
(* network that creates the executor.                                      *)

\* A worker runs its initialization task, which loads its graph or throws.
Initialise(w) ==
    /\ pc[w] = "initialising"
    /\ \E result \in {"loaded", "failed"} : graph' = [graph EXCEPT ![w] = result]
    /\ pc' = [pc EXCEPT ![w] = "counting"]
    /\ UNCHANGED <<status, taskQueue, isStopped, initCount, waitingCounter,
                   currentTask, isQueueEmpty, clientVars>>

CountInitialised(w) ==
    /\ pc[w] = "counting"
    /\ initCount' = initCount + 1
    /\ pc' = [pc EXCEPT ![w] = "testing"]
    /\ UNCHANGED <<status, taskQueue, isStopped, waitingCounter, localVars, clientVars>>

\* MUTANT: the constructor returns when the first worker is ready.
FirstInitialised == initCount > 0

AllInitialised == initCount = Cardinality(Workers)

\* The spin on _initCount ends.  When an initialization task has failed,
\* checkException() throws and the executor is destroyed at once.
ConstructorReturns ==
    /\ pc[Owner] = "constructing"
    /\ AllInitialised
    /\ pc' = [pc EXCEPT ![Owner] =
                IF \E w \in Workers : graph[w] = "failed" THEN "waiting" ELSE "loaded"]
    /\ UNCHANGED <<status, taskQueue, isStopped, initCount, waitingCounter,
                   localVars, clientVars>>

-----------------------------------------------------------------------------
(* startTask                                                               *)

\* Task::occupy.  The client holds a reference to the executor, which is
\* constructed and not being destroyed.
Occupy(c, k) ==
    /\ startingTask[c] = None
    /\ pc[Owner] = "loaded"
    /\ starts < MaxStarts
    /\ status[k] # "BUSY"
    /\ status' = [status EXCEPT ![k] = "BUSY"]
    /\ startingTask' = [startingTask EXCEPT ![c] = k]
    /\ starts' = starts + 1
    /\ UNCHANGED <<taskQueue, isStopped, initCount, waitingCounter, elsewhere,
                   localVars, pc>>

\* MUTANT: push at the front.
PushFront(q, k) == <<k>> \o q

PushBack(q, k) == Append(q, k)

\* MUTANT: the task is queued and not counted.
NotRaised(n) == n

Raised(n)  == IF n = CounterModulus - 1 THEN 0 ELSE n + 1
Lowered(n) == IF n = 0 THEN CounterModulus - 1 ELSE n - 1

\* MUTANT: a notification only when the queue was empty.
WokenByFirstPush(sleeping) == IF taskQueue = <<>> THEN NotifyOne(sleeping) ELSE {{}}

WokenByPush(sleeping) == NotifyOne(sleeping)

Push(c) ==
    /\ startingTask[c] # None
    /\ taskQueue' = PushBack(taskQueue, startingTask[c])
    /\ waitingCounter' = Raised(waitingCounter)
    /\ \E woken \in WokenByPush(Sleepers) : pc' = Awake(pc, woken)
    /\ startingTask' = [startingTask EXCEPT ![c] = None]
    /\ UNCHANGED <<status, isStopped, initCount, elsewhere, localVars, starts>>

-----------------------------------------------------------------------------
(* A worker                                                                *)

\* `while (!_isStopped)`, with no mutex.
WorkerTest(w) ==
    /\ pc[w] = "testing"
    /\ pc' = [pc EXCEPT ![w] = IF isStopped THEN "exited" ELSE "waiting"]
    /\ UNCHANGED <<status, taskQueue, isStopped, initCount, waitingCounter,
                   localVars, clientVars>>

FrontPopped(q) == Tail(q)

WorkerTake(w) ==
    /\ pc[w] = "waiting"
    /\ taskQueue # <<>>
    /\ currentTask' = [currentTask EXCEPT ![w] = Head(taskQueue)]
    /\ taskQueue' = FrontPopped(taskQueue)
    /\ isQueueEmpty' = [isQueueEmpty EXCEPT ![w] = taskQueue' = <<>>]
    /\ pc' = [pc EXCEPT ![w] = "taken"]
    /\ UNCHANGED <<status, isStopped, initCount, waitingCounter, graph, clientVars>>

\* There is no task: the worker sleeps, or it has been stopped, and the
\* `break` follows.
WorkerSleep(w) ==
    /\ pc[w] = "waiting"
    /\ taskQueue = <<>>
    /\ pc' = [pc EXCEPT ![w] = IF isStopped THEN "exited" ELSE "asleep"]
    /\ UNCHANGED <<status, taskQueue, isStopped, initCount, waitingCounter,
                   localVars, clientVars>>

WorkerBegin(w) ==
    /\ pc[w] = "taken"
    /\ waitingCounter' = Lowered(waitingCounter)
    /\ pc' = [pc EXCEPT ![w] = "running"]
    /\ UNCHANGED <<status, taskQueue, isStopped, initCount, localVars, clientVars>>

\* The task's function returns or throws, and the status is final.
WorkerRun(w) ==
    /\ pc[w] = "running"
    /\ \E outcome \in Finished : status' = [status EXCEPT ![currentTask[w]] = outcome]
    /\ currentTask' = [currentTask EXCEPT ![w] = None]
    /\ pc' = [pc EXCEPT ![w] = "ended"]
    /\ UNCHANGED <<taskQueue, isStopped, initCount, waitingCounter, graph,
                   isQueueEmpty, clientVars>>

WorkerEnds(w) ==
    /\ pc[w] = "ended"
    /\ pc' = [pc EXCEPT ![w] = IF isStopped THEN "exited"
                               ELSE IF isQueueEmpty[w] THEN "notifying" ELSE "testing"]
    /\ isQueueEmpty' = [isQueueEmpty EXCEPT ![w] = FALSE]
    /\ UNCHANGED <<status, taskQueue, isStopped, initCount, waitingCounter, graph,
                   currentTask, clientVars>>

\* MUTANT: notify_one, which can wake a worker in place of the destructor.
WokenOneAfterLast(sleeping) == NotifyOne(sleeping)

WokenAfterLast(sleeping) == NotifyAll(sleeping)

WorkerNotify(w) ==
    /\ pc[w] = "notifying"
    /\ \E woken \in WokenAfterLast(Sleepers) :
          pc' = [Awake(pc, woken) EXCEPT ![w] = "testing"]
    /\ UNCHANGED <<status, taskQueue, isStopped, initCount, waitingCounter,
                   localVars, clientVars>>

-----------------------------------------------------------------------------
(* ~MultiWorkerTaskExecutor, by the thread that drops the last reference:  *)
(* nobody is in startTask() any more, or will be.                          *)

DtorBegin ==
    /\ pc[Owner] = "loaded"
    /\ \A c \in Clients : startingTask[c] = None
    /\ pc' = [pc EXCEPT ![Owner] = "waiting"]
    /\ UNCHANGED <<status, taskQueue, isStopped, initCount, waitingCounter,
                   localVars, clientVars>>

DtorMayStop == taskQueue = <<>>

DtorStop ==
    /\ pc[Owner] = "waiting"
    /\ DtorMayStop
    /\ isStopped' = TRUE
    /\ \E woken \in NotifyAll(Sleepers) :
          pc' = [Awake(pc, woken) EXCEPT ![Owner] = "joining"]
    /\ UNCHANGED <<status, taskQueue, initCount, waitingCounter, localVars, clientVars>>

DtorSleep ==
    /\ pc[Owner] = "waiting"
    /\ ~DtorMayStop
    /\ pc' = [pc EXCEPT ![Owner] = "asleep"]
    /\ UNCHANGED <<status, taskQueue, isStopped, initCount, waitingCounter,
                   localVars, clientVars>>

DtorJoin ==
    /\ pc[Owner] = "joining"
    /\ \A w \in Workers : pc[w] = "exited"
    /\ pc' = [pc EXCEPT ![Owner] = "done"]
    /\ UNCHANGED <<status, taskQueue, isStopped, initCount, waitingCounter,
                   localVars, clientVars>>

\* The condition variable may wake a thread for nothing.
SpuriousWakeup(t) ==
    /\ pc[t] = "asleep"
    /\ pc' = [pc EXCEPT ![t] = "waiting"]
    /\ UNCHANGED <<status, taskQueue, isStopped, initCount, waitingCounter,
                   localVars, clientVars>>

-----------------------------------------------------------------------------
(* The executors of the other networks on the GPU: a startTask() of one of *)
(* them, and one of their workers that begins a task it has taken.  They   *)
(* touch nothing of this executor but the static counter.                  *)

othersVars == <<status, taskQueue, isStopped, initCount, localVars, pc, startingTask, starts>>

OthersPush ==
    /\ elsewhere < MaxElsewhere
    /\ elsewhere' = elsewhere + 1
    /\ waitingCounter' = Raised(waitingCounter)
    /\ UNCHANGED othersVars

OthersBegin ==
    /\ elsewhere > 0
    /\ elsewhere' = elsewhere - 1
    /\ waitingCounter' = Lowered(waitingCounter)
    /\ UNCHANGED othersVars

-----------------------------------------------------------------------------
WorkerStep(w) == \/ Initialise(w) \/ CountInitialised(w)
                 \/ WorkerTest(w) \/ WorkerTake(w) \/ WorkerSleep(w)
                 \/ WorkerBegin(w) \/ WorkerRun(w) \/ WorkerEnds(w) \/ WorkerNotify(w)

OwnerStep == ConstructorReturns \/ DtorStop \/ DtorSleep \/ DtorJoin

Next == \/ \E w \in Workers : WorkerStep(w)
        \/ OwnerStep
        \/ DtorBegin
        \/ \E t \in Threads : SpuriousWakeup(t)
        \/ OthersPush
        \/ OthersBegin
        \/ \E c \in Clients : Push(c) \/ \E k \in Tasks : Occupy(c, k)

(* Fairness: each worker, the constructor, a destructor that has begun and *)
(* a client inside startTask() keep running, and a task's function         *)
(* returns.  Nobody has to start a task or to destroy the executor, and    *)
(* nobody is woken but by a notification.                                  *)
Fairness == /\ \A w \in Workers : WF_vars(WorkerStep(w))
            /\ WF_vars(OwnerStep)
            /\ \A c \in Clients : WF_vars(Push(c))

Spec == Init /\ [][Next]_vars /\ Fairness

-----------------------------------------------------------------------------
TypeOK == /\ status \in [Tasks -> Statuses]
          /\ taskQueue \in Seq(Tasks)
          /\ isStopped \in BOOLEAN
          /\ initCount \in 0..Cardinality(Workers)
          /\ waitingCounter \in 0..CounterModulus - 1
          /\ elsewhere \in 0..MaxElsewhere
          /\ graph \in [Workers -> {"none", "loaded", "failed"}]
          /\ currentTask \in [Workers -> Tasks \cup {None}]
          /\ isQueueEmpty \in [Workers -> BOOLEAN]
          /\ pc \in [Threads -> WorkerPcs \cup OwnerPcs]
          /\ startingTask \in [Clients -> Tasks \cup {None}]
          /\ starts \in 0..MaxStarts

Holding == {w \in Workers : pc[w] \in {"taken", "running"}}

(* A task never runs on a worker whose graph is missing or failed to load, *)
(* though the graph is a thread_local that only the worker itself sets:    *)
(* the spin on _initCount and the check of the initialization tasks must   *)
(* come before the first start.                                            *)
TasksRunOnLoadedGraphs == \A w \in Holding : graph[w] = "loaded"

(* BUSY means exactly one accepted start on its way: one client between    *)
(* occupy() and push(), one place in the queue, or one worker.  So no two  *)
(* streams ever run the same task.                                         *)
BusyMeansOneStartPending ==
    \A k \in Tasks :
        Cardinality({c \in Clients : startingTask[c] = k})
          + Cardinality({i \in 1..Len(taskQueue) : taskQueue[i] = k})
          + Cardinality({w \in Workers : currentTask[w] = k})
        = IF status[k] = "BUSY" THEN 1 ELSE 0

(* No stream sleeps while a task waits that nobody is about to take: as    *)
(* long as a worker is asleep there is an awake worker, on its way to the  *)
(* queue, for each task in it.  This is what notify_one has to ensure      *)
(* while wake-ups are consumed by workers that find the queue empty.       *)
SleepingWorkersNotNeeded ==
    (\E w \in Workers : pc[w] = "asleep")
        => Len(taskQueue) <= Cardinality({w \in Workers : pc[w] = "waiting"})

(* No wake-up is lost: the destructor sleeps only while there are tasks,   *)
(* or a worker that took the last one and has yet to announce it, and no   *)
(* worker sleeps through a stop.                                           *)
WillAnnounce(w) == \/ pc[w] \in {"taken", "running", "ended"} /\ isQueueEmpty[w]
                   \/ pc[w] = "notifying"

SleepersWillBeWoken ==
    /\ pc[Owner] = "asleep" => taskQueue # <<>> \/ \E w \in Workers : WillAnnounce(w)
    /\ isStopped => \A w \in Workers : pc[w] # "asleep"

(* Never does everybody wait for everybody: while the executor is being    *)
(* created or destroyed, or a task is queued, some thread of the executor  *)
(* or its owner can go on without a spurious wake-up.                      *)
SomebodyGoesOn ==
    \/ pc[Owner] \notin {"loaded", "done"}
    \/ taskQueue # <<>>
    =>
    \/ \E w \in Workers : pc[w] \notin {"asleep", "exited"}
    \/ pc[Owner] = "constructing" /\ AllInitialised
    \/ pc[Owner] = "waiting"
    \/ pc[Owner] = "joining" /\ \A w \in Workers : pc[w] = "exited"

(* The GPU's count of waiting tasks, which the plugin reports as the       *)
(* metric NUMBER_OF_WAITING_INFER_REQUESTS.  It is one counter for all     *)
(* executors of the process, raised under the mutex of each but lowered by *)
(* a worker that has left it: it is the tasks in this queue, the workers   *)
(* about to lower it, and what the other executors have raised, so nobody  *)
(* lowers it below zero and a task is never missing from it.               *)
WaitingCounterIsExact ==
    waitingCounter = Len(taskQueue) + Cardinality({w \in Workers : pc[w] = "taken"}) + elsewhere

(* When the destructor has stopped the workers every accepted task is with *)
(* a worker, and when it returns all of them have been run to the end.     *)
NothingLostAtDestruction ==
    /\ pc[Owner] \in {"joining", "done"} => taskQueue = <<>>
    /\ pc[Owner] = "done" => \A k \in Tasks : status[k] # "BUSY"

(* Tasks begin in the order of acceptance, at most one on each worker, and *)
(* each accepted start is run once: see TaskQueue.                         *)
Abstract == INSTANCE TaskQueue WITH
    MaxActive <- Cardinality(Workers),
    todo      <- taskQueue,
    active    <- {currentTask[w] : w \in Holding},
    closed    <- pc[Owner] = "done"

ImplementsTaskQueue == Abstract!Spec

(* The destructor never hangs: the worker that took the last task wakes it *)
(* although it shares the condition variable with the sleeping workers,    *)
(* and every worker sees the stop.                                         *)
DestructorReturns == (pc[Owner] = "waiting") ~> (pc[Owner] = "done")
=============================================================================
