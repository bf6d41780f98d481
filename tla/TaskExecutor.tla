---------------------------- MODULE TaskExecutor ----------------------------
(***************************************************************************)
(* inference_engine/cpp_interfaces/ie_task.cpp and ie_task_executor.cpp:   *)
(* tasks with a status, the executor whose single thread runs them, and    *)
(* the threads that start tasks and wait for them.                         *)
(*                                                                         *)
(* startTask() occupies the task (its status becomes BUSY, or the call     *)
(* returns false) and then queues it.  The worker takes the front of the   *)
(* queue without popping it, runs it, sets its status, wakes the threads   *)
(* in wait(), and only then pops it.  The destructor sleeps on the same    *)
(* condition variable as the worker until the queue is empty, stops the    *)
(* worker and joins it.                                                    *)
(*                                                                         *)
(* One step is a critical section of _queueMutex or of a task's            *)
(* _taskStatusMutex, or one access outside them: `while (!_isStopped)` and *)
(* the final `return _status` of wait() take no mutex.                     *)
(***************************************************************************)
EXTENDS Integers, Sequences, FiniteSets

CONSTANTS
    Tasks,
    Clients,            \* the threads that use the executor
    None                \* no task

ASSUME ExecutorAssumption == None \notin Tasks

VARIABLES
    status,             \* _status of each task
    isOnWait,           \* _isOnWait of each task
    taskQueue,          \* _taskQueue
    isStopped,          \* _isStopped
    worker,             \* where the thread of the executor is
    clientPc,           \* where each client is
    clientTask,         \* the task each client is starting or waiting for
    forever,            \* the client's wait() has no timeout
    dtor                \* where the destructor is

vars == <<status, isOnWait, taskQueue, isStopped, worker, clientPc,
          clientTask, forever, dtor>>

taskVars   == <<status, isOnWait>>
clientVars == <<clientPc, clientTask, forever>>

Statuses  == {"INITIAL", "BUSY", "DONE", "ERROR"}
Finished  == {"DONE", "ERROR"}

WorkerPcs == {"testing", "waiting", "asleep", "running", "notifying", "popping", "exited"}
ClientPcs == {"idle", "pushing", "waiting", "asleep", "returning"}
DtorPcs   == {"none", "waiting", "asleep", "joining", "done"}

Init == /\ status = [k \in Tasks |-> "INITIAL"]
        /\ isOnWait = [k \in Tasks |-> FALSE]
        /\ taskQueue = <<>>
        /\ isStopped = FALSE
        /\ worker = "testing"
        /\ clientPc = [c \in Clients |-> "idle"]
        /\ clientTask = [c \in Clients |-> None]
        /\ forever = [c \in Clients |-> FALSE]
        /\ dtor = "none"

-----------------------------------------------------------------------------
(* TaskExecutor::startTask.  A task that is BUSY is refused: the call      *)
(* returns false and changes nothing.                                      *)

CanOccupy(k) == status[k] # "BUSY"

\* Task::occupy, under _taskStatusMutex.  The caller holds a reference to
\* the executor, so the destructor has not begun.
Occupy(c, k) ==
    /\ clientPc[c] = "idle"
    /\ dtor = "none"
    /\ CanOccupy(k)
    /\ status' = [status EXCEPT ![k] = "BUSY"]
    /\ clientPc' = [clientPc EXCEPT ![c] = "pushing"]
    /\ clientTask' = [clientTask EXCEPT ![c] = k]
    /\ UNCHANGED <<isOnWait, taskQueue, isStopped, worker, forever, dtor>>

\* MUTANT: push at the front.
PushFront(q, k) == <<k>> \o q

PushBack(q, k) == Append(q, k)

\* push and notify_all, under _queueMutex.
Push(c) ==
    /\ clientPc[c] = "pushing"
    /\ taskQueue' = PushBack(taskQueue, clientTask[c])
    /\ worker' = IF worker = "asleep" THEN "waiting" ELSE worker
    /\ clientPc' = [clientPc EXCEPT ![c] = "idle"]
    /\ clientTask' = [clientTask EXCEPT ![c] = None]
    /\ UNCHANGED <<taskVars, isStopped, forever, dtor>>

-----------------------------------------------------------------------------
(* Task::wait                                                              *)

WaitBegin(c, k, noTimeout) ==
    /\ clientPc[c] = "idle"
    /\ isOnWait' = [isOnWait EXCEPT ![k] = TRUE]
    /\ clientPc' = [clientPc EXCEPT ![c] = "waiting"]
    /\ clientTask' = [clientTask EXCEPT ![c] = k]
    /\ forever' = [forever EXCEPT ![c] = noTimeout]
    /\ UNCHANGED <<status, taskQueue, isStopped, worker, dtor>>

\* The test of TS_INITIAL and the predicate of _isTaskDoneCondVar.
WaitTest(c) ==
    /\ clientPc[c] = "waiting"
    /\ clientPc' = [clientPc EXCEPT ![c] =
                      IF status[clientTask[c]] = "BUSY" THEN "asleep" ELSE "returning"]
    /\ UNCHANGED <<taskVars, taskQueue, isStopped, worker, clientTask, forever, dtor>>

\* A timeout elapses, or the condition variable wakes the client for nothing.
WaitInterrupted(c) ==
    /\ clientPc[c] = "asleep"
    /\ clientPc' = [clientPc EXCEPT ![c] = IF forever[c] THEN "waiting" ELSE "returning"]
    /\ UNCHANGED <<taskVars, taskQueue, isStopped, worker, clientTask, forever, dtor>>

\* The status that wait() returns is read again, with no mutex: another client
\* may have made it BUSY.
WaitReturn(c) ==
    /\ clientPc[c] = "returning"
    /\ isOnWait' = [isOnWait EXCEPT ![clientTask[c]] = FALSE]
    /\ clientPc' = [clientPc EXCEPT ![c] = "idle"]
    /\ clientTask' = [clientTask EXCEPT ![c] = None]
    /\ UNCHANGED <<status, taskQueue, isStopped, worker, forever, dtor>>

-----------------------------------------------------------------------------
(* The thread of the executor                                              *)

\* `while (!_isStopped)`, with no mutex.
WorkerTest ==
    /\ worker = "testing"
    /\ worker' = IF isStopped THEN "exited" ELSE "waiting"
    /\ UNCHANGED <<taskVars, taskQueue, isStopped, clientVars, dtor>>

\* The predicate of _queueCondVar.wait; the front is taken, not popped.  The
\* queue can only be empty here when the executor is stopped, and it then
\* stays empty and stopped, so the `break` is part of the same step.
WorkerTake ==
    /\ worker = "waiting"
    /\ worker' = IF taskQueue # <<>> THEN "running"
                 ELSE IF isStopped THEN "exited" ELSE "asleep"
    /\ UNCHANGED <<taskVars, taskQueue, isStopped, clientVars, dtor>>

\* Task::runNoThrowNoBusyCheck: the function returns or throws.
WorkerRun ==
    /\ worker = "running"
    /\ \E outcome \in Finished :
          status' = [status EXCEPT ![Head(taskQueue)] = outcome]
    /\ worker' = "notifying"
    /\ UNCHANGED <<isOnWait, taskQueue, isStopped, clientVars, dtor>>

\* MUTANT: nobody is notified that the task is done.
WokenByNothing(k) == {}

\* _isTaskDoneCondVar.notify_all
WokenWaiters(k) == {c \in Clients : clientPc[c] = "asleep" /\ clientTask[c] = k}

WorkerNotify ==
    /\ worker = "notifying"
    /\ clientPc' = [c \in Clients |-> IF c \in WokenWaiters(Head(taskQueue)) THEN "waiting"
                                      ELSE clientPc[c]]
    /\ worker' = "popping"
    /\ UNCHANGED <<taskVars, taskQueue, isStopped, clientTask, forever, dtor>>

\* MUTANT: the worker does not tell the destructor that the queue is empty.
DtorNotWoken(q) == dtor

\* notify_all by the worker when it has emptied the queue.
DtorWoken(q) == IF q = <<>> /\ dtor = "asleep" THEN "waiting" ELSE dtor

WorkerPop ==
    /\ worker = "popping"
    /\ taskQueue' = Tail(taskQueue)
    /\ dtor' = DtorWoken(Tail(taskQueue))
    /\ worker' = "testing"
    /\ UNCHANGED <<taskVars, isStopped, clientVars>>

-----------------------------------------------------------------------------
(* TaskExecutor::~TaskExecutor, by the thread that drops the last          *)
(* reference: nobody is in startTask() any more, or will be.               *)

DtorBegin ==
    /\ dtor = "none"
    /\ \A c \in Clients : clientPc[c] # "pushing"
    /\ dtor' = "waiting"
    /\ UNCHANGED <<taskVars, taskQueue, isStopped, worker, clientVars>>

DtorMayStop == taskQueue = <<>>

\* The predicate, then _isStopped and notify_all, all under _queueMutex.
DtorStop ==
    /\ dtor = "waiting"
    /\ IF DtorMayStop
         THEN /\ isStopped' = TRUE
              /\ worker' = IF worker = "asleep" THEN "waiting" ELSE worker
              /\ dtor' = "joining"
         ELSE /\ dtor' = "asleep"
              /\ UNCHANGED <<isStopped, worker>>
    /\ UNCHANGED <<taskVars, taskQueue, clientVars>>

DtorJoin ==
    /\ dtor = "joining"
    /\ worker = "exited"
    /\ dtor' = "done"
    /\ UNCHANGED <<taskVars, taskQueue, isStopped, worker, clientVars>>

\* The condition variable may wake the worker or the destructor for nothing.
SpuriousWakeup ==
    \/ /\ worker = "asleep"
       /\ worker' = "waiting"
       /\ UNCHANGED <<taskVars, taskQueue, isStopped, clientVars, dtor>>
    \/ /\ dtor = "asleep"
       /\ dtor' = "waiting"
       /\ UNCHANGED <<taskVars, taskQueue, isStopped, worker, clientVars>>

-----------------------------------------------------------------------------
WorkerStep == WorkerTest \/ WorkerTake \/ WorkerRun \/ WorkerNotify \/ WorkerPop
DtorStep   == DtorStop \/ DtorJoin
WaitStep(c) == WaitTest(c) \/ WaitReturn(c)

Next == \/ WorkerStep
        \/ DtorBegin
        \/ DtorStep
        \/ SpuriousWakeup
        \/ \E c \in Clients :
             \/ Push(c)
             \/ WaitStep(c)
             \/ WaitInterrupted(c)
             \/ \E k \in Tasks : Occupy(c, k) \/ \E f \in BOOLEAN : WaitBegin(c, k, f)

(* Fairness: the worker thread, a started destructor and a client inside a *)
(* call keep running, and a task's function returns.  Nobody has to start  *)
(* a task, to wait for one or to destroy the executor; no timeout has to   *)
(* elapse.                                                                 *)
Fairness == /\ WF_vars(WorkerStep)
            /\ WF_vars(DtorStep)
            /\ \A c \in Clients : WF_vars(Push(c)) /\ WF_vars(WaitStep(c))

Spec == Init /\ [][Next]_vars /\ Fairness

-----------------------------------------------------------------------------
TypeOK == /\ status \in [Tasks -> Statuses]
          /\ isOnWait \in [Tasks -> BOOLEAN]
          /\ taskQueue \in Seq(Tasks)
          /\ isStopped \in BOOLEAN
          /\ worker \in WorkerPcs
          /\ clientPc \in [Clients -> ClientPcs]
          /\ clientTask \in [Clients -> Tasks \cup {None}]
          /\ forever \in [Clients -> BOOLEAN]
          /\ dtor \in DtorPcs

\* The tasks accepted and not run yet: the front of the queue stays there
\* from the moment its status is set to the moment it is popped.
Executed == worker \in {"notifying", "popping"}
Unfinished == IF Executed THEN Tail(taskQueue) ELSE taskQueue

(* The status BUSY, on which startTask() relies to refuse a task, means    *)
(* exactly that one accepted start of the task is on its way: one client   *)
(* between occupy() and push(), or one place in the queue that is not run. *)
BusyMeansOneStartPending ==
    \A k \in Tasks :
        Cardinality({c \in Clients : clientPc[c] = "pushing" /\ clientTask[c] = k})
          + Cardinality({i \in 1..Len(Unfinished) : Unfinished[i] = k})
        = IF status[k] = "BUSY" THEN 1 ELSE 0

(* The destructor (executorNotReleasedUntilTasksAreDone) returns only when *)
(* every task that was started has been run, with its status final, and    *)
(* the thread that would run it has gone.                                  *)
NothingLostAtDestruction ==
    dtor \in {"joining", "done"} =>
        /\ taskQueue = <<>>
        /\ \A k \in Tasks : status[k] # "BUSY"
        /\ dtor = "done" => worker = "exited"

(* No wake-up is lost: the worker sleeps only while there is nothing to    *)
(* do, the destructor only while the worker still has tasks, and a client  *)
(* only while its task is on its way or about to be announced.             *)
SleepersWillBeWoken ==
    /\ worker = "asleep" => taskQueue = <<>> /\ ~isStopped
    /\ dtor = "asleep" => taskQueue # <<>>
    /\ \A c \in Clients : clientPc[c] = "asleep" =>
          \/ status[clientTask[c]] = "BUSY"
          \/ worker = "notifying" /\ clientTask[c] = Head(taskQueue)

(* Never does everybody wait for everybody: as long as a client is in a    *)
(* call, the destructor has begun, or a task is queued, some thread can go *)
(* on without a timeout or a spurious wake-up.                             *)
SomebodyGoesOn ==
    \/ \E c \in Clients : clientPc[c] # "idle"
    \/ dtor \in {"waiting", "asleep", "joining"}
    \/ taskQueue # <<>>
    =>
    \/ worker \notin {"asleep", "exited"}
    \/ \E c \in Clients : clientPc[c] \in {"pushing", "waiting", "returning"}
    \/ dtor = "waiting"
    \/ dtor = "joining" /\ worker = "exited"

(* The executor is a FIFO queue of tasks that runs each accepted start     *)
(* once: see TaskQueue.                                                    *)
Abstract == INSTANCE TaskQueue WITH
    todo   <- IF worker = "running" THEN Tail(taskQueue) ELSE Unfinished,
    active <- IF worker = "running" THEN {Head(taskQueue)} ELSE {},
    MaxActive <- 1,
    closed <- dtor = "done"

ImplementsTaskQueue == Abstract!Spec

(* The destructor never hangs: worker and destructor share one condition   *)
(* variable and neither loses the wake-up meant for the other.             *)
DestructorReturns == (dtor = "waiting") ~> (dtor = "done")

Restarts(k) == \E c \in Clients : Occupy(c, k)

(* A wait() without timeout returns, unless the task is started again for  *)
(* ever: notify_all comes after the status and is not missed by a client   *)
(* that tests and sleeps, but one that is woken may find each time that    *)
(* another client has made the task BUSY before it could test it.          *)
WaitReturns ==
    \A k \in Tasks :
        \/ []<><<Restarts(k)>>_vars
        \/ \A c \in Clients :
              (clientPc[c] = "waiting" /\ clientTask[c] = k) ~> (clientPc[c] = "idle")
=============================================================================
