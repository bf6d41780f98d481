-------------------------- MODULE TaskSynchronizer --------------------------
(***************************************************************************)
(* inference_engine/cpp_interfaces/ie_task_synchronizer.hpp: the ticket    *)
(* lock that lets one request of an executable network run at a time.      *)
(*                                                                         *)
(* lock() draws a ticket under _queueMutex and queues it, or throws when   *)
(* the queue is full, after the ticket number has been consumed; then it   *)
(* sleeps on _taskCondVar, under _taskMutex, until its ticket is at the    *)
(* front.  unlock() pops the front under both mutexes and wakes everybody. *)
(* Its callers are the ScopedSynchronizer blocks of the requests, so a     *)
(* thread unlocks exactly when it has the lock.                            *)
(*                                                                         *)
(* A critical section of _queueMutex is one step.  _taskMutex is explicit: *)
(* unlock() holds it over several steps, between which another thread can  *)
(* push a ticket.  _waitInQueue reads front() under _taskMutex only, so    *)
(* the read races with that push; push never moves the front element, so   *)
(* every outcome of the read is the front.                                 *)
(***************************************************************************)
EXTENDS Integers, Sequences

CONSTANTS
    Threads,            \* the threads that run requests
    MaxTasksInQueue,    \* MAX_NUMBER_OF_TASKS_IN_QUEUE, 10 in the code
    IdModulus,          \* 2^32: _taskCount is an unsigned int
    None                \* "no thread": a free mutex

ASSUME SynchronizerAssumption ==
    /\ MaxTasksInQueue \in Nat \ {0}
    /\ IdModulus \in Nat
    /\ IdModulus > MaxTasksInQueue
    /\ None \notin Threads

VARIABLES
    taskCount,          \* _taskCount, the next ticket
    taskQueue,          \* _taskQueue, the tickets waiting or being served
    taskMutex,          \* the owner of _taskMutex, or None
    pc,                 \* where each thread is in lock() or unlock()
    taskID              \* the local taskID of each thread's lock()

syncVars == <<taskCount, taskQueue, taskMutex, pc, taskID>>

IDs == 0..(IdModulus - 1)

Where == {"outside", "waiting", "asleep", "inside", "popping", "notifying"}

\* The places of a thread whose ticket is in the queue.
TicketHeld == {"waiting", "asleep", "inside", "popping"}

-----------------------------------------------------------------------------
(* lock()                                                                  *)

NextID(id) == (id + 1) % IdModulus

\* MUTANT: the refusal is tested one ticket too late.
FullOffByOne == taskQueue # <<>> /\ Len(taskQueue) > MaxTasksInQueue

\* The exact test of _addTaskToQueue.
QueueIsFull == taskQueue # <<>> /\ Len(taskQueue) >= MaxTasksInQueue

(* BOUND (NoLap): a refused lock() consumes a ticket too, so a caller that *)
(* is refused 2^32 times while one request stays at the front would draw   *)
(* that request's ticket again.  Runs that long are left out; the counter  *)
(* itself wraps any number of times.                                       *)
NoLap == taskQueue # <<>> => taskCount # Head(taskQueue)

Init == /\ taskCount = 0
        /\ taskQueue = <<>>
        /\ taskMutex = None
        /\ pc = [t \in Threads |-> "outside"]
        /\ taskID = [t \in Threads |-> 0]

AddTaskToQueue(t) ==
    /\ pc[t] = "outside"
    /\ NoLap
    /\ ~QueueIsFull
    /\ taskCount' = NextID(taskCount)
    /\ taskQueue' = Append(taskQueue, taskCount)
    /\ taskID' = [taskID EXCEPT ![t] = taskCount]
    /\ pc' = [pc EXCEPT ![t] = "waiting"]
    /\ UNCHANGED taskMutex

\* The exception leaves lock() at once; the ticket number is gone.
AddTaskToQueueThrows(t) ==
    /\ pc[t] = "outside"
    /\ NoLap
    /\ QueueIsFull
    /\ taskCount' = NextID(taskCount)
    /\ UNCHANGED <<taskQueue, taskMutex, pc, taskID>>

\* MUTANT: tickets compared as if the counter could not wrap.
MyTurnOrEarlier(t) == taskID[t] <= Head(taskQueue)

MyTurn(t) == taskID[t] = Head(taskQueue)

\* One evaluation of the predicate of _taskCondVar.wait, under _taskMutex.
WaitInQueue(t) ==
    /\ pc[t] = "waiting"
    /\ taskMutex = None
    /\ pc' = [pc EXCEPT ![t] = IF MyTurn(t) THEN "inside" ELSE "asleep"]
    /\ UNCHANGED <<taskCount, taskQueue, taskMutex, taskID>>

\* A condition variable may wake a sleeper that nobody notified.
SpuriousWakeup(t) ==
    /\ pc[t] = "asleep"
    /\ pc' = [pc EXCEPT ![t] = "waiting"]
    /\ UNCHANGED <<taskCount, taskQueue, taskMutex, taskID>>

-----------------------------------------------------------------------------
(* unlock(), called by the destructor of ScopedSynchronizer                *)

UnlockAcquire(t) ==
    /\ pc[t] = "inside"
    /\ taskMutex = None
    /\ IF taskQueue # <<>>
         THEN /\ taskMutex' = t
              /\ pc' = [pc EXCEPT ![t] = "popping"]
         ELSE /\ pc' = [pc EXCEPT ![t] = "outside"]
              /\ UNCHANGED taskMutex
    /\ UNCHANGED <<taskCount, taskQueue, taskID>>

UnlockPop(t) ==
    /\ pc[t] = "popping"
    /\ taskQueue' = Tail(taskQueue)
    /\ pc' = [pc EXCEPT ![t] = "notifying"]
    /\ UNCHANGED <<taskCount, taskMutex, taskID>>

\* MUTANT: notify_one, which may wake a thread whose turn it is not.
WokenByNotifyOne(t, woken) ==
    IF \E u \in Threads : pc[u] = "asleep"
      THEN \E u \in Threads : pc[u] = "asleep" /\ woken = {u}
      ELSE woken = {}

WokenByNotifyAll(t, woken) == woken = {u \in Threads : pc[u] = "asleep"}

\* notify_all and the release of _taskMutex.
UnlockNotify(t) ==
    /\ pc[t] = "notifying"
    /\ taskMutex' = None
    /\ \E woken \in SUBSET Threads :
         /\ WokenByNotifyAll(t, woken)
         /\ pc' = [u \in Threads |-> IF u = t THEN "outside"
                                     ELSE IF u \in woken THEN "waiting"
                                     ELSE pc[u]]
    /\ UNCHANGED <<taskCount, taskQueue, taskID>>

-----------------------------------------------------------------------------
Proceed(t) == \/ WaitInQueue(t)
              \/ UnlockAcquire(t)
              \/ UnlockPop(t)
              \/ UnlockNotify(t)

Next == \E t \in Threads : \/ AddTaskToQueue(t)
                           \/ AddTaskToQueueThrows(t)
                           \/ SpuriousWakeup(t)
                           \/ Proceed(t)

(* Fairness: a thread that has joined the queue keeps running and takes a *)
(* _taskMutex that stays free, and the work it does inside returns.  No    *)
(* thread has to call lock(), and no mutex has to be fair.                 *)
Fairness == \A t \in Threads : WF_syncVars(Proceed(t))

Spec == Init /\ [][Next]_syncVars /\ Fairness

-----------------------------------------------------------------------------
TypeOK == /\ taskCount \in IDs
          /\ taskQueue \in Seq(IDs)
          /\ taskMutex \in Threads \cup {None}
          /\ pc \in [Threads -> Where]
          /\ taskID \in [Threads -> IDs]

(* Requests run one at a time: two threads are never both between lock()   *)
(* and unlock() (ScopedSynchronizer in Task::runWithSynchronizer), however *)
(* often the ticket counter wraps.                                         *)
MutualExclusion ==
    \A t, u \in Threads :
        pc[t] \in {"inside", "popping"} /\ pc[u] \in {"inside", "popping"} => t = u

(* No ticket leaks and none is lost: the queue holds exactly the tickets   *)
(* of the threads in lock() or unlock(), one each, so front() and pop()    *)
(* are never called on an empty queue and a refusal leaves nothing behind. *)
TicketsBelongToThreads ==
    /\ {taskQueue[i] : i \in 1..Len(taskQueue)} =
          {taskID[t] : t \in {u \in Threads : pc[u] \in TicketHeld}}
    /\ \A t, u \in Threads :
          pc[t] \in TicketHeld /\ pc[u] \in TicketHeld /\ taskID[t] = taskID[u] => t = u
    /\ Len(taskQueue) <= MaxTasksInQueue

(* No wake-up is lost: a thread sleeps on its turn only while the thread   *)
(* that has just popped the previous ticket is about to notify everybody.  *)
SleepersWillBeWoken ==
    \A t \in Threads : pc[t] = "asleep" =>
        taskQueue # <<>> /\ (MyTurn(t) => \E u \in Threads : pc[u] = "notifying")

(* Never does everybody wait for everybody: while a ticket is queued, or   *)
(* _taskMutex is taken, some thread can go on without a spurious wake-up,  *)
(* the owner of the mutex or the thread whose turn it is.                  *)
SomebodyGoesOn ==
    taskQueue # <<>> \/ taskMutex # None =>
        \E t \in Threads :
            \/ pc[t] \in {"popping", "notifying"}
            \/ pc[t] \in {"waiting", "inside"} /\ taskMutex = None /\ MyTurn(t)

(* The lock is a FIFO lock that starves nobody: see FifoLock.              *)
Holder(id) == CHOOSE t \in Threads : pc[t] \in TicketHeld /\ taskID[t] = id

Abstract == INSTANCE FifoLock WITH
    Capacity <- MaxTasksInQueue,
    line     <- [i \in 1..Len(taskQueue) |-> Holder(taskQueue[i])],
    serving  <- \E t \in Threads : pc[t] \in {"inside", "popping"}

ImplementsFifoLock == Abstract!Spec
=============================================================================
