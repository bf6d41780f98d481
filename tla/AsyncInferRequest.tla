------------------------- MODULE AsyncInferRequest --------------------------
(***************************************************************************)
(* One infer request of the default asynchronous runtime:                  *)
(*   cpp_interfaces/impl/ie_infer_async_request_thread_safe_internal.hpp   *)
(*   cpp_interfaces/impl/ie_infer_async_request_thread_safe_default.hpp    *)
(*   cpp_interfaces/ie_task.cpp, ie_task_with_stages.cpp                   *)
(*   {mkldnn_plugin,cldnn_engine}/*_async_infer_request.cpp                *)
(*                                                                         *)
(* StartAsync() raises the busy flag and gives the executor of the network *)
(* a two-stage task.  Stage 2 infers, then queues the same task again on   *)
(* the callback executor; stage 1 lowers the busy flag and calls the       *)
(* user's callback, which may start the request again.  With no callback   *)
(* it is Wait() that lowers the flag.  A request keeps its tasks in a list *)
(* and uses one again when its status is final.                            *)
(*                                                                         *)
(* The two executors are FIFO queues with one thread each (the contract    *)
(* TaskExecutor is shown to implement).  A step is one critical section or *)
(* one access to unprotected state; _currentTask, _asyncTask, _stage,      *)
(* _isOnWait and the callback manager have no lock.  A racing read of a    *)
(* shared_ptr returns the old or the new task.                             *)
(***************************************************************************)
EXTENDS Integers, Sequences, FiniteSets

CONSTANTS
    Clients,      \* the threads that use the request
    UsageChoices, \* the ways the request may be used, sets of Usages
    MaxTasks,     \* BOUND: tasks the request creates
    MaxStarts,    \* BOUND: inferences that are accepted
    Nil           \* no task

\* "callback"   a completion callback is set before the first start
\* "restart"    the callback starts the request again
\* "fail"       an inference may throw
\* "timed"      Wait() may be given a timeout
\* "impatient"  a client starts again before it knows of the completion
\* "wait"       a client calls Wait() although there is a callback
\* "sync"       a client calls the default Infer()
\* "full"       the synchronizer may refuse the sync task
\* "plugin"     a client calls the Infer() of the CPU and GPU plugins
\* "shared"     all clients use the request, not one alone
Usages == {"callback", "restart", "fail", "timed", "impatient", "wait", "sync",
           "full", "plugin", "shared"}

Executors == {"request", "callback"}

ASSUME RequestAssumption ==
    /\ UsageChoices \subseteq SUBSET Usages
    /\ MaxTasks \in Nat \ {0}
    /\ MaxStarts \in Nat
    /\ Clients # {} /\ Clients \cap Executors = {}
    /\ Nil \notin 0..MaxTasks /\ Nil \notin Executors

Stages  == 2                    \* _stages: infer, then call the callback
Slots   == 1..MaxTasks          \* the staged tasks, in the order of creation
Sync    == 0                    \* _syncTask
Tasks   == Slots \cup {Sync}
Threads == Clients \cup Executors
Final   == {"DONE", "ERROR"}

VARIABLES
    usage,     \* the way the request is used in this behaviour
    request,   \* _isRequestBusy, _asyncTask, _currentTask, _listAsyncTasks
    tasks,     \* _status, _stage, _exceptionPtr is set, _isOnWait of each task,
               \* and the executor that holds its _runMutex
    manager,   \* the CallbackManager: _enabled, _requestStatus,
               \* _requestException is set
    queue,     \* the queues of the two executors
    thread,    \* where each thread is, and its locals: the task it runs or
               \* waits for, asyncTaskCopy, "Wait() has a timeout", "in the
               \* plugins' Infer()", what its last Wait() reported
    history    \* for the properties and the patience of clients: the starts
               \* accepted, those due to call the callback, inferences made,
               \* the outcome of the last one, callbacks called, a client
               \* has waited for the last accepted start

vars == <<usage, request, tasks, manager, queue, thread, history>>

Init ==
    /\ usage \in UsageChoices
    /\ request = [busy |-> FALSE, async |-> Nil, current |-> Sync, list |-> {}]
    /\ tasks = [k \in Tasks |-> [status |-> "INITIAL", stage |-> Stages,
                                 failed |-> FALSE, onWait |-> FALSE, runner |-> Nil]]
    /\ manager = [enabled |-> "callback" \in usage, status |-> "OK", failed |-> FALSE]
    /\ queue = [e \in Executors |-> <<>>]
    /\ thread = [p \in Threads |-> [at |-> "idle", task |-> Nil, copy |-> Nil,
                                    timed |-> FALSE, inInfer |-> FALSE, told |-> Nil]]
    /\ history = [accepted |-> 0, due |-> 0, inferred |-> 0, outcome |-> "OK",
                  called |-> 0, waited |-> TRUE]

\* _enabled && _callback != nullptr
IsCallbackEnabled == manager.enabled /\ "callback" \in usage

SetIsRequestBusy(isBusy) == request' = [request EXCEPT !.busy = isBusy]

At(p, place) == thread[p].at = place

GoTo(p, place) == thread' = [thread EXCEPT ![p].at = place]

Move(p, from, to) == At(p, from) /\ GoTo(p, to)

\* The clients of this behaviour: all of them, or one.
Users == IF "shared" \in usage THEN Clients ELSE {CHOOSE c \in Clients : TRUE}

\* The destructor of the request has not begun.
Alive == \A c \in Clients :
            thread[c].at \notin {"sweeping", "awaiting", "drowsing", "gone"}

\* A patient client starts again when its Wait() has returned or, if it does
\* not call Wait(), when the callback was called.
Patient == IF IsCallbackEnabled /\ "wait" \notin usage
             THEN history.called = history.due
             ELSE history.waited

MayStart(p) ==
    /\ history.accepted < MaxStarts
    /\ Alive
    /\ \/ p \in Users /\ At(p, "idle") /\ ("impatient" \in usage \/ Patient)
       \/ p \in Users /\ At(p, "inInfer")
       \/ p \in Executors /\ At(p, "inCallback") /\ "restart" \in usage

-----------------------------------------------------------------------------
(* StartAsync(), by a client or by the callback                            *)

\* MUTANT: the flag is tested before it is raised, not exchanged.
NotBusyOrRacing == TRUE

NotBusy == ~request.busy

\* setIsRequestBusy(true) is an atomic exchange; REQUEST_BUSY changes nothing.
StartAsync(p) ==
    /\ MayStart(p)
    /\ NotBusy
    /\ SetIsRequestBusy(TRUE)
    /\ GoTo(p, "resetting")
    /\ UNCHANGED <<usage, tasks, manager, queue, history>>

\* Where a thread is when StartAsync() has returned to its caller.
Back(p) == IF p \in Clients THEN "idle" ELSE "calledBack"

\* StartAsync() lowers the flag and throws, out of the plugins' Infer() too.
StartThrows(p) ==
    /\ SetIsRequestBusy(FALSE)
    /\ thread' = [thread EXCEPT ![p].at = Back(p), ![p].inInfer = FALSE]

CheckBlobsThrows(p) ==
    /\ At(p, "resetting")
    /\ "fail" \in usage
    /\ StartThrows(p)
    /\ UNCHANGED <<usage, tasks, manager, queue, history>>

\* MUTANT: the outcome of the previous inference is not forgotten.
CallbackManagerKept == manager

CallbackManagerReset == [manager EXCEPT !.status = "OK", !.failed = FALSE]

ResetCallbackManager(p) ==
    /\ Move(p, "resetting", "picking")
    /\ manager' = CallbackManagerReset
    /\ UNCHANGED <<usage, request, tasks, queue, history>>

Reusable(k) == /\ ~tasks[k].onWait
               /\ k # request.current
               /\ tasks[k].status \in Final

\* MUTANT: a start from the callback uses the running task again.
NeedsAnotherTaskAfterSync == request.current = Sync

\* MUTANT: the task of Infer() counts as one that a start can use.
NeedsAnotherTaskIfPostponed == tasks[request.current].status = "POSTPONED"

NeedsAnotherTask == \/ tasks[request.current].status = "POSTPONED"
                    \/ request.current = Sync

\* The list is in the order of creation: its first task is the lowest slot.
IsFirst(k, slots) == k \in slots /\ \A j \in slots : k <= j

ReusableTasks == {k \in request.list : Reusable(k)}

\* initNextAsyncTask(): the first reusable task of the list, or a new one.
PickTask(p) ==
    /\ Move(p, "picking", "preparing")
    /\ IF NeedsAnotherTask
         THEN \E k \in Slots :
                /\ IsFirst(k, IF ReusableTasks # {} THEN ReusableTasks
                                                   ELSE Slots \ request.list)
                /\ request' = [request EXCEPT !.async = k, !.list = @ \cup {k}]
         ELSE UNCHANGED request
    /\ UNCHANGED <<usage, tasks, manager, queue, history>>

\* resetStages(), and the task is the one to wait for.
PrepareTask(p) ==
    /\ Move(p, "preparing", "occupying")
    /\ tasks' = [tasks EXCEPT ![request.async].stage = Stages]
    /\ request' = [request EXCEPT !.current = request.async]
    /\ UNCHANGED <<usage, manager, queue, history>>

\* startTask() of the executor: occupy(), or REQUEST_BUSY and the flag down.
OccupyTask(p) ==
    /\ At(p, "occupying")
    /\ IF tasks[request.current].status = "BUSY"
         THEN StartThrows(p) /\ UNCHANGED tasks
         ELSE /\ tasks' = [tasks EXCEPT ![request.current].status = "BUSY"]
              /\ GoTo(p, "pushing")
              /\ UNCHANGED request
    /\ UNCHANGED <<usage, manager, queue, history>>

PushTask(p) ==
    /\ Move(p, "pushing", IF thread[p].inInfer THEN "mustWait" ELSE Back(p))
    /\ queue' = [queue EXCEPT !["request"] = Append(@, request.current)]
    /\ history' = [history EXCEPT
         !.accepted = @ + 1,
         !.due = IF "callback" \in usage /\ ~thread[p].inInfer THEN @ + 1 ELSE @,
         !.waited = FALSE]
    /\ UNCHANGED <<usage, request, tasks, manager>>

StartStep(p) == \/ CheckBlobsThrows(p)
                \/ ResetCallbackManager(p)
                \/ PickTask(p)
                \/ PrepareTask(p)
                \/ OccupyTask(p)
                \/ PushTask(p)

-----------------------------------------------------------------------------
(* Wait() of the request and Task::wait()                                  *)

\* A client waits when no callback tells it, or when it likes to.
WaitBegin(c, withTimeout) ==
    /\ \/ At(c, "mustWait") /\ ~withTimeout
       \/ /\ At(c, "idle")
          /\ c \in Users
          /\ Alive
          /\ ~IsCallbackEnabled \/ "wait" \in usage
          /\ withTimeout => "timed" \in usage
    /\ thread' = [thread EXCEPT ![c].at = "flagging", ![c].task = request.current,
                                ![c].timed = withTimeout, ![c].told = Nil]
    /\ UNCHANGED <<usage, request, tasks, manager, queue, history>>

WaitFlag(c) ==
    /\ Move(c, "flagging", "waiting")
    /\ tasks' = [tasks EXCEPT ![thread[c].task].onWait = TRUE]
    /\ UNCHANGED <<usage, request, manager, queue, history>>

\* MUTANT: a task between its two stages counts as finished.
WaitIsOverUnlessBusy(k) == tasks[k].status # "BUSY"

WaitIsOver(k) == tasks[k].status \in Final \cup {"INITIAL"}

WaitTest(c) ==
    /\ Move(c, "waiting", IF WaitIsOver(thread[c].task) THEN "returning" ELSE "asleep")
    /\ UNCHANGED <<usage, request, tasks, manager, queue, history>>

WaitTimeout(c) ==
    /\ thread[c].timed
    /\ Move(c, "asleep", "returning")
    /\ UNCHANGED <<usage, request, tasks, manager, queue, history>>

\* `_isOnWait = false; return _status`, with no mutex.
WaitReturn(c) ==
    /\ At(c, "returning")
    /\ tasks' = [tasks EXCEPT ![thread[c].task].onWait = FALSE]
    /\ thread' = [thread EXCEPT ![c].at = "releasing",
                                ![c].told = tasks[thread[c].task].status]
    /\ UNCHANGED <<usage, request, manager, queue, history>>

\* Wait() lowers the flag whatever the status is.
WaitRelease(c) ==
    /\ Move(c, "releasing", "checking")
    /\ SetIsRequestBusy(FALSE)
    /\ UNCHANGED <<usage, tasks, manager, queue, history>>

\* checkException() throws what the task threw.  The plugins' Infer() turns
\* the callback on again, unless Wait() threw.
WaitFinish(c) ==
    /\ At(c, "checking")
    /\ LET threw == tasks[thread[c].task].failed IN
       /\ thread' = [thread EXCEPT ![c].at = "idle", ![c].task = Nil,
                                   ![c].inInfer = FALSE,
                                   ![c].told = IF threw THEN "THROWN" ELSE @]
       /\ manager' = [manager EXCEPT !.enabled = @ \/ (thread[c].inInfer /\ ~threw)]
    /\ history' = [history EXCEPT !.waited = @ \/ ~thread[c].timed]
    /\ UNCHANGED <<usage, request, tasks, queue>>

WaitStep(c) == \/ At(c, "mustWait") /\ WaitBegin(c, FALSE)
               \/ WaitFlag(c)
               \/ WaitTest(c)
               \/ WaitReturn(c)
               \/ WaitRelease(c)
               \/ WaitFinish(c)

-----------------------------------------------------------------------------
(* A thread of an executor: StagedTask::runNoThrowNoBusyCheck and the      *)
(* function of createAsyncRequestTask().                                   *)

TakeTask(e) ==
    /\ At(e, "idle")
    /\ queue[e] # <<>>
    /\ thread' = [thread EXCEPT ![e].at = "locking", ![e].task = Head(queue[e])]
    /\ queue' = [queue EXCEPT ![e] = Tail(@)]
    /\ UNCHANGED <<usage, request, tasks, manager, history>>

RunBegin(e) ==
    /\ Move(e, "locking", "copying")
    /\ LET k == thread[e].task IN
       /\ tasks[k].runner = Nil
       /\ tasks' = [tasks EXCEPT
            ![k].runner = e,
            ![k].failed = FALSE,
            ![k].status = IF tasks[k].stage = 0 THEN @ ELSE "POSTPONED"]
    /\ UNCHANGED <<usage, request, manager, queue, history>>

\* asyncTaskCopy is the task of the latest start, not the one that runs.
CopyAsyncTask(e) ==
    /\ At(e, "copying")
    /\ thread' = [thread EXCEPT ![e].at = "switching", ![e].copy = request.async]
    /\ UNCHANGED <<usage, request, tasks, manager, queue, history>>

StageOf(e) == tasks[thread[e].copy].stage

SwitchStage(e) ==
    /\ Move(e, "switching", CASE StageOf(e) = 2 -> "inferring"
                              [] StageOf(e) = 1 -> "lowering"
                              [] StageOf(e) = 0 -> "ending")
    /\ UNCHANGED <<usage, request, tasks, manager, queue, history>>

\* _syncRequest->Infer() returns or throws.
Outcomes == IF "fail" \in usage THEN {"OK", "ERROR"} ELSE {"OK"}

Infer(e) ==
    \E outcome \in Outcomes :
       /\ Move(e, "inferring", IF outcome = "OK" THEN "inferred" ELSE "failing")
       /\ history' = [history EXCEPT !.inferred = @ + 1, !.outcome = outcome]
       /\ UNCHANGED <<usage, request, tasks, manager, queue>>

\* stageDone() throws when no stage is left.
StageDone(e, next) ==
    IF StageOf(e) = 0
      THEN GoTo(e, "failing") /\ UNCHANGED tasks
      ELSE GoTo(e, next) /\ tasks' = [tasks EXCEPT ![thread[e].copy].stage = @ - 1]

InferStageDone(e) ==
    /\ At(e, "inferred")
    /\ StageDone(e, "deciding")
    /\ UNCHANGED <<usage, request, manager, queue, history>>

\* MUTANT: the callback stage is done before the callback executor has it.
DecideWithoutCallbackStage(e) ==
    /\ At(e, "deciding")
    /\ StageDone(e, IF IsCallbackEnabled THEN "reoccupying" ELSE "ending")
    /\ UNCHANGED <<usage, request, manager, queue, history>>

\* With a callback the task goes on to the callback executor.
Decide(e) ==
    /\ At(e, "deciding")
    /\ IF IsCallbackEnabled
         THEN GoTo(e, "reoccupying") /\ UNCHANGED tasks
         ELSE StageDone(e, "ending")
    /\ UNCHANGED <<usage, request, manager, queue, history>>

\* CallbackManager::startTask() ignores that a task may be refused.
ReoccupyTask(e) ==
    /\ At(e, "reoccupying")
    /\ IF tasks[thread[e].copy].status = "BUSY"
         THEN GoTo(e, "ending") /\ UNCHANGED tasks
         ELSE /\ tasks' = [tasks EXCEPT ![thread[e].copy].status = "BUSY"]
              /\ GoTo(e, "requeuing")
    /\ UNCHANGED <<usage, request, manager, queue, history>>

RequeueTask(e) ==
    /\ Move(e, "requeuing", "ending")
    /\ queue' = [queue EXCEPT !["callback"] = Append(@, thread[e].copy)]
    /\ UNCHANGED <<usage, request, tasks, manager, history>>

\* Stage 1: the flag goes down before the callback, which may raise it.
LowerFlag(e) ==
    /\ Move(e, "lowering", "lowered")
    /\ SetIsRequestBusy(FALSE)
    /\ UNCHANGED <<usage, tasks, manager, queue, history>>

CallbackStageDone(e) ==
    /\ At(e, "lowered")
    /\ StageDone(e, IF IsCallbackEnabled THEN "calling" ELSE "ending")
    /\ UNCHANGED <<usage, request, manager, queue, history>>

CallCallback(e) ==
    /\ Move(e, "calling", "inCallback")
    /\ history' = [history EXCEPT !.called = @ + 1]
    /\ UNCHANGED <<usage, request, tasks, manager, queue>>

\* A callback returns without a start, or after one; then the exception of
\* the failed inference is thrown again.
CallbackReturns(e) ==
    /\ At(e, "inCallback") \/ At(e, "calledBack")
    /\ GoTo(e, IF manager.failed THEN "failing" ELSE "ending")
    /\ UNCHANGED <<usage, request, tasks, manager, queue, history>>

\* processAsyncTaskFailure() lowers the flag and jumps to the callback stage,
\* or throws.
FailureLowersFlag(e) ==
    /\ Move(e, "failing", "failed")
    /\ SetIsRequestBusy(FALSE)
    /\ UNCHANGED <<usage, tasks, manager, queue, history>>

HandleFailure(e) ==
    /\ At(e, "failed")
    /\ IF IsCallbackEnabled /\ StageOf(e) >= 1
         THEN /\ tasks' = [tasks EXCEPT ![thread[e].copy].stage = 1]
              /\ manager' = [manager EXCEPT !.status = "ERROR", !.failed = TRUE]
              /\ GoTo(e, "reoccupying")
         ELSE GoTo(e, "throwing") /\ UNCHANGED <<tasks, manager>>
    /\ UNCHANGED <<usage, request, queue, history>>

RunThrows(e) ==
    /\ Move(e, "throwing", "notifying")
    /\ tasks' = [tasks EXCEPT ![thread[e].task].failed = TRUE,
                              ![thread[e].task].status = "ERROR"]
    /\ UNCHANGED <<usage, request, manager, queue, history>>

RunEnds(e) ==
    /\ Move(e, "ending",
            IF tasks[thread[e].task].stage = 0 THEN "settling" ELSE "notifying")
    /\ UNCHANGED <<usage, request, tasks, manager, queue, history>>

RunSetsDone(e) ==
    /\ Move(e, "settling", "notifying")
    /\ tasks' = [tasks EXCEPT ![thread[e].task].status = "DONE"]
    /\ UNCHANGED <<usage, request, manager, queue, history>>

\* MUTANT: the end of a task wakes nobody.
NoSleepers(k) == {}

\* The threads asleep in Task::wait() on a task.
Sleepers(k) == {c \in Clients : (At(c, "asleep") \/ At(c, "drowsing")) /\ thread[c].task = k}

\* The threads when the sleepers of a task are notified by p, which goes on.
Awakened(p, to, sleepers) ==
    [q \in Threads |->
       IF q = p THEN [thread[q] EXCEPT !.at = to]
       ELSE IF q \notin sleepers THEN thread[q]
       ELSE [thread[q] EXCEPT !.at = IF @ = "asleep" THEN "waiting" ELSE "awaiting"]]

\* notify_all unless the task is POSTPONED, and the end of _runMutex.
RunNotifies(e) ==
    /\ At(e, "notifying")
    /\ LET k == thread[e].task IN
       /\ thread' = [Awakened(e, "idle", IF tasks[k].status = "POSTPONED" THEN {}
                                         ELSE Sleepers(k))
                       EXCEPT ![e].task = Nil, ![e].copy = Nil]
       /\ tasks' = [tasks EXCEPT ![k].runner = Nil]
    /\ UNCHANGED <<usage, request, manager, queue, history>>

ExecutorStep(e) == \/ TakeTask(e)
                   \/ RunBegin(e)
                   \/ CopyAsyncTask(e)
                   \/ SwitchStage(e)
                   \/ Infer(e)
                   \/ InferStageDone(e)
                   \/ Decide(e)
                   \/ ReoccupyTask(e)
                   \/ RequeueTask(e)
                   \/ LowerFlag(e)
                   \/ CallbackStageDone(e)
                   \/ CallCallback(e)
                   \/ CallbackReturns(e)
                   \/ FailureLowersFlag(e)
                   \/ HandleFailure(e)
                   \/ RunThrows(e)
                   \/ RunEnds(e)
                   \/ RunSetsDone(e)
                   \/ RunNotifies(e)

-----------------------------------------------------------------------------
(* The default Infer(): _syncTask->runWithSynchronizer() on the thread of  *)
(* the client, in turn with the other requests of the network.             *)

SyncInfer(c) ==
    /\ "sync" \in usage
    /\ MayStart(c)
    /\ At(c, "idle")
    /\ NotBusy
    /\ SetIsRequestBusy(TRUE)
    /\ GoTo(c, "syncSelecting")
    /\ UNCHANGED <<usage, tasks, manager, queue, history>>

SyncSelect(c) ==
    /\ Move(c, "syncSelecting", "syncOccupying")
    /\ request' = [request EXCEPT !.current = Sync]
    /\ UNCHANGED <<usage, tasks, manager, queue, history>>

SyncOccupy(c) ==
    /\ At(c, "syncOccupying")
    /\ IF tasks[Sync].status = "BUSY"
         THEN GoTo(c, "syncLowering") /\ UNCHANGED tasks
         ELSE /\ GoTo(c, "syncLocking")
              /\ tasks' = [tasks EXCEPT ![Sync].status = "BUSY"]
    /\ UNCHANGED <<usage, request, manager, queue, history>>

\* TaskSynchronizer::lock() lets the task in, or throws: its queue is full.
SyncLock(c) ==
    /\ \/ Move(c, "syncLocking", "syncInferring")
       \/ "full" \in usage /\ Move(c, "syncLocking", "syncLowering")
    /\ UNCHANGED <<usage, request, tasks, manager, queue, history>>

SyncRun(c) ==
    /\ Move(c, "syncInferring", "syncNotifying")
    /\ \E outcome \in Outcomes :
          tasks' = [tasks EXCEPT ![Sync].failed = (outcome = "ERROR"),
                                 ![Sync].status = IF outcome = "OK" THEN "DONE"
                                                                    ELSE "ERROR"]
    /\ UNCHANGED <<usage, request, manager, queue, history>>

SyncNotify(c) ==
    /\ At(c, "syncNotifying")
    /\ thread' = Awakened(c, "syncLowering", Sleepers(Sync))
    /\ UNCHANGED <<usage, request, tasks, manager, queue, history>>

\* Infer() lowers the flag whether the task ran, threw or was refused.
SyncLower(c) ==
    /\ Move(c, "syncLowering", "idle")
    /\ SetIsRequestBusy(FALSE)
    /\ UNCHANGED <<usage, tasks, manager, queue, history>>

SyncStep(c) == \/ SyncSelect(c)
               \/ SyncOccupy(c)
               \/ SyncLock(c)
               \/ SyncRun(c)
               \/ SyncNotify(c)
               \/ SyncLower(c)

-----------------------------------------------------------------------------
(* The Infer() of the CPU and GPU plugins: disableCallback(), StartAsync(), *)
(* Wait(RESULT_READY), enableCallback().                                    *)

PluginInfer(c) ==
    /\ "plugin" \in usage
    /\ MayStart(c)
    /\ At(c, "idle")
    /\ manager' = [manager EXCEPT !.enabled = FALSE]
    /\ thread' = [thread EXCEPT ![c].at = "inInfer", ![c].inInfer = TRUE]
    /\ UNCHANGED <<usage, request, tasks, queue, history>>

\* StartAsync() throws REQUEST_BUSY out of Infer().
PluginInferBusy(c) ==
    /\ At(c, "inInfer")
    /\ request.busy
    /\ thread' = [thread EXCEPT ![c].at = "idle", ![c].inInfer = FALSE]
    /\ UNCHANGED <<usage, request, tasks, manager, queue, history>>

-----------------------------------------------------------------------------
(* The destructor: waitAllAsyncTasks().  No client is in a call, and the   *)
(* callback does not start the request any more.                           *)

Destroy(c) ==
    /\ c \in Users
    /\ \A d \in Clients : At(d, "idle")
    /\ \A e \in Executors : thread[e].at \notin {"resetting", "picking", "preparing",
                                                 "occupying", "pushing"}
    /\ GoTo(c, "sweeping")
    /\ UNCHANGED <<usage, request, tasks, manager, queue, history>>

\* MUTANT: the callback stage is not waited for.
KeptUnlessPostponed(k) == tasks[k].onWait \/ tasks[k].status = "BUSY"

KeptInList(k) == tasks[k].onWait \/ tasks[k].status \notin Final \cup {"INITIAL"}

\* remove_if, then wait(-1) for the first task that nobody waits for.
Sweep(c) ==
    /\ At(c, "sweeping")
    /\ LET kept     == {k \in request.list : KeptInList(k)}
           unwaited == {k \in kept : ~tasks[k].onWait}
       IN  /\ request' = [request EXCEPT !.list = kept]
           /\ \/ kept = {} /\ GoTo(c, "gone") /\ UNCHANGED tasks
              \/ \E k \in Slots :
                    /\ IsFirst(k, unwaited)
                    /\ thread' = [thread EXCEPT ![c].at = "awaiting", ![c].task = k]
                    /\ tasks' = [tasks EXCEPT ![k].onWait = TRUE]
    /\ UNCHANGED <<usage, manager, queue, history>>

Await(c) ==
    /\ At(c, "awaiting")
    /\ IF WaitIsOver(thread[c].task)
         THEN /\ tasks' = [tasks EXCEPT ![thread[c].task].onWait = FALSE]
              /\ thread' = [thread EXCEPT ![c].at = "sweeping", ![c].task = Nil]
         ELSE GoTo(c, "drowsing") /\ UNCHANGED tasks
    /\ UNCHANGED <<usage, request, manager, queue, history>>

-----------------------------------------------------------------------------
ClientStep(c) == \/ WaitStep(c)
                 \/ SyncStep(c)
                 \/ PluginInferBusy(c)
                 \/ Sweep(c)
                 \/ Await(c)

Next == \/ \E p \in Threads : StartAsync(p) \/ StartStep(p)
        \/ \E e \in Executors : ExecutorStep(e)
        \/ \E c \in Clients : \/ ClientStep(c)
                              \/ \E f \in BOOLEAN : WaitBegin(c, f)
                              \/ WaitTimeout(c)
                              \/ SyncInfer(c)
                              \/ PluginInfer(c)
                              \/ Destroy(c)

(* Fairness: a thread inside a call and the threads of the executors keep  *)
(* running; _runMutex is taken at last by the executor that keeps asking.  *)
(* No client has to make a call and no timeout has to elapse.              *)
Fairness == /\ \A p \in Threads : WF_vars(StartStep(p))
            /\ \A e \in Executors : WF_vars(ExecutorStep(e))
            /\ \A c \in Clients : WF_vars(ClientStep(c))

Spec == Init /\ [][Next]_vars /\ Fairness

-----------------------------------------------------------------------------
Statuses == {"INITIAL", "BUSY", "POSTPONED", "DONE", "ERROR"}

Requests == [busy : BOOLEAN, async : Slots \cup {Nil}, current : Tasks, list : SUBSET Slots]

TaskStates == [status : Statuses, stage : 0..2, failed : BOOLEAN, onWait : BOOLEAN,
               runner : Executors \cup {Nil}]

Managers == [enabled : BOOLEAN, status : {"OK", "ERROR"}, failed : BOOLEAN]

Places == {"idle", "resetting", "picking", "preparing", "occupying", "pushing",
           "mustWait", "flagging", "waiting", "asleep", "returning", "releasing",
           "checking", "locking", "copying", "switching", "inferring", "inferred",
           "deciding", "reoccupying", "requeuing", "lowering", "lowered", "calling",
           "inCallback", "calledBack", "failing", "failed", "throwing", "ending",
           "settling", "notifying", "syncSelecting", "syncOccupying", "syncLocking",
           "syncInferring", "syncNotifying", "syncLowering", "inInfer", "sweeping",
           "awaiting", "drowsing", "gone"}

ThreadStates == [at : Places, task : Tasks \cup {Nil}, copy : Slots \cup {Nil},
                 timed : BOOLEAN, inInfer : BOOLEAN,
                 told : Statuses \cup {"THROWN", Nil}]

TypeOK ==
    /\ usage \in UsageChoices
    /\ request \in Requests
    /\ tasks \in [Tasks -> TaskStates]
    /\ manager \in Managers
    /\ queue \in [Executors -> Seq(Slots)]
    /\ thread \in [Threads -> ThreadStates]
    /\ history \in [accepted : Nat, due : Nat, inferred : Nat, called : Nat,
                    outcome : {"OK", "ERROR"}, waited : BOOLEAN]

\* The threads that are inside _syncRequest->Infer().
Inferring == {p \in Threads : At(p, "inferring") \/ At(p, "syncInferring")}

\* An accepted start that has not inferred yet.
InferencePending ==
    \/ Inferring # {}
    \/ queue["request"] # <<>>
    \/ thread["request"].at \in {"locking", "copying", "switching"}

(* A request holds one set of blobs: two threads are never inside its      *)
(* inference (InferRequestInternal::Infer) at the same time, whichever of  *)
(* StartAsync(), Infer() and the callback started them.                    *)
InferenceIsExclusive == Cardinality(Inferring) <= 1

(* The busy flag guards the request: while an inference is queued or runs, *)
(* SetBlob(), Infer() and the other calls are answered REQUEST_BUSY.  A    *)
(* Wait() that times out breaks this, and so does a callback or a client   *)
(* that starts the request between a failure and the second lowering.      *)
BusyGuardsInference == InferencePending /\ "timed" \notin usage => request.busy

\* Every executor is at rest and no start or synchronous call is under way.
Quiescent ==
    /\ \A e \in Executors : At(e, "idle") /\ queue[e] = <<>>
    /\ \A c \in Clients : thread[c].at \in {"idle", "flagging", "waiting", "asleep",
                                           "sweeping", "awaiting", "drowsing", "gone"}

(* Each start that StartAsync() accepted inferred once and, if a callback  *)
(* is set, called it once: none is lost, repeated or served twice.         *)
EachStartServedOnce ==
    /\ history.called <= history.inferred
    /\ history.inferred <= history.accepted
    /\ history.called <= history.due
    /\ Quiescent => /\ history.inferred = history.accepted
                    /\ history.called = history.due

(* The callback is given the outcome of its own inference, not that of an  *)
(* earlier or a later start (CallbackManager keeps one status and one      *)
(* exception for the whole request).                                       *)
CallbackToldOutcome ==
    [][history'.called # history.called => manager.status = history.outcome]_vars

(* Wait(RESULT_READY) answers for the last start only when it is complete: *)
(* its inference has ended and its callback has been called                *)
(* (callbackIsCalledIfAsyncRequestFailed).                                 *)
WaitReturnsAfterCallback ==
    \A c \in Clients :
        /\ At(c, "checking")
        /\ ~thread[c].timed
        /\ thread[c].told \in Final
        /\ thread[c].task # Sync
        => history.inferred = history.accepted /\ history.called = history.due

(* After the destructor no executor holds or runs a task of the request,   *)
(* whose function uses the request through a raw `this`.                   *)
NoUseAfterDestruction ==
    (\E c \in Clients : At(c, "gone")) =>
        \A e \in Executors : queue[e] = <<>> /\ (At(e, "idle") \/ At(e, "notifying"))

(* No wake-up is lost: a thread sleeps on a task only until its status is  *)
(* final, and after that only while the thread that set it has yet to call *)
(* notify_all.                                                             *)
SleepersWillBeWoken ==
    \A c \in Clients : thread[c].at \in {"asleep", "drowsing"} =>
        \/ ~WaitIsOver(thread[c].task)
        \/ \E e \in Executors : At(e, "notifying") /\ thread[e].task = thread[c].task
        \/ thread[c].task = Sync /\ \E d \in Clients : At(d, "syncNotifying")

\* The steps that may have to wait are to take a task, to lock _runMutex, to
\* wake up, and to choose a task in waitAllAsyncTasks(); MaxTasks and MaxStarts
\* are BOUNDs of the model and stop no thread of the code.
CanGoOn(p) ==
    \/ thread[p].at \notin {"idle", "asleep", "drowsing", "gone", "locking", "sweeping"}
    \/ p \in Executors /\ At(p, "idle") /\ queue[p] # <<>>
    \/ At(p, "locking") /\ tasks[thread[p].task].runner = Nil
    \/ At(p, "sweeping") /\ ((\E k \in request.list : KeptInList(k)) =>
                               \E k \in request.list : KeptInList(k) /\ ~tasks[k].onWait)

\* A task that the synchronizer has refused stays BUSY, and who waits for it
\* waits in vain.
Forsaken(c) == At(c, "asleep") /\ thread[c].task = Sync /\ "full" \in usage

(* Never does everybody wait for everybody: while a client is in a call or *)
(* the destructor, or an executor has something to do, some thread can go  *)
(* on without a timeout.                                                   *)
SomebodyGoesOn ==
    \/ \E c \in Clients : thread[c].at \notin {"idle", "gone"} /\ ~Forsaken(c)
    \/ \E e \in Executors : ~At(e, "idle") \/ queue[e] # <<>>
    => \E p \in Threads : CanGoOn(p)

(* The destructor returns: waitAllAsyncTasks() never waits for a task that *)
(* nobody will finish.                                                     *)
DestructorReturns == \A c \in Clients : At(c, "sweeping") ~> At(c, "gone")

(* Every accepted start is inferred and its callback is called at last.    *)
StartsAreServed ==
    /\ [](history.accepted > history.inferred => <>(history.inferred >= history.accepted))
    /\ [](history.due > history.called => <>(history.called >= history.due))
=============================================================================
