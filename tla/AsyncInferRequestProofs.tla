---------------------- MODULE AsyncInferRequestProofs ----------------------
(***************************************************************************)
(* Proofs about AsyncInferRequest for every number of clients, tasks and   *)
(* starts, and for every way of use in two families:                       *)
(*                                                                         *)
(*  - a callback tells of each completion, and any number of clients and   *)
(*    the callback itself start the request again, with StartAsync() or    *)
(*    with the default Infer(); no inference fails and nobody waits;       *)
(*  - one client at a time, which waits for the result if there is a       *)
(*    callback; inferences may fail, Wait() may time out.                  *)
(*                                                                         *)
(* The argument: an accepted inference is in one place at a time, in a     *)
(* queue or with an executor, from the push of its task to the lowering of *)
(* the flag by its callback stage, or to its final status.  While it is    *)
(* there nobody begins a start: in the first family because the flag is    *)
(* up, in the second because the client has not been told of the end.  So  *)
(* the task that flies is _currentTask and _asyncTask, and its stage says  *)
(* how far it is.                                                          *)
(*                                                                         *)
(* That no wake-up is lost and that nobody waits for everybody rests on    *)
(* who has to act next: a task that is POSTPONED is run by an executor, a  *)
(* BUSY one is on its way to one, _isOnWait is set by a thread in wait(),  *)
(* and _runMutex is held by the executor that runs the task.               *)
(***************************************************************************)
EXTENDS AsyncInferRequest, FiniteSetTheorems, TLAPS

-----------------------------------------------------------------------------
(* The ways of use                                                         *)

Relayed(u) == "callback" \in u /\ u \cap {"wait", "plugin", "fail", "timed"} = {}

OneClient(u) ==
    /\ u \cap {"shared", "restart"} = {}
    /\ "callback" \in u => "wait" \in u
    /\ "impatient" \in u => u \cap {"callback", "timed"} = {}
    /\ {"callback", "plugin"} \subseteq u => "fail" \notin u

ServedUsages == \A u \in UsageChoices : Relayed(u) \/ OneClient(u)

IsOneClient == OneClient(usage)

\* The client starts again only when it has been told of the end.
IsPatient == IsOneClient /\ "impatient" \notin usage

-----------------------------------------------------------------------------
(* Where an inference is                                                   *)

Rq == thread["request"]
Cb == thread["callback"]

Starting   == {"resetting", "picking", "preparing", "occupying", "pushing"}
Syncing    == {"syncSelecting", "syncOccupying", "syncLocking", "syncInferring",
               "syncNotifying", "syncLowering"}
Waiting    == {"flagging", "waiting", "asleep", "returning", "releasing", "checking"}
Destroying == {"sweeping", "awaiting", "drowsing", "gone"}
Failing    == {"failing", "failed", "throwing"}
CalledBack == {"calling", "inCallback", "calledBack"} \cup Starting

\* A thread is between the flag that it raised and the push of the task, or
\* in the default Infer().
Begins(p)  == thread[p].at \in Starting \cup Syncing
SomeBegins == \E p \in Threads : Begins(p)

Pending == \/ queue["request"] # <<>>
           \/ Rq.at \in {"locking", "copying", "switching", "inferring"}

\* The executors hold the task of the last start.
RequestFlies ==
    \/ Rq.at \in {"locking", "copying", "switching", "inferring", "inferred", "deciding",
                  "reoccupying", "requeuing", "failing", "settling"}
    \/ Rq.at = "failed" /\ "callback" \in usage
    \/ Rq.at = "ending" /\ tasks[Rq.task].stage = 0
CallbackFlies == Cb.at \in {"locking", "copying", "switching", "lowering"}

Flight == \/ queue["request"] # <<>> \/ RequestFlies
          \/ queue["callback"] # <<>> \/ CallbackFlies

RequestRests  == queue["request"] = <<>> /\ Rq.at \in {"idle", "notifying"}
CallbackRests == queue["callback"] = <<>> /\ Cb.at \in {"idle", "notifying"}
Settled == RequestRests /\ CallbackRests

-----------------------------------------------------------------------------
(* The inductive invariant                                                 *)

ClientPlaces == {"idle", "inInfer", "mustWait"} \cup Starting \cup Syncing \cup Waiting
                  \cup Destroying
RequestPlaces  == {"idle", "locking", "copying", "switching", "inferring", "inferred",
                   "deciding", "reoccupying", "requeuing", "ending", "settling",
                   "notifying"} \cup Failing
CallbackPlaces == {"idle", "locking", "copying", "switching", "lowering", "lowered",
                   "ending", "settling", "notifying"} \cup Failing \cup CalledBack

UsageOK == Relayed(usage) \/ OneClient(usage)

\* Each thread does what it is for; only the first family restarts.
PlacesOK ==
    /\ \A c \in Clients : thread[c].at \in ClientPlaces
    /\ Rq.at \in RequestPlaces /\ Cb.at \in CallbackPlaces
    /\ \A c \in Clients :
          Begins(c) \/ thread[c].at \in {"inInfer", "mustWait"} \cup Waiting => c \in Users
    /\ \A c \in Clients : thread[c].at \in {"mustWait"} \cup Waiting => IsOneClient
    /\ Cb.at \in Starting => "restart" \in usage
    /\ "callback" \notin usage => queue["callback"] = <<>> /\ Cb.at = "idle"
    /\ "callback" \in usage => Rq.at # "throwing"

\* The plugins' Infer() turns the callback off while nothing flies.
EnabledOK ==
    /\ ~Rq.inInfer /\ ~Cb.inInfer
    /\ \A c \in Clients : thread[c].inInfer =>
          /\ c \in Users /\ "plugin" \in usage
          /\ thread[c].at \in {"inInfer", "mustWait"} \cup Starting \cup Waiting
          /\ thread[c].at \in Waiting => ~thread[c].timed
    /\ \A c \in Clients : thread[c].at \in {"inInfer", "mustWait"} => thread[c].inInfer
    /\ \A c \in Clients : thread[c].timed => "timed" \in usage
    /\ "callback" \in usage => (manager.enabled <=> \A c \in Clients : ~thread[c].inInfer)
    /\ (\/ queue["callback"] # <<>> \/ Cb.at \notin {"idle", "notifying"}
        \/ Rq.at \in {"reoccupying", "requeuing"}) => IsCallbackEnabled

\* An executor runs the task that it took, whose _runMutex it holds.
RunnersOK ==
    \A e \in Executors :
       /\ thread[e].at # "idle" => thread[e].task \in Slots
       /\ thread[e].at \notin {"idle", "locking"} => tasks[thread[e].task].runner = e
       /\ thread[e].at \notin {"idle", "locking", "copying", "notifying"}
            => thread[e].copy = thread[e].task

\* One start at a time, one task in flight, and never both.
OneAtATime ==
    /\ \A p, q \in Threads : Begins(p) /\ Begins(q) => p = q
    /\ SomeBegins => ~Flight
    /\ Len(queue["request"]) <= 1 /\ Len(queue["callback"]) <= 1
    /\ queue["request"] = <<>> \/ queue["callback"] = <<>>
    /\ ~(RequestFlies /\ CallbackFlies)
    /\ RequestFlies \/ CallbackFlies => queue["request"] = <<>> /\ queue["callback"] = <<>>

\* What flies is the current task, and asyncTaskCopy will be the same.
CurrentOK ==
    /\ \A e \in Executors : queue[e] # <<>> => Head(queue[e]) = request.current
    /\ RequestFlies \/ Rq.at = "ending" => Rq.task = request.current
    /\ CallbackFlies => Cb.task = request.current
    /\ Flight => request.current # Sync
    /\ request.current # Sync /\ (\A p \in Threads : ~At(p, "preparing"))
         => request.async = request.current
    /\ \A p \in Threads : At(p, "preparing") =>
          /\ request.async \in Slots
          /\ tasks[request.async].status \in Final \cup {"INITIAL"}
    /\ \A p \in Threads : thread[p].at \in {"occupying", "pushing"} => request.current # Sync
    /\ \A p \in Threads : At(p, "occupying") =>
          tasks[request.current].status \in Final \cup {"INITIAL"}

\* What a task of this status and stage is doing.
Is(k, status, stage) == tasks[k].status = status /\ tasks[k].stage = stage

RequestStatusOK ==
    /\ Rq.at = "locking" => Is(Rq.task, "BUSY", 2)
    /\ Rq.at \in {"copying", "switching", "inferring", "inferred", "failing", "failed"}
         => Is(Rq.task, "POSTPONED", 2)
    /\ Rq.at \in {"deciding", "reoccupying"} => Is(Rq.task, "POSTPONED", 1)
    /\ Rq.at = "requeuing" => Is(Rq.task, "BUSY", 1)
    /\ Rq.at = "ending" =>
         \/ Is(Rq.task, "POSTPONED", 0)
         \/ Is(Rq.task, "BUSY", 1) /\ (queue["callback"] # <<>> \/ Cb.at = "locking")
    /\ Rq.at = "settling" => Is(Rq.task, "POSTPONED", 0)
    /\ Rq.at = "throwing" => tasks[Rq.task].status = "POSTPONED"

CallbackStatusOK ==
    /\ Cb.at = "locking" => Is(Cb.task, "BUSY", 1)
    /\ Cb.at \in {"copying", "switching", "lowering", "lowered"} => Is(Cb.task, "POSTPONED", 1)
    /\ Cb.at \in CalledBack \cup Failing \cup {"ending", "settling"}
         => Is(Cb.task, "POSTPONED", 0)

StatusOK ==
    /\ \A p \in Threads : thread[p].at \in {"occupying", "pushing"}
                            => tasks[request.current].stage = 2
    /\ \A p \in Threads : At(p, "pushing") => tasks[request.current].status = "BUSY"
    /\ queue["request"] # <<>> => Is(request.current, "BUSY", 2)
    /\ queue["callback"] # <<>> => Is(request.current, "BUSY", 1)
    /\ \A k \in Slots : tasks[k].status = "BUSY" =>
          k = request.current /\ (Flight \/ \E p \in Threads : At(p, "pushing"))
    /\ request.current # Sync /\ tasks[request.current].status = "INITIAL"
         => \E p \in Threads : At(p, "occupying")

\* With one client, nothing else goes on while the callback is called ...
AfterLowering == IsOneClient /\ Cb.at \notin {"idle", "locking", "notifying"}
                   => RequestRests /\ queue["callback"] = <<>>

\* ... and nothing at all when the status of its task is final.
FinalIsSettled ==
    /\ IsOneClient /\ request.current # Sync /\ tasks[request.current].status \in Final
    /\ \A p \in Threads : ~At(p, "occupying")
    => Settled

\* A task that is queued or runs is in the list that the destructor sweeps.
ListOK ==
    /\ \A k \in Slots : tasks[k].status \notin Final \cup {"INITIAL"} => k \in request.list
    /\ Alive => /\ \A k \in Slots \ request.list : tasks[k].status = "INITIAL"
                /\ request.async # Nil => request.async \in request.list
    /\ \A c \in Clients : At(c, "gone") => request.list = {}
    /\ \A c \in Clients : thread[c].at \in Destroying =>
          /\ \A d \in Clients : d # c => At(d, "idle")
          /\ ~SomeBegins
          /\ thread[c].at \in {"awaiting", "drowsing"} => thread[c].task \in Slots

\* Who waits, waits for the current task.
WaitsOK ==
    \A c \in Clients :
       /\ thread[c].at \in Waiting => thread[c].task = request.current
       /\ thread[c].at \in {"returning", "releasing", "checking"} /\ ~thread[c].timed
            => WaitIsOver(request.current)
       /\ At(c, "checking") => ~request.busy

\* A patient client begins only when all is settled.
PatienceOK ==
    IsPatient =>
       /\ history.waited => Settled /\ (request.busy => SomeBegins)
       /\ SomeBegins \/ (\E c \in Clients : At(c, "inInfer")) => history.waited
       /\ request.current = Sync => history.waited

\* Others are held off by the flag.
GuardOK ==
    /\ SomeBegins => request.busy
    /\ ~IsPatient /\ Flight => request.busy
    /\ "timed" \notin usage /\ Pending => request.busy

\* The task of the request executor ends with no callback to come.
EndsPlainly == Rq.at = "settling" \/ (Rq.at = "ending" /\ tasks[Rq.task].stage = 0)

\* Starts, inferences and callbacks differ by those on their way.
CountOK ==
    /\ history.accepted = history.inferred + (IF Pending THEN 1 ELSE 0)
    /\ history.due = history.called + (IF Flight /\ IsCallbackEnabled THEN 1 ELSE 0)
                                    + (IF Cb.at \in {"lowered", "calling"} THEN 1 ELSE 0)
    /\ history.due <= history.accepted
    /\ Flight /\ ~IsCallbackEnabled => history.due < history.accepted
    /\ EndsPlainly => ~IsCallbackEnabled

\* The callback manager keeps the outcome until the callback is called.
OutcomeOK ==
    /\ "fail" \notin usage =>
          /\ \A k \in Tasks : ~tasks[k].failed
          /\ manager.status = "OK" /\ ~manager.failed /\ history.outcome = "OK"
          /\ Rq.at \notin Failing /\ Cb.at \notin Failing
    /\ "fail" \in usage /\ "callback" \in usage =>
          /\ \/ Pending \/ Rq.at \in {"inferred", "deciding"}
             \/ \E p \in Threads : thread[p].at \in {"picking", "preparing", "occupying",
                                                     "pushing"}
             => manager.status = "OK"
          /\ Rq.at \in {"failing", "failed"} => history.outcome = "ERROR"
          /\ \/ Rq.at \in {"inferred", "deciding", "reoccupying", "requeuing"}
             \/ queue["callback"] # <<>>
             \/ CallbackFlies \/ Cb.at \in {"lowered", "calling"}
             => manager.status = history.outcome

\* What the executors do with the tasks.
FlightInv == /\ RunnersOK /\ OneAtATime /\ CurrentOK /\ RequestStatusOK /\ CallbackStatusOK
             /\ StatusOK /\ AfterLowering /\ FinalIsSettled

\* What the clients know of it.
ClientInv == /\ UsageOK /\ PlacesOK /\ EnabledOK /\ ListOK /\ WaitsOK /\ PatienceOK
             /\ GuardOK

Inv == TypeOK /\ FlightInv /\ ClientInv /\ CountOK /\ OutcomeOK

-----------------------------------------------------------------------------
(* Names                                                                   *)

LEMMA Names ==
    /\ "request" \in Threads /\ "callback" \in Threads
    /\ "request" \in Executors /\ "callback" \in Executors
    /\ \A c \in Clients : c \in Threads /\ c # "request" /\ c # "callback"
    /\ \A p \in Threads : p \in Clients \/ p = "request" \/ p = "callback"
    /\ \A e \in Executors : e \in Threads /\ e \notin Clients /\ (e = "request" \/ e = "callback")
    /\ Users \subseteq Clients
    /\ Sync \in Tasks /\ Sync \notin Slots /\ Nil \notin Tasks /\ Nil \notin Executors
    /\ \A k \in Slots : k \in Tasks /\ k # Nil /\ k # Sync
    /\ \A k \in Tasks : k # Sync => k \in Slots
BY RequestAssumption DEF Threads, Executors, Users, Tasks, Slots, Sync

LEMMA InitInv == ASSUME ServedUsages PROVE Init => Inv
<1> SUFFICES ASSUME Init PROVE Inv
  OBVIOUS
<1>1. /\ usage \in UsageChoices /\ UsageOK
      /\ queue["request"] = <<>> /\ queue["callback"] = <<>>
      /\ \A p \in Threads : thread[p] = [at |-> "idle", task |-> Nil, copy |-> Nil,
                                         timed |-> FALSE, inInfer |-> FALSE, told |-> Nil]
      /\ \A k \in Tasks : tasks[k].status = "INITIAL"
  BY Names DEF Init, ServedUsages, UsageOK
<1>2. TypeOK
  BY <1>1, Names DEF Init, TypeOK, Requests, TaskStates, Statuses, Managers, ThreadStates, Places,
     Stages, Executors
<1>3. FlightInv
  BY <1>1, Names DEF Init, FlightInv, RunnersOK, OneAtATime, CurrentOK, RequestStatusOK,
     CallbackStatusOK, StatusOK, AfterLowering, FinalIsSettled, Begins, SomeBegins, Flight,
     RequestFlies, CallbackFlies, Starting, Syncing, CalledBack, Failing, Settled,
     RequestRests, CallbackRests, Rq, Cb, Executors, At, Final
<1>4. ClientInv
  BY <1>1, Names DEF Init, ClientInv, PlacesOK, EnabledOK, ListOK, WaitsOK, PatienceOK, GuardOK,
     ClientPlaces, RequestPlaces, CallbackPlaces, Begins, SomeBegins, Flight, RequestFlies,
     CallbackFlies, Pending, Starting, Syncing, Waiting, Destroying, Settled, RequestRests,
     CallbackRests, Rq, Cb, At, Alive, Final, IsCallbackEnabled
<1>5. CountOK /\ OutcomeOK
  BY <1>1, Names DEF Init, CountOK, EndsPlainly, OutcomeOK, Flight, RequestFlies, CallbackFlies, Pending,
     Failing, Rq, Cb
<1> QED
  BY <1>2, <1>3, <1>4, <1>5, <1>1 DEF Inv, ClientInv

-----------------------------------------------------------------------------
(* Effects of the steps on the types                                       *)

RequestOK == request \in Requests
TasksOK   == tasks \in [Tasks -> TaskStates]
QueuesOK  == queue \in [Executors -> Seq(Slots)]
ThreadsOK == thread \in [Threads -> ThreadStates]

\* Of the threads only p changes, and of p only the place.
Others(p) == \A q \in Threads : q # p => thread'[q] = thread[q]

Goes(p, place) ==
    /\ thread'[p].at = place
    /\ thread'[p].task = thread[p].task /\ thread'[p].copy = thread[p].copy
    /\ thread'[p].timed = thread[p].timed /\ thread'[p].inInfer = thread[p].inInfer
    /\ thread'[p].told = thread[p].told
    /\ Others(p)

\* Of the tasks only k changes.
OnlyTask(k) == \A j \in Tasks : j # k => tasks'[j] = tasks[j]

LEMMA TypeParts == Inv => RequestOK /\ TasksOK /\ QueuesOK /\ ThreadsOK
BY DEF Inv, TypeOK, RequestOK, TasksOK, QueuesOK, ThreadsOK

LEMMA PlaceNames ==
    /\ "idle" \in Places /\ "resetting" \in Places /\ "picking" \in Places
    /\ "preparing" \in Places /\ "occupying" \in Places /\ "pushing" \in Places
    /\ "mustWait" \in Places /\ "flagging" \in Places /\ "waiting" \in Places
    /\ "asleep" \in Places /\ "returning" \in Places /\ "releasing" \in Places
    /\ "checking" \in Places /\ "locking" \in Places /\ "copying" \in Places
    /\ "switching" \in Places /\ "inferring" \in Places /\ "inferred" \in Places
    /\ "deciding" \in Places /\ "reoccupying" \in Places /\ "requeuing" \in Places
    /\ "lowering" \in Places /\ "lowered" \in Places /\ "calling" \in Places
    /\ "inCallback" \in Places /\ "calledBack" \in Places /\ "failing" \in Places
    /\ "failed" \in Places /\ "throwing" \in Places /\ "ending" \in Places
    /\ "settling" \in Places /\ "notifying" \in Places /\ "syncSelecting" \in Places
    /\ "syncOccupying" \in Places /\ "syncLocking" \in Places /\ "syncInferring" \in Places
    /\ "syncNotifying" \in Places /\ "syncLowering" \in Places /\ "inInfer" \in Places
    /\ "sweeping" \in Places /\ "awaiting" \in Places /\ "drowsing" \in Places
    /\ "gone" \in Places
BY DEF Places

LEMMA StatusNames ==
    /\ "INITIAL" \in Statuses /\ "BUSY" \in Statuses /\ "POSTPONED" \in Statuses
    /\ "DONE" \in Statuses /\ "ERROR" \in Statuses
BY DEF Statuses

LEMMA GoToGoes ==
    ASSUME ThreadsOK, NEW p \in Threads, NEW place \in Places, GoTo(p, place)
    PROVE  ThreadsOK' /\ Goes(p, place)
BY DEF ThreadsOK, ThreadStates, GoTo, Goes, Others

\* A task changes its status.
LEMMA StatusSet ==
    ASSUME TasksOK, NEW k \in Tasks, NEW s \in Statuses,
           tasks' = [tasks EXCEPT ![k].status = s]
    PROVE  /\ TasksOK' /\ OnlyTask(k)
           /\ tasks'[k].status = s /\ tasks'[k].stage = tasks[k].stage
           /\ tasks'[k].failed = tasks[k].failed /\ tasks'[k].onWait = tasks[k].onWait
           /\ tasks'[k].runner = tasks[k].runner
BY DEF TasksOK, TaskStates, OnlyTask

LEMMA StageSet ==
    ASSUME TasksOK, NEW k \in Tasks, NEW s \in 0..2,
           tasks' = [tasks EXCEPT ![k].stage = s]
    PROVE  /\ TasksOK' /\ OnlyTask(k)
           /\ tasks'[k].stage = s /\ tasks'[k].status = tasks[k].status
           /\ tasks'[k].failed = tasks[k].failed /\ tasks'[k].onWait = tasks[k].onWait
           /\ tasks'[k].runner = tasks[k].runner
BY DEF TasksOK, TaskStates, OnlyTask

LEMMA OnWaitSet ==
    ASSUME TasksOK, NEW k \in Tasks, NEW b \in BOOLEAN,
           tasks' = [tasks EXCEPT ![k].onWait = b]
    PROVE  /\ TasksOK' /\ OnlyTask(k)
           /\ tasks'[k].stage = tasks[k].stage /\ tasks'[k].status = tasks[k].status
           /\ tasks'[k].failed = tasks[k].failed /\ tasks'[k].onWait = b
           /\ tasks'[k].runner = tasks[k].runner
BY DEF TasksOK, TaskStates, OnlyTask

LEMMA BusySet ==
    ASSUME RequestOK, NEW b \in BOOLEAN, SetIsRequestBusy(b)
    PROVE  /\ RequestOK' /\ request'.busy = b /\ request'.async = request.async
           /\ request'.current = request.current /\ request'.list = request.list
BY DEF RequestOK, Requests, SetIsRequestBusy

\* The way of use never changes.
LEMMA UsageKept ==
    ASSUME usage' = usage
    PROVE  /\ Users' = Users
           /\ UsageOK' <=> UsageOK
           /\ IsOneClient' <=> IsOneClient
           /\ IsPatient' <=> IsPatient
BY DEF Users, UsageOK, IsOneClient, IsPatient

\* A single client uses the request, and the callback does not.
LEMMA OneUser ==
    ASSUME Inv, IsOneClient
    PROVE  /\ \A c, d \in Users : c = d
           /\ \A p \in Threads : Begins(p) => p \in Users /\ p \in Clients
<1>1. \A c, d \in Users : c = d
  BY DEF IsOneClient, OneClient, Users
<1>2. Cb.at \notin Starting \cup Syncing
  BY DEF IsOneClient, OneClient, Inv, ClientInv, PlacesOK, CallbackPlaces, Starting, Syncing,
     CalledBack, Failing
<1>3. Rq.at \notin Starting \cup Syncing
  BY DEF Inv, ClientInv, PlacesOK, RequestPlaces, Starting, Syncing, Failing
<1> QED
  BY <1>1, <1>2, <1>3, Names DEF Begins, Inv, ClientInv, PlacesOK, Rq, Cb

\* A step of a client leaves the threads of the executors alone, and that of
\* an executor the other executor and the clients.
LEMMA OthersAre ==
    /\ \A c \in Clients : Others(c) =>
          Rq' = Rq /\ Cb' = Cb /\ \A e \in Executors : thread'[e] = thread[e]
    /\ Others("request") => Cb' = Cb /\ \A c \in Clients : thread'[c] = thread[c]
    /\ Others("callback") => Rq' = Rq /\ \A c \in Clients : thread'[c] = thread[c]
BY Names DEF Others, Rq, Cb

\* The tasks that the parts of the state name.
LEMMA TasksNamed ==
    ASSUME Inv
    PROVE  /\ request.current \in Tasks /\ request.async \in Slots \cup {Nil}
           /\ \A e \in Executors : thread[e].at # "idle" => thread[e].task \in Slots
           /\ Rq.at # "idle" => Rq.task \in Slots /\ Rq.task \in Tasks
           /\ Cb.at # "idle" => Cb.task \in Slots /\ Cb.task \in Tasks
           /\ \A c \in Clients : thread[c].at \in Waiting => thread[c].task \in Tasks
           /\ \A c \in Clients : thread[c].at \in {"awaiting", "drowsing"}
                                 => thread[c].task \in Slots /\ thread[c].task \in Tasks
           /\ \A k \in Tasks : tasks[k] \in TaskStates
           /\ \A p \in Threads : thread[p] \in ThreadStates
           /\ \A e \in Executors : queue[e] \in Seq(Slots)
<1>1. request.current \in Tasks /\ request.async \in Slots \cup {Nil}
  BY DEF Inv, TypeOK, Requests
<1>2. \A e \in Executors : thread[e].at # "idle" => thread[e].task \in Slots
  BY DEF Inv, FlightInv, RunnersOK
<1>3. \A c \in Clients : thread[c].at \in Waiting => thread[c].task \in Tasks
  BY <1>1 DEF Inv, ClientInv, WaitsOK
<1>4. \A c \in Clients : thread[c].at \in {"awaiting", "drowsing"} => thread[c].task \in Slots
  BY DEF Inv, ClientInv, ListOK, Destroying
<1> QED
  BY <1>1, <1>2, <1>3, <1>4, Names DEF Rq, Cb, Inv, TypeOK

-----------------------------------------------------------------------------
(* Steps of clients that the executors do not see                          *)

CoreKept ==
    /\ UNCHANGED <<usage, queue, Rq, Cb>>
    /\ request'.current = request.current /\ request'.async = request.async
    /\ \A k \in Tasks : /\ tasks'[k].status = tasks[k].status
                        /\ tasks'[k].stage = tasks[k].stage
                        /\ tasks'[k].runner = tasks[k].runner
                        /\ tasks'[k].failed = tasks[k].failed
    /\ \A p \in Threads : \/ thread'[p].at = thread[p].at
                          \/ p \in Clients /\ ~Begins(p) /\ ~Begins(p)'

LEMMA CoreKeeps ==
    ASSUME Inv, CoreKept
    PROVE  /\ FlightInv'
           /\ Pending' <=> Pending
           /\ RequestFlies' <=> RequestFlies
           /\ CallbackFlies' <=> CallbackFlies
           /\ Flight' <=> Flight
           /\ Settled' <=> Settled
           /\ SomeBegins' <=> SomeBegins
           /\ \A p \in Threads : Begins(p)' <=> Begins(p)
<1> USE DEF CoreKept
<1>1. \A p \in Threads : Begins(p)' <=> Begins(p)
  BY DEF Begins
<1>2. SomeBegins' <=> SomeBegins
  BY <1>1 DEF SomeBegins
<1>3. RequestFlies <=> RequestFlies'
  BY TasksNamed DEF RequestFlies
<1>4. CallbackFlies <=> CallbackFlies'
  BY DEF CallbackFlies
<1>5. (Pending' <=> Pending) /\ (Flight' <=> Flight) /\ (Settled' <=> Settled)
  BY <1>3, <1>4 DEF Flight, Pending, Settled, RequestRests, CallbackRests
<1>6. \A p \in Threads : thread[p].at \in Starting \/ thread'[p].at \in Starting =>
                          thread'[p].at = thread[p].at
  BY DEF Begins
<1>7. RunnersOK'
  BY Names DEF RunnersOK, Inv, FlightInv, Rq, Cb
<1>8. OneAtATime'
  BY <1>1, <1>2, <1>3, <1>4, <1>5 DEF OneAtATime, Inv, FlightInv
<1>9. CurrentOK'
  BY <1>1, <1>2, <1>3, <1>4, <1>5, <1>6, Names, TasksNamed DEF CurrentOK, Inv, FlightInv, At,
     Starting
<1>10. RequestStatusOK' /\ CallbackStatusOK'
  <2>1. RequestStatusOK'
    BY TasksNamed DEF RequestStatusOK, Inv, FlightInv, Is
  <2>2. CallbackStatusOK'
    BY TasksNamed DEF CallbackStatusOK, Inv, FlightInv, CalledBack, Starting, Failing, Is
  <2> QED
    BY <2>1, <2>2
<1>11. StatusOK'
  BY <1>5, <1>6, Names, TasksNamed, SMTT(60) DEF StatusOK, Inv, FlightInv, At, Starting, Is
<1>12. AfterLowering' /\ FinalIsSettled'
  BY <1>5, <1>6, TasksNamed, UsageKept DEF AfterLowering, FinalIsSettled, Inv, FlightInv,
     RequestRests, At, Starting
<1> QED
  BY <1>1, <1>2, <1>3, <1>4, <1>5, <1>7, <1>8, <1>9, <1>10, <1>11, <1>12 DEF FlightInv

-----------------------------------------------------------------------------
(* Wait()                                                                  *)

LEMMA CountsKept ==
    ASSUME Inv, CoreKept, UNCHANGED <<manager, history>>
    PROVE  CountOK' /\ OutcomeOK'
<1>1. (Pending' <=> Pending) /\ (Flight' <=> Flight) /\ (CallbackFlies' <=> CallbackFlies)
  BY CoreKeeps
<1>2. CountOK'
  BY <1>1, TasksNamed DEF CountOK, EndsPlainly, Inv, CoreKept, IsCallbackEnabled
<1>3. \A p \in Threads : thread'[p].at \in Starting => thread'[p].at = thread[p].at
  BY DEF CoreKept, Begins
<1>4. OutcomeOK'
  BY <1>1, <1>3 DEF OutcomeOK, Inv, CoreKept, Starting
<1> QED
  BY <1>2, <1>4

LEMMA CoreKeptByMove ==
    ASSUME Inv, NEW c \in Clients, Others(c), UNCHANGED <<usage, queue>>,
           thread[c].at \notin Starting \cup Syncing, thread'[c].at \notin Starting \cup Syncing,
           request'.current = request.current, request'.async = request.async,
           \A k \in Tasks : /\ tasks'[k].status = tasks[k].status
                            /\ tasks'[k].stage = tasks[k].stage
                            /\ tasks'[k].runner = tasks[k].runner
                            /\ tasks'[k].failed = tasks[k].failed
                          /\ tasks'[k].failed = tasks[k].failed
    PROVE  CoreKept
BY OthersAre DEF CoreKept, Others, Begins

\* A client goes on in Wait(), and may lower the flag.
WaiterMoves(c) ==
    /\ CoreKept
    /\ UNCHANGED <<manager, history>>
    /\ thread[c].at \in Waiting /\ thread'[c].at \in Waiting
    /\ thread'[c].task = thread[c].task /\ thread'[c].timed = thread[c].timed
    /\ thread'[c].inInfer = thread[c].inInfer
    /\ Others(c)
    /\ request'.list = request.list
    /\ request'.busy => request.busy

LEMMA WaiterKeeps ==
    ASSUME Inv, NEW c \in Clients, WaiterMoves(c), TypeOK', GuardOK',
           thread'[c].at \in {"returning", "releasing", "checking"} /\ ~thread[c].timed
             => WaitIsOver(request.current),
           thread'[c].at = "checking" => ~request'.busy
    PROVE  Inv'
<1>1. CountOK' /\ OutcomeOK'
  BY CountsKept DEF WaiterMoves
<1>2. /\ FlightInv' /\ (Settled' <=> Settled) /\ (SomeBegins' <=> SomeBegins)
      /\ \A p \in Threads : Begins(p)' <=> Begins(p)
  BY CoreKeeps DEF WaiterMoves
<1>3. /\ UNCHANGED <<usage, queue, Rq, Cb, Users>>
      /\ UsageOK' <=> UsageOK
      /\ IsOneClient' <=> IsOneClient
      /\ IsPatient' <=> IsPatient
  BY UsageKept DEF WaiterMoves, CoreKept
<1>4. PlacesOK'
  BY <1>2, <1>3, Names DEF Inv, ClientInv, PlacesOK, WaiterMoves, Others, ClientPlaces
<1>5. EnabledOK'
  BY <1>2, <1>3, Names DEF Inv, ClientInv, EnabledOK, IsCallbackEnabled, WaiterMoves,
     Others, Waiting, Starting
<1>6. ListOK'
  BY <1>2, <1>3, Names DEF Inv, ClientInv, ListOK, WaiterMoves, CoreKept, Others, Waiting, Destroying,
     Alive, At
<1>7. PatienceOK'
  BY <1>2, <1>3, Names DEF Inv, ClientInv, PatienceOK, WaiterMoves, CoreKept, Others, Waiting, At
<1>8. WaitsOK'
  <2>1. /\ request'.current = request.current
        /\ tasks'[request'.current].status = tasks[request.current].status
    BY TasksNamed DEF WaiterMoves, CoreKept
  <2>2. ASSUME NEW d \in Clients, d # c
        PROVE  thread'[d] = thread[d] /\ ~At(d, "checking")
    <3>1. thread'[d] = thread[d]
      BY <2>2, Names DEF WaiterMoves, Others
    <3>2. c \in Users /\ IsOneClient
      BY DEF Inv, ClientInv, PlacesOK, WaiterMoves
    <3>3. At(d, "checking") => d \in Users
      BY DEF Inv, ClientInv, PlacesOK, Waiting, At
    <3> QED
      BY <2>2, <3>1, <3>2, <3>3, OneUser
  <2> QED
    BY <2>1, <2>2 DEF Inv, ClientInv, WaitsOK, WaiterMoves, WaitIsOver, At
<1> QED
  BY <1>1, <1>2, <1>3, <1>4, <1>5, <1>6, <1>7, <1>8 DEF Inv, ClientInv

\* When a client that waits without a timeout has seen the end, all is over.
LEMMA OverIsSettled ==
    ASSUME Inv, NEW c \in Clients, ~thread[c].timed,
           thread[c].at \in {"returning", "releasing", "checking"}
    PROVE  /\ request.current # Sync => Settled
           /\ ~Flight /\ ~SomeBegins
<1>1. IsOneClient /\ c \in Users /\ ~Begins(c) /\ WaitIsOver(request.current)
  BY DEF Inv, ClientInv, PlacesOK, WaitsOK, Waiting, Begins, Starting, Syncing
<1>2. ~SomeBegins
  BY <1>1, OneUser DEF SomeBegins
<1>3. \A p \in Threads : ~At(p, "occupying")
  BY <1>2 DEF SomeBegins, Begins, Starting, At
<1>4. ASSUME request.current # Sync PROVE Settled
  BY <1>1, <1>3, <1>4 DEF WaitIsOver, Inv, FlightInv, FinalIsSettled, StatusOK
<1>5. Settled => ~Flight
  BY DEF Settled, RequestRests, CallbackRests, Flight, RequestFlies, CallbackFlies
<1>6. request.current = Sync => ~Flight
  BY DEF Inv, FlightInv, CurrentOK
<1> QED
  BY <1>2, <1>4, <1>5, <1>6

LEMMA WaitBeginKeeps ==
    ASSUME Inv, NEW c \in Clients, NEW f \in BOOLEAN, WaitBegin(c, f)
    PROVE  Inv'
<1>1. /\ c \in Threads /\ request.current \in Tasks
      /\ thread[c].at \in {"mustWait", "idle"}
      /\ thread[c].at = "mustWait" => ~f
      /\ thread[c].at = "idle" => c \in Users /\ Alive /\ (f => "timed" \in usage)
                                  /\ (~IsCallbackEnabled \/ "wait" \in usage)
  BY Names, TasksNamed DEF WaitBegin, At
<1>2. /\ ThreadsOK' /\ Others(c)
      /\ thread'[c].at = "flagging" /\ thread'[c].task = request.current
      /\ thread'[c].timed = f /\ thread'[c].inInfer = thread[c].inInfer
      /\ UNCHANGED <<usage, request, tasks, manager, queue, history>>
  <2>1. ASSUME NEW k \in Tasks,
               thread' = [thread EXCEPT ![c].at = "flagging", ![c].task = k, ![c].timed = f,
                                        ![c].told = Nil]
        PROVE  /\ ThreadsOK' /\ Others(c)
               /\ thread'[c].at = "flagging" /\ thread'[c].task = k
               /\ thread'[c].timed = f /\ thread'[c].inInfer = thread[c].inInfer
    <3>1. /\ Others(c)
          /\ thread'[c].at = "flagging" /\ thread'[c].task = k
          /\ thread'[c].timed = f /\ thread'[c].inInfer = thread[c].inInfer
      BY <1>1, <2>1, TypeParts DEF ThreadsOK, ThreadStates, Others
    <3>2. [thread[c] EXCEPT !.at = "flagging", !.task = k, !.timed = f, !.told = Nil]
            \in ThreadStates
      BY <1>1, TypeParts, PlaceNames DEF ThreadsOK, ThreadStates
    <3>3. thread' = [thread EXCEPT ![c] = [thread[c] EXCEPT !.at = "flagging", !.task = k,
                                                            !.timed = f, !.told = Nil]]
      BY <2>1
    <3> QED
      BY <1>1, <3>1, <3>2, <3>3, TypeParts DEF ThreadsOK
  <2> QED
    BY <1>1, <2>1 DEF WaitBegin
<1>3. TypeOK'
  BY <1>2 DEF Inv, TypeOK, ThreadsOK
<1>4. CoreKept
  BY <1>1, <1>2, CoreKeptByMove DEF Starting, Syncing
<1>5. CountOK' /\ OutcomeOK'
  BY <1>2, <1>4, CountsKept
<1>6. /\ FlightInv' /\ (Settled' <=> Settled) /\ (SomeBegins' <=> SomeBegins)
      /\ (Pending' <=> Pending) /\ (Flight' <=> Flight)
      /\ \A p \in Threads : Begins(p)' <=> Begins(p)
  BY <1>4, CoreKeeps
<1>7. /\ UNCHANGED <<Users, Rq, Cb>>
      /\ UsageOK' <=> UsageOK
      /\ IsOneClient' <=> IsOneClient
      /\ IsPatient' <=> IsPatient
  BY <1>2, <1>4, UsageKept DEF CoreKept
<1>8. c \in Users /\ IsOneClient
  <2>1. CASE thread[c].at = "mustWait"
    BY <2>1 DEF Inv, ClientInv, PlacesOK
  <2>2. CASE thread[c].at = "idle"
    BY <1>1, <2>2 DEF IsOneClient, IsCallbackEnabled, Inv, ClientInv, UsageOK, Relayed, EnabledOK
  <2> QED
    BY <1>1, <2>1, <2>2
<1>9. PlacesOK'
  BY <1>2, <1>6, <1>7, <1>8, Names DEF Inv, ClientInv, PlacesOK, Others, ClientPlaces, Waiting
<1>10. EnabledOK'
  BY <1>1, <1>2, <1>7, <1>8, Names DEF Inv, ClientInv, EnabledOK, IsCallbackEnabled, Others,
     Waiting, Starting
<1>11. ListOK'
  BY <1>1, <1>2, <1>6, Names DEF Inv, ClientInv, ListOK, Others, Destroying, Alive, At
<1>12. WaitsOK'
  BY <1>2, Names DEF Inv, ClientInv, WaitsOK, Others, Waiting, WaitIsOver, At
<1>13. PatienceOK'
  BY <1>2, <1>6, <1>7, Names DEF Inv, ClientInv, PatienceOK, Others, At
<1>14. GuardOK'
  BY <1>2, <1>6, <1>7 DEF Inv, ClientInv, GuardOK
<1> QED
  BY <1>3, <1>5, <1>6, <1>7, <1>9, <1>10, <1>11, <1>12, <1>13, <1>14 DEF Inv, ClientInv

LEMMA WaitFlagKeeps == ASSUME Inv, NEW c \in Clients, WaitFlag(c) PROVE Inv'
<1>1. /\ c \in Threads /\ thread[c].task \in Tasks
      /\ thread[c].at = "flagging" /\ thread[c].task = request.current
  BY Names, TasksNamed DEF WaitFlag, Move, At, Waiting, Inv, ClientInv, WaitsOK
<1>2. /\ ThreadsOK' /\ Goes(c, "waiting")
      /\ UNCHANGED <<usage, request, manager, queue, history>>
  BY <1>1, GoToGoes, PlaceNames, TypeParts DEF WaitFlag, Move
<1>3. /\ TasksOK'
      /\ \A k \in Tasks : /\ tasks'[k].status = tasks[k].status
                          /\ tasks'[k].stage = tasks[k].stage
                          /\ tasks'[k].runner = tasks[k].runner
                          /\ tasks'[k].failed = tasks[k].failed
  BY <1>1, OnWaitSet, TypeParts DEF WaitFlag, OnlyTask
<1>4. TypeOK'
  BY <1>2, <1>3 DEF Inv, TypeOK, RequestOK, TasksOK, ThreadsOK
<1>5. WaiterMoves(c)
  BY <1>1, <1>2, <1>3, CoreKeptByMove DEF WaiterMoves, Goes, Waiting, Starting, Syncing
<1>6. thread'[c].at \in {"returning", "releasing", "checking"} /\ ~thread[c].timed
        => WaitIsOver(request.current)
  BY <1>2 DEF Goes
<1>7. GuardOK'
  BY <1>2, <1>5, CoreKeeps, UsageKept DEF Inv, ClientInv, GuardOK, WaiterMoves
<1> QED
  BY <1>2, <1>4, <1>5, <1>6, <1>7, WaiterKeeps DEF Goes

LEMMA WaitTestKeeps == ASSUME Inv, NEW c \in Clients, WaitTest(c) PROVE Inv'
<1>1. /\ c \in Threads /\ thread[c].task \in Tasks
      /\ thread[c].at = "waiting" /\ thread[c].task = request.current
  BY Names, TasksNamed DEF WaitTest, Move, At, Waiting, Inv, ClientInv, WaitsOK
<1>2. /\ ThreadsOK' /\ Goes(c, IF WaitIsOver(thread[c].task) THEN "returning" ELSE "asleep")
      /\ UNCHANGED <<usage, request, tasks, manager, queue, history>>
  BY <1>1, GoToGoes, PlaceNames, TypeParts DEF WaitTest, Move
<1>3. TypeOK'
  BY <1>2 DEF Inv, TypeOK, RequestOK, TasksOK, ThreadsOK
<1>4. WaiterMoves(c)
  BY <1>1, <1>2, CoreKeptByMove DEF WaiterMoves, Goes, Waiting, Starting, Syncing
<1>5. thread'[c].at \in {"returning", "releasing", "checking"} /\ ~thread[c].timed
        => WaitIsOver(request.current)
  BY <1>1, <1>2 DEF Goes
<1>6. GuardOK'
  BY <1>2, <1>4, CoreKeeps, UsageKept DEF Inv, ClientInv, GuardOK, WaiterMoves
<1> QED
  BY <1>2, <1>3, <1>4, <1>5, <1>6, WaiterKeeps DEF Goes

LEMMA WaitTimeoutKeeps == ASSUME Inv, NEW c \in Clients, WaitTimeout(c) PROVE Inv'
<1>1. c \in Threads /\ thread[c].at = "asleep" /\ thread[c].timed
  BY Names DEF WaitTimeout, Move, At
<1>2. /\ ThreadsOK' /\ Goes(c, "returning")
      /\ UNCHANGED <<usage, request, tasks, manager, queue, history>>
  BY <1>1, GoToGoes, PlaceNames, TypeParts DEF WaitTimeout, Move
<1>3. TypeOK'
  BY <1>2 DEF Inv, TypeOK, RequestOK, TasksOK, ThreadsOK
<1>4. WaiterMoves(c)
  BY <1>1, <1>2, CoreKeptByMove DEF WaiterMoves, Goes, Waiting, Starting, Syncing
<1>5. thread'[c].at \in {"returning", "releasing", "checking"} /\ ~thread[c].timed
        => WaitIsOver(request.current)
  BY <1>1
<1>6. GuardOK'
  BY <1>2, <1>4, CoreKeeps, UsageKept DEF Inv, ClientInv, GuardOK, WaiterMoves
<1> QED
  BY <1>2, <1>3, <1>4, <1>5, <1>6, WaiterKeeps DEF Goes

LEMMA WaitReturnKeeps == ASSUME Inv, NEW c \in Clients, WaitReturn(c) PROVE Inv'
<1>1. /\ c \in Threads /\ thread[c].task \in Tasks
      /\ thread[c].at = "returning" /\ thread[c].task = request.current
  BY Names, TasksNamed DEF WaitReturn, At, Waiting, Inv, ClientInv, WaitsOK
<1>2. /\ tasks[thread[c].task].status \in Statuses
      /\ thread' = [thread EXCEPT ![c].at = "releasing",
                                  ![c].told = tasks[thread[c].task].status]
      /\ UNCHANGED <<usage, request, manager, queue, history>>
  BY <1>1, TasksNamed DEF WaitReturn, TaskStates
<1>3. /\ ThreadsOK' /\ Others(c)
      /\ thread'[c].at = "releasing" /\ thread'[c].task = thread[c].task
      /\ thread'[c].timed = thread[c].timed /\ thread'[c].inInfer = thread[c].inInfer
  BY <1>1, <1>2, PlaceNames, TypeParts, ZenonT(60) DEF ThreadsOK, ThreadStates, Others
<1>4. /\ TasksOK'
      /\ \A k \in Tasks : /\ tasks'[k].status = tasks[k].status
                          /\ tasks'[k].stage = tasks[k].stage
                          /\ tasks'[k].runner = tasks[k].runner
                          /\ tasks'[k].failed = tasks[k].failed
  BY <1>1, OnWaitSet, TypeParts DEF WaitReturn, OnlyTask
<1>5. TypeOK'
  BY <1>2, <1>3, <1>4 DEF Inv, TypeOK, RequestOK, TasksOK, ThreadsOK
<1>6. WaiterMoves(c)
  BY <1>1, <1>2, <1>3, <1>4, CoreKeptByMove DEF WaiterMoves, Waiting, Starting, Syncing
<1>7. thread'[c].at \in {"returning", "releasing", "checking"} /\ ~thread[c].timed
        => WaitIsOver(request.current)
  BY <1>1 DEF Inv, ClientInv, WaitsOK
<1>8. GuardOK'
  BY <1>2, <1>6, CoreKeeps, UsageKept DEF Inv, ClientInv, GuardOK, WaiterMoves
<1> QED
  BY <1>3, <1>5, <1>6, <1>7, <1>8, WaiterKeeps

LEMMA WaitReleaseKeeps == ASSUME Inv, NEW c \in Clients, WaitRelease(c) PROVE Inv'
<1>1. /\ c \in Threads /\ thread[c].at = "releasing"
      /\ IsOneClient /\ ~SomeBegins /\ (~thread[c].timed => ~Flight)
      /\ thread[c].timed => "timed" \in usage /\ IsPatient
  <2>1. c \in Threads /\ thread[c].at = "releasing" /\ IsOneClient
        /\ (thread[c].timed => "timed" \in usage)
    BY Names DEF WaitRelease, Move, At, Inv, ClientInv, PlacesOK, EnabledOK, Waiting
  <2>2. c \in Users /\ ~Begins(c)
    BY <2>1 DEF Inv, ClientInv, PlacesOK, Waiting, Begins, Starting, Syncing
  <2>3. ~SomeBegins
    BY <2>1, <2>2, OneUser DEF SomeBegins
  <2> QED
    BY <2>1, <2>3, OverIsSettled DEF IsPatient, IsOneClient, OneClient
<1>2. /\ ThreadsOK' /\ Goes(c, "checking")
      /\ RequestOK' /\ request'.busy = FALSE /\ request'.async = request.async
      /\ request'.current = request.current /\ request'.list = request.list
      /\ UNCHANGED <<usage, tasks, manager, queue, history>>
  BY <1>1, GoToGoes, BusySet, PlaceNames, TypeParts DEF WaitRelease, Move
<1>3. TypeOK'
  BY <1>2 DEF Inv, TypeOK, RequestOK, TasksOK, ThreadsOK
<1>4. WaiterMoves(c)
  BY <1>1, <1>2, CoreKeptByMove DEF WaiterMoves, Goes, Waiting, Starting, Syncing
<1>5. thread'[c].at \in {"returning", "releasing", "checking"} /\ ~thread[c].timed
        => WaitIsOver(request.current)
  BY <1>1 DEF Inv, ClientInv, WaitsOK
<1>6. GuardOK'
  <2>1. ~thread[c].timed => ~Pending
    BY <1>1 DEF Pending, Flight, RequestFlies
  <2> QED
    BY <1>1, <1>2, <1>4, <2>1, CoreKeeps, UsageKept DEF Inv, ClientInv, GuardOK, WaiterMoves
<1> QED
  BY <1>2, <1>3, <1>4, <1>5, <1>6, WaiterKeeps DEF Goes

LEMMA WaitFinishKeeps == ASSUME Inv, NEW c \in Clients, WaitFinish(c) PROVE Inv'
<1>1. /\ c \in Threads /\ thread[c].at = "checking" /\ thread[c].task \in Tasks
      /\ IsOneClient /\ c \in Users
      /\ ~thread[c].timed => ~Flight /\ ~SomeBegins /\ (request.current # Sync => Settled)
      /\ thread[c].timed => ~thread[c].inInfer
      /\ ~request.busy
      /\ \A d \in Clients : d # c => ~thread[d].inInfer /\ ~At(d, "inInfer")
  <2>1. c \in Threads /\ thread[c].at = "checking" /\ IsOneClient /\ c \in Users
        /\ (thread[c].timed => ~thread[c].inInfer) /\ ~request.busy
    BY Names DEF WaitFinish, At, Inv, ClientInv, PlacesOK, EnabledOK, Waiting, WaitsOK
  <2>2. \A d \in Clients : d # c => ~thread[d].inInfer /\ ~At(d, "inInfer")
    BY <2>1, OneUser DEF Inv, ClientInv, PlacesOK, EnabledOK, At
  <2> QED
    BY <2>1, <2>2, OverIsSettled, TasksNamed DEF Waiting
<1>2. /\ ThreadsOK' /\ Others(c)
      /\ thread'[c].at = "idle" /\ thread'[c].timed = thread[c].timed
      /\ ~thread'[c].inInfer
  <2> DEFINE told == IF tasks[thread[c].task].failed THEN "THROWN" ELSE thread[c].told
             t == [thread[c] EXCEPT !.at = "idle", !.task = Nil, !.inInfer = FALSE, !.told = told]
  <2>1. thread' = [thread EXCEPT ![c] = t]
    BY <1>1, TypeParts DEF WaitFinish, ThreadsOK
  <2>2. thread[c] \in ThreadStates /\ told \in Statuses \cup {"THROWN", Nil}
    BY <1>1, TypeParts DEF ThreadsOK, ThreadStates
  <2>3. t \in ThreadStates /\ t.at = "idle" /\ t.timed = thread[c].timed /\ ~t.inInfer
    BY <2>2, PlaceNames DEF ThreadStates
  <2> HIDE DEF t
  <2> QED
    BY <1>1, <2>1, <2>3, TypeParts DEF ThreadsOK, Others
<1>3. /\ UNCHANGED <<usage, request, tasks, queue>>
      /\ manager' \in Managers
      /\ manager'.status = manager.status /\ manager'.failed = manager.failed
      /\ manager'.enabled <=> manager.enabled \/ (thread[c].inInfer /\ ~tasks[thread[c].task].failed)
  BY <1>1, TypeParts DEF WaitFinish, Inv, TypeOK, Managers, ThreadsOK, ThreadStates
<1>4. /\ history' \in [accepted : Nat, due : Nat, inferred : Nat, called : Nat,
                       outcome : {"OK", "ERROR"}, waited : BOOLEAN]
      /\ history'.accepted = history.accepted /\ history'.due = history.due
      /\ history'.inferred = history.inferred /\ history'.called = history.called
      /\ history'.outcome = history.outcome
      /\ history'.waited <=> history.waited \/ ~thread[c].timed
  BY DEF WaitFinish, Inv, TypeOK
<1>5. TypeOK'
  BY <1>2, <1>3, <1>4 DEF Inv, TypeOK, ThreadsOK
<1>6. CoreKept
  BY <1>1, <1>2, <1>3, CoreKeptByMove DEF Starting, Syncing
<1>7. /\ FlightInv' /\ (Settled' <=> Settled) /\ (SomeBegins' <=> SomeBegins)
      /\ (Pending' <=> Pending) /\ (Flight' <=> Flight) /\ (CallbackFlies' <=> CallbackFlies)
      /\ \A p \in Threads : Begins(p)' <=> Begins(p)
  BY <1>6, CoreKeeps
<1>8. /\ UNCHANGED <<Users, Rq, Cb>>
      /\ UsageOK' <=> UsageOK
      /\ IsOneClient' <=> IsOneClient
      /\ IsPatient' <=> IsPatient
  BY <1>3, <1>6, UsageKept DEF CoreKept
<1>9. PlacesOK'
  BY <1>1, <1>2, <1>3, <1>7, <1>8, Names DEF Inv, ClientInv, PlacesOK, Others, ClientPlaces, Waiting
<1>10. "callback" \in usage /\ thread[c].inInfer => ~tasks[thread[c].task].failed
  BY <1>1 DEF Inv, ClientInv, EnabledOK, IsOneClient, OneClient, OutcomeOK
<1>11. EnabledOK'
  BY <1>1, <1>2, <1>3, <1>8, <1>10, Names DEF Inv, ClientInv, EnabledOK, IsCallbackEnabled, Others,
     Waiting, Starting, At
<1>12. ListOK'
  BY <1>1, <1>2, <1>3, <1>7, Names DEF Inv, ClientInv, ListOK, Others, Destroying, Alive, At
<1>13. WaitsOK'
  BY <1>2, <1>3, Names DEF Inv, ClientInv, WaitsOK, Others, Waiting, WaitIsOver, At
<1>14. PatienceOK'
  BY <1>1, <1>2, <1>3, <1>4, <1>7, <1>8, Names DEF Inv, ClientInv, PatienceOK, Others, At
<1>15. GuardOK'
  BY <1>3, <1>7, <1>8 DEF Inv, ClientInv, GuardOK
<1>16. CountOK'
  <2>1. EndsPlainly' <=> EndsPlainly
    BY <1>3, <1>8 DEF EndsPlainly
  <2>2. thread[c].inInfer => ~EndsPlainly
    BY <1>1 DEF EndsPlainly, Flight, RequestFlies
  <2> QED
    BY <1>1, <1>3, <1>4, <1>7, <1>8, <1>10, <2>1, <2>2 DEF Inv, CountOK, IsCallbackEnabled,
       ClientInv, EnabledOK
<1>17. OutcomeOK'
  BY <1>1, <1>2, <1>3, <1>4, <1>7, <1>8, Names DEF Inv, OutcomeOK, Others
<1> QED
  BY <1>5, <1>7, <1>8, <1>9, <1>11, <1>12, <1>13, <1>14, <1>15, <1>16, <1>17 DEF Inv, ClientInv

-----------------------------------------------------------------------------
(* Infer() of the plugins                                                  *)

LEMMA PluginInferKeeps == ASSUME Inv, NEW c \in Clients, PluginInfer(c) PROVE Inv'
<1>1. /\ c \in Threads /\ c \in Users /\ "plugin" \in usage /\ thread[c].at = "idle"
      /\ Alive /\ IsOneClient
      /\ IsPatient => history.waited /\ Settled
      /\ \A d \in Clients : d # c => ~thread[d].inInfer /\ ~At(d, "inInfer")
  <2>1. c \in Threads /\ c \in Users /\ "plugin" \in usage /\ thread[c].at = "idle" /\ Alive
        /\ ("impatient" \in usage \/ Patient)
    BY Names DEF PluginInfer, MayStart, At
  <2>2. IsOneClient
    BY <2>1 DEF IsOneClient, Inv, ClientInv, UsageOK, Relayed
  <2>3. IsPatient => history.waited
    BY <2>1, <2>2 DEF IsPatient, IsOneClient, OneClient, Patient, IsCallbackEnabled
  <2>4. \A d \in Clients : d # c => ~thread[d].inInfer /\ ~At(d, "inInfer")
    BY <2>1, <2>2, OneUser DEF Inv, ClientInv, PlacesOK, EnabledOK, At
  <2> QED
    BY <2>1, <2>2, <2>3, <2>4 DEF Inv, ClientInv, PatienceOK
<1>2. /\ ThreadsOK' /\ Others(c)
      /\ thread'[c].at = "inInfer" /\ thread'[c].inInfer
      /\ thread'[c].timed = thread[c].timed /\ thread'[c].task = thread[c].task
  BY <1>1, PlaceNames, TypeParts, ZenonT(60) DEF PluginInfer, ThreadsOK, ThreadStates, Others
<1>3. /\ UNCHANGED <<usage, request, tasks, queue, history>>
      /\ manager' \in Managers
      /\ manager'.status = manager.status /\ manager'.failed = manager.failed
      /\ ~manager'.enabled
  BY DEF PluginInfer, Inv, TypeOK, Managers
<1>4. TypeOK'
  BY <1>2, <1>3 DEF Inv, TypeOK, ThreadsOK
<1>5. CoreKept
  BY <1>1, <1>2, <1>3, CoreKeptByMove DEF Starting, Syncing
<1>6. /\ FlightInv' /\ (Settled' <=> Settled) /\ (SomeBegins' <=> SomeBegins)
      /\ (Pending' <=> Pending) /\ (Flight' <=> Flight) /\ (CallbackFlies' <=> CallbackFlies)
      /\ \A p \in Threads : Begins(p)' <=> Begins(p)
  BY <1>5, CoreKeeps
<1>7. /\ UNCHANGED <<Users, Rq, Cb>>
      /\ UsageOK' <=> UsageOK
      /\ IsOneClient' <=> IsOneClient
      /\ IsPatient' <=> IsPatient
  BY <1>3, <1>5, UsageKept DEF CoreKept
<1>8. "callback" \in usage => Settled /\ ~Flight
  <2>1. "callback" \in usage => IsPatient
    BY <1>1 DEF IsPatient, IsOneClient, OneClient
  <2> QED
    BY <1>1, <2>1 DEF Settled, RequestRests, CallbackRests, Flight, RequestFlies, CallbackFlies
<1>9. PlacesOK'
  BY <1>1, <1>2, <1>3, <1>6, <1>7, Names DEF Inv, ClientInv, PlacesOK, Others, ClientPlaces,
     Waiting
<1>10. EnabledOK'
  BY <1>1, <1>2, <1>3, <1>7, <1>8, Names DEF Inv, ClientInv, EnabledOK, PlacesOK,
     IsCallbackEnabled, Others, Settled, RequestRests, CallbackRests, Waiting
<1>11. ListOK'
  BY <1>1, <1>2, <1>3, <1>6, Names DEF Inv, ClientInv, ListOK, Others, Destroying, Alive, At
<1>12. WaitsOK'
  BY <1>2, <1>3, Names DEF Inv, ClientInv, WaitsOK, Others, Waiting, WaitIsOver, At
<1>13. PatienceOK'
  BY <1>1, <1>3, <1>6, <1>7 DEF Inv, ClientInv, PatienceOK
<1>14. GuardOK'
  BY <1>3, <1>6, <1>7 DEF Inv, ClientInv, GuardOK
<1>15. CountOK'
  BY <1>3, <1>6, <1>7, <1>8 DEF Inv, CountOK, EndsPlainly,
     IsCallbackEnabled, Settled, RequestRests, CallbackRests
<1>16. OutcomeOK'
  BY <1>1, <1>2, <1>3, <1>6, <1>7, Names DEF Inv, OutcomeOK, Others
<1> QED
  BY <1>4, <1>6, <1>7, <1>9, <1>10, <1>11, <1>12, <1>13, <1>14, <1>15, <1>16 DEF Inv, ClientInv

LEMMA PluginInferBusyKeeps == ASSUME Inv, NEW c \in Clients, PluginInferBusy(c) PROVE Inv'
<1>1. /\ c \in Threads /\ c \in Users /\ thread[c].at = "inInfer"
      /\ request.busy /\ IsOneClient
      /\ "callback" \notin usage
  <2>1. c \in Threads /\ c \in Users /\ thread[c].at = "inInfer" /\ request.busy
        /\ "plugin" \in usage
    BY Names DEF PluginInferBusy, At, Inv, ClientInv, PlacesOK, EnabledOK
  <2>2. IsOneClient /\ ~Begins(c)
    BY <2>1 DEF IsOneClient, Inv, ClientInv, UsageOK, Relayed, Begins, Starting, Syncing
  <2>3. ~SomeBegins
    BY <2>1, <2>2, OneUser DEF SomeBegins
  <2>4. ~IsPatient
    BY <2>1, <2>3 DEF Inv, ClientInv, PatienceOK, At
  <2> QED
    BY <2>1, <2>2, <2>4 DEF IsPatient, IsOneClient, OneClient
<1>2. /\ ThreadsOK' /\ Others(c)
      /\ thread'[c].at = "idle" /\ ~thread'[c].inInfer
      /\ thread'[c].timed = thread[c].timed /\ thread'[c].task = thread[c].task
      /\ UNCHANGED <<usage, request, tasks, manager, queue, history>>
  BY <1>1, PlaceNames, TypeParts, ZenonT(60) DEF PluginInferBusy, ThreadsOK, ThreadStates, Others
<1>3. TypeOK'
  BY <1>2 DEF Inv, TypeOK, ThreadsOK
<1>4. CoreKept
  BY <1>1, <1>2, CoreKeptByMove DEF Starting, Syncing
<1>5. CountOK' /\ OutcomeOK'
  BY <1>2, <1>4, CountsKept
<1>6. /\ FlightInv' /\ (Settled' <=> Settled) /\ (SomeBegins' <=> SomeBegins)
      /\ (Pending' <=> Pending) /\ (Flight' <=> Flight)
      /\ \A p \in Threads : Begins(p)' <=> Begins(p)
  BY <1>4, CoreKeeps
<1>7. /\ UNCHANGED <<Users, Rq, Cb>>
      /\ UsageOK' <=> UsageOK
      /\ IsOneClient' <=> IsOneClient
      /\ IsPatient' <=> IsPatient
  BY <1>2, <1>4, UsageKept DEF CoreKept
<1>8. PlacesOK'
  BY <1>1, <1>2, <1>6, <1>7, Names DEF Inv, ClientInv, PlacesOK, Others, ClientPlaces, Waiting
<1>9. EnabledOK'
  BY <1>1, <1>2, <1>7, Names DEF Inv, ClientInv, EnabledOK, IsCallbackEnabled, Others, Waiting
<1>10. ListOK'
  BY <1>1, <1>2, <1>6, Names DEF Inv, ClientInv, ListOK, Others, Destroying, Alive, At
<1>11. WaitsOK'
  BY <1>2, Names DEF Inv, ClientInv, WaitsOK, Others, Waiting, WaitIsOver, At
<1>12. PatienceOK'
  BY <1>2, <1>6, <1>7, Names DEF Inv, ClientInv, PatienceOK, Others, At
<1>13. GuardOK'
  BY <1>2, <1>6, <1>7 DEF Inv, ClientInv, GuardOK
<1> QED
  BY <1>3, <1>5, <1>6, <1>7, <1>8, <1>9, <1>10, <1>11, <1>12, <1>13 DEF Inv, ClientInv

-----------------------------------------------------------------------------
(* The destructor                                                          *)

\* The client that destroys the request goes on.
DestroyerMoves(c) ==
    /\ CoreKept
    /\ UNCHANGED <<manager, history>>
    /\ thread[c].at \in {"idle"} \cup Destroying /\ thread'[c].at \in Destroying
    /\ thread'[c].timed = thread[c].timed /\ thread'[c].inInfer = thread[c].inInfer
    /\ Others(c)
    /\ request'.busy = request.busy

LEMMA DestroyerKeeps ==
    ASSUME Inv, NEW c \in Clients, DestroyerMoves(c), TypeOK', ListOK'
    PROVE  Inv'
<1>1. CountOK' /\ OutcomeOK'
  BY CountsKept DEF DestroyerMoves
<1>2. /\ FlightInv' /\ (Settled' <=> Settled) /\ (SomeBegins' <=> SomeBegins)
      /\ (Pending' <=> Pending) /\ (Flight' <=> Flight)
      /\ \A p \in Threads : Begins(p)' <=> Begins(p)
  BY CoreKeeps DEF DestroyerMoves
<1>3. /\ UNCHANGED <<usage, queue, Rq, Cb, Users>>
      /\ UsageOK' <=> UsageOK
      /\ IsOneClient' <=> IsOneClient
      /\ IsPatient' <=> IsPatient
  BY UsageKept DEF DestroyerMoves, CoreKept
<1>4. PlacesOK'
  BY <1>2, <1>3, Names DEF Inv, ClientInv, PlacesOK, DestroyerMoves, Others, ClientPlaces,
     Waiting, Destroying
<1>5. EnabledOK'
  BY <1>2, <1>3, Names DEF Inv, ClientInv, EnabledOK, IsCallbackEnabled, DestroyerMoves,
     Others, Waiting, Starting, Destroying
<1>6. WaitsOK'
  BY <1>2, <1>3, Names, TasksNamed DEF Inv, ClientInv, WaitsOK, DestroyerMoves, CoreKept, Others,
     Waiting, Destroying, WaitIsOver, At
<1>7. PatienceOK'
  BY <1>2, <1>3, Names DEF Inv, ClientInv, PatienceOK, DestroyerMoves, CoreKept, Others, Destroying, At
<1>8. GuardOK'
  BY <1>2, <1>3 DEF Inv, ClientInv, GuardOK, DestroyerMoves
<1> QED
  BY <1>1, <1>2, <1>3, <1>4, <1>5, <1>6, <1>7, <1>8 DEF Inv, ClientInv

LEMMA DestroyKeeps == ASSUME Inv, NEW c \in Clients, Destroy(c) PROVE Inv'
<1>1. /\ c \in Threads /\ \A d \in Clients : thread[d].at = "idle"
      /\ ~SomeBegins
  BY Names DEF Destroy, At, SomeBegins, Begins, Starting, Syncing, Inv, ClientInv, PlacesOK,
     RequestPlaces, CallbackPlaces, Failing, CalledBack, Rq, Cb
<1>2. /\ ThreadsOK' /\ Goes(c, "sweeping")
      /\ UNCHANGED <<usage, request, tasks, manager, queue, history>>
  BY <1>1, GoToGoes, PlaceNames, TypeParts DEF Destroy
<1>3. TypeOK'
  BY <1>2 DEF Inv, TypeOK, ThreadsOK
<1>4. DestroyerMoves(c)
  BY <1>1, <1>2, CoreKeptByMove DEF DestroyerMoves, Goes, Destroying, Starting, Syncing
<1>5. ~SomeBegins'
  BY <1>1, <1>4, CoreKeeps DEF DestroyerMoves
<1>6. ListOK'
  BY <1>1, <1>2, <1>5, Names DEF Inv, ClientInv, ListOK, Goes, Others, Destroying, Alive, At
<1> QED
  BY <1>3, <1>4, <1>6, DestroyerKeeps

LEMMA SweepKeeps == ASSUME Inv, NEW c \in Clients, Sweep(c) PROVE Inv'
<1> DEFINE kept == {k \in request.list : KeptInList(k)}
<1>1. /\ c \in Threads /\ thread[c].at = "sweeping" /\ ~SomeBegins
      /\ \A d \in Clients : d # c => thread[d].at = "idle"
      /\ request.list \subseteq Slots
  BY Names DEF Sweep, At, Destroying, Inv, ClientInv, ListOK, TypeOK, Requests
<1>2. /\ RequestOK' /\ request'.list = kept /\ request'.busy = request.busy
      /\ request'.current = request.current /\ request'.async = request.async
      /\ UNCHANGED <<usage, manager, queue, history>>
  BY <1>1, TypeParts DEF Sweep, RequestOK, Requests
<1>3. /\ ThreadsOK' /\ TasksOK' /\ Others(c)
      /\ thread'[c].timed = thread[c].timed /\ thread'[c].inInfer = thread[c].inInfer
      /\ \/ kept = {} /\ thread'[c].at = "gone"
         \/ thread'[c].at = "awaiting" /\ thread'[c].task \in Slots
      /\ \A k \in Tasks : /\ tasks'[k].status = tasks[k].status
                          /\ tasks'[k].stage = tasks[k].stage
                          /\ tasks'[k].runner = tasks[k].runner
                          /\ tasks'[k].failed = tasks[k].failed
  <2>1. CASE kept = {} /\ GoTo(c, "gone") /\ UNCHANGED tasks
    BY <1>1, <2>1, GoToGoes, PlaceNames, TypeParts DEF Goes, TasksOK
  <2>2. ASSUME NEW k \in Slots,
               thread' = [thread EXCEPT ![c].at = "awaiting", ![c].task = k],
               tasks' = [tasks EXCEPT ![k].onWait = TRUE]
        PROVE  <1>3!:
    <3>1. k \in Tasks
      BY Names
    <3>2. /\ ThreadsOK' /\ Others(c) /\ thread'[c].at = "awaiting" /\ thread'[c].task = k
          /\ thread'[c].timed = thread[c].timed /\ thread'[c].inInfer = thread[c].inInfer
      BY <1>1, <2>2, <3>1, PlaceNames, TypeParts, ZenonT(60) DEF ThreadsOK, ThreadStates, Others
    <3>3. /\ TasksOK' /\ OnlyTask(k)
          /\ tasks'[k].stage = tasks[k].stage /\ tasks'[k].status = tasks[k].status
          /\ tasks'[k].failed = tasks[k].failed /\ tasks'[k].runner = tasks[k].runner
      BY <2>2, <3>1, OnWaitSet, TypeParts
    <3> QED
      BY <3>1, <3>2, <3>3 DEF OnlyTask
  <2> QED
    BY <2>1, <2>2 DEF Sweep
<1>4. TypeOK'
  BY <1>2, <1>3 DEF Inv, TypeOK, ThreadsOK, TasksOK, RequestOK
<1>5. DestroyerMoves(c)
  BY <1>1, <1>2, <1>3, CoreKeptByMove DEF DestroyerMoves, Destroying, Starting, Syncing
<1>6. ~SomeBegins'
  BY <1>1, <1>5, CoreKeeps DEF DestroyerMoves
<1>7. ListOK'
  <2>1. \A k \in Slots : tasks'[k].status \notin Final \cup {"INITIAL"} => k \in request'.list
    BY <1>2, <1>3, Names DEF Inv, ClientInv, ListOK, KeptInList
  <2>2. ~Alive'
    BY <1>3 DEF Alive
  <2>3. \A d \in Clients : d # c => thread'[d].at = "idle"
    BY <1>1, <1>3, Names DEF Others
  <2> QED
    BY <1>2, <1>3, <1>6, <2>1, <2>2, <2>3 DEF ListOK, Destroying, At
<1> QED
  BY <1>4, <1>5, <1>7, DestroyerKeeps

LEMMA AwaitKeeps == ASSUME Inv, NEW c \in Clients, Await(c) PROVE Inv'
<1>1. /\ c \in Threads /\ thread[c].at = "awaiting" /\ ~SomeBegins
      /\ thread[c].task \in Slots /\ thread[c].task \in Tasks
      /\ \A d \in Clients : d # c => thread[d].at = "idle"
  BY Names, TasksNamed DEF Await, At, Destroying, Inv, ClientInv, ListOK
<1>2. UNCHANGED <<usage, request, manager, queue, history>>
  BY DEF Await
<1>3. /\ ThreadsOK' /\ TasksOK' /\ Others(c)
      /\ thread'[c].timed = thread[c].timed /\ thread'[c].inInfer = thread[c].inInfer
      /\ \/ thread'[c].at = "sweeping"
         \/ thread'[c].at = "drowsing" /\ thread'[c].task = thread[c].task
      /\ \A k \in Tasks : /\ tasks'[k].status = tasks[k].status
                          /\ tasks'[k].stage = tasks[k].stage
                          /\ tasks'[k].runner = tasks[k].runner
                          /\ tasks'[k].failed = tasks[k].failed
  <2>1. CASE WaitIsOver(thread[c].task)
    <3>1. /\ tasks' = [tasks EXCEPT ![thread[c].task].onWait = FALSE]
          /\ thread' = [thread EXCEPT ![c].at = "sweeping", ![c].task = Nil]
      BY <2>1 DEF Await
    <3>2. /\ ThreadsOK' /\ Others(c) /\ thread'[c].at = "sweeping"
          /\ thread'[c].timed = thread[c].timed /\ thread'[c].inInfer = thread[c].inInfer
      BY <1>1, <3>1, PlaceNames, TypeParts, ZenonT(60) DEF ThreadsOK, ThreadStates, Others
    <3> QED
      BY <1>1, <3>1, <3>2, OnWaitSet, TypeParts DEF OnlyTask
  <2>2. CASE ~WaitIsOver(thread[c].task)
    BY <1>1, <2>2, GoToGoes, PlaceNames, TypeParts DEF Await, Goes, TasksOK
  <2> QED
    BY <2>1, <2>2
<1>4. TypeOK'
  BY <1>2, <1>3 DEF Inv, TypeOK, ThreadsOK, TasksOK
<1>5. DestroyerMoves(c)
  BY <1>1, <1>2, <1>3, CoreKeptByMove DEF DestroyerMoves, Destroying, Starting, Syncing
<1>6. ~SomeBegins'
  BY <1>1, <1>5, CoreKeeps DEF DestroyerMoves
<1>7. ListOK'
  <2>1. ~Alive'
    BY <1>3 DEF Alive
  <2>2. \A d \in Clients : d # c => thread'[d].at = "idle"
    BY <1>1, <1>3, Names DEF Others
  <2> QED
    BY <1>1, <1>2, <1>3, <1>6, <2>1, <2>2, Names DEF Inv, ClientInv, ListOK, Destroying, At
<1> QED
  BY <1>4, <1>5, <1>7, DestroyerKeeps

-----------------------------------------------------------------------------
(* StartAsync() and the default Infer(), while nothing flies               *)

\* What the executors hold when nothing flies: a run that ends or throws.
LEMMA RequestIdles ==
    ASSUME Inv, ~Flight
    PROVE  /\ queue["request"] = <<>> /\ queue["callback"] = <<>>
           /\ Rq.at \in {"idle", "notifying", "failed", "throwing"}
           /\ Rq.at \in {"failed", "throwing"} => "callback" \notin usage
                                                   /\ tasks[Rq.task].status = "POSTPONED"
           /\ Cb.at \in {"idle", "notifying", "lowered", "ending", "settling"} \cup Failing
                          \cup CalledBack
BY DEF Flight, RequestFlies, CallbackFlies, Inv, FlightInv, ClientInv, PlacesOK, RequestPlaces,
   CallbackPlaces, RequestStatusOK, Failing, Is

\* The thread p goes on with a start, or with the default Infer().
StarterMoves(p) ==
    /\ ~Flight /\ Alive
    /\ \A q \in Threads : q # p => ~Begins(q)
    /\ UNCHANGED <<usage, queue, history>>
    /\ Others(p) /\ thread'[p].task = thread[p].task /\ thread'[p].copy = thread[p].copy
    /\ thread'[p].timed = thread[p].timed
    /\ \/ /\ p \in Clients /\ p \in Users
          /\ thread[p].at \in {"idle", "inInfer"} \cup Starting \cup Syncing
          /\ thread'[p].at \in {"idle"} \cup Starting \cup Syncing
       \/ /\ p = "callback" /\ "restart" \in usage
          /\ Cb.at \in {"inCallback"} \cup Starting
          /\ thread'[p].at \in {"calledBack"} \cup Starting
    /\ Begins(p)' <=> request'.busy
    /\ \A k \in Tasks : tasks'[k].runner = tasks[k].runner
    /\ \A k \in Slots : tasks[k].status = "POSTPONED" =>
          tasks'[k].status = "POSTPONED" /\ tasks'[k].stage = tasks[k].stage

\* What the move of a starter leaves as it is.
LEMMA StarterFacts ==
    ASSUME Inv, NEW p \in Threads, StarterMoves(p)
    PROVE  /\ Rq' = Rq /\ ~Flight' /\ ~Pending' /\ ~Pending
           /\ \A q \in Threads : q # p => ~Begins(q)'
           /\ SomeBegins' <=> Begins(p)'
           /\ \/ p \in Clients /\ Cb' = Cb
              \/ /\ p = "callback" /\ ~IsOneClient
                 /\ Cb.at \in {"inCallback"} \cup Starting
                 /\ Cb'.at \in {"calledBack"} \cup Starting
                 /\ Cb'.task = Cb.task /\ Cb'.copy = Cb.copy
           /\ UNCHANGED <<usage, queue, history, Users>>
           /\ UsageOK' <=> UsageOK
           /\ IsOneClient' <=> IsOneClient
           /\ IsPatient' <=> IsPatient
<1> USE DEF StarterMoves
<1>1. /\ Rq' = Rq
      /\ \/ p \in Clients /\ Cb' = Cb
         \/ /\ p = "callback" /\ ~IsOneClient
            /\ Cb.at \in {"inCallback"} \cup Starting
            /\ Cb'.at \in {"calledBack"} \cup Starting
            /\ Cb'.task = Cb.task /\ Cb'.copy = Cb.copy
  BY OthersAre DEF IsOneClient, OneClient, Rq, Cb
<1>2. \A q \in Threads : q # p => ~Begins(q)'
  BY DEF Others, Begins
<1>3. Rq.at \in {"idle", "notifying", "failed", "throwing"} /\ (Rq.at = "failed" => "callback" \notin usage)
      /\ queue["request"] = <<>> /\ queue["callback"] = <<>>
  BY RequestIdles
<1>4. ~RequestFlies' /\ ~Pending' /\ ~Pending
  BY <1>1, <1>3 DEF RequestFlies, Pending
<1>5. ~CallbackFlies'
  BY <1>1 DEF Flight, CallbackFlies, Starting
<1> QED
  BY <1>1, <1>2, <1>3, <1>4, <1>5, UsageKept DEF Flight, SomeBegins

LEMMA StarterKeeps ==
    ASSUME Inv, NEW p \in Threads, StarterMoves(p)
    PROVE  /\ RunnersOK' /\ OneAtATime' /\ RequestStatusOK' /\ CallbackStatusOK'
           /\ AfterLowering' /\ UsageOK' /\ PlacesOK' /\ WaitsOK' /\ GuardOK'
<1>1. RunnersOK'
  BY StarterFacts, OthersAre, Names, TasksNamed DEF Inv, FlightInv, RunnersOK, StarterMoves,
     Starting, Rq, Cb
<1>2. OneAtATime'
  BY StarterFacts, RequestIdles DEF OneAtATime, StarterMoves, Flight
<1>3. RequestStatusOK'
  BY StarterFacts, RequestIdles, TasksNamed DEF Inv, FlightInv, RequestStatusOK, StarterMoves, Is
<1>4. CallbackStatusOK'
  BY StarterFacts, RequestIdles, TasksNamed DEF Inv, FlightInv, CallbackStatusOK, StarterMoves,
     CalledBack, Starting, Failing, Is
<1>5. AfterLowering'
  BY StarterFacts DEF Inv, FlightInv, AfterLowering, RequestRests
<1>6. PlacesOK'
  BY StarterFacts, Names DEF Inv, ClientInv, PlacesOK, StarterMoves, Others, Begins, ClientPlaces,
     CallbackPlaces, CalledBack, Starting, Syncing, Waiting, Rq, Cb
<1>7. WaitsOK'
  <2>1. \A c \in Clients : thread'[c].at \notin Waiting
    <3> SUFFICES ASSUME NEW c \in Clients, thread'[c].at \in Waiting PROVE FALSE
      OBVIOUS
    <3>1. c # p /\ thread[c] = thread'[c]
      BY Names DEF StarterMoves, Others, Waiting, Starting, Syncing
    <3>2. IsOneClient /\ c \in Users
      BY <3>1 DEF Inv, ClientInv, PlacesOK
    <3>3. p \in Users
      BY <3>2 DEF StarterMoves, IsOneClient, OneClient
    <3> QED
      BY <3>1, <3>2, <3>3, OneUser
  <2> QED
    BY <2>1 DEF WaitsOK, Waiting, At
<1>8. GuardOK'
  BY StarterFacts DEF GuardOK, StarterMoves
<1> QED
  BY <1>1, <1>2, <1>3, <1>4, <1>5, <1>6, <1>7, <1>8, StarterFacts DEF Inv, ClientInv

\* A patient client begins only when all is settled.
LEMMA StarterIsPatient ==
    ASSUME Inv, NEW p \in Threads, StarterMoves(p), IsPatient => history.waited
    PROVE  PatienceOK'
<1>1. ASSUME IsPatient PROVE Settled'
  BY <1>1, StarterFacts DEF IsPatient, Inv, ClientInv, PatienceOK, Settled, RequestRests, CallbackRests
<1> QED
  BY <1>1, StarterFacts DEF PatienceOK, StarterMoves

LEMMA StarterCounts ==
    ASSUME Inv, NEW p \in Threads, StarterMoves(p), manager'.enabled = manager.enabled
    PROVE  CountOK'
BY StarterFacts DEF Inv, CountOK, EndsPlainly, IsCallbackEnabled, StarterMoves, Starting, Flight,
   RequestFlies

LEMMA StarterEnabled ==
    ASSUME Inv, NEW p \in Threads, StarterMoves(p), manager'.enabled = manager.enabled,
           \/ thread'[p].inInfer = thread[p].inInfer
           \/ "callback" \notin usage /\ ~thread'[p].inInfer,
           thread'[p].inInfer => thread'[p].at \in Starting
    PROVE  EnabledOK'
BY StarterFacts, Names DEF Inv, ClientInv, EnabledOK, PlacesOK, IsCallbackEnabled, StarterMoves, Others, Starting,
   Syncing, Waiting, Rq, Cb

LEMMA StarterList ==
    ASSUME Inv, NEW p \in Threads, StarterMoves(p),
           \A k \in Slots : k \notin request'.list => tasks'[k].status = "INITIAL",
           request'.async # Nil => request'.async \in request'.list
    PROVE  ListOK'
<1>1. \A c \in Clients : thread'[c].at \notin Destroying
  BY Names DEF StarterMoves, Alive, Others, Starting, Syncing, Destroying
<1> QED
  BY <1>1 DEF ListOK, Destroying, At

LEMMA StarterOutcome ==
    ASSUME Inv, NEW p \in Threads, StarterMoves(p), UNCHANGED manager,
           \A k \in Tasks : tasks'[k].failed => tasks[k].failed \/ "fail" \in usage,
           thread'[p].at \in {"picking", "preparing", "occupying", "pushing"} =>
              thread[p].at \in {"picking", "preparing", "occupying", "pushing"}
    PROVE  OutcomeOK'
BY StarterFacts, RequestIdles DEF Inv, OutcomeOK, StarterMoves, Others, Starting, Failing, Flight

\* The tasks of the list stay, and p has not selected one.
LEMMA StarterCore ==
    ASSUME Inv, NEW p \in Threads, StarterMoves(p),
           \A k \in Slots : tasks'[k].status = tasks[k].status /\ tasks'[k].stage = tasks[k].stage,
           request'.current \in {request.current, Sync}, request'.async = request.async,
           request'.list = request.list,
           thread[p].at \notin {"preparing", "occupying", "pushing"},
           thread'[p].at \notin {"preparing", "occupying", "pushing"}
    PROVE  CurrentOK' /\ StatusOK' /\ FinalIsSettled' /\ ListOK'
<1>1. \A q \in Threads : /\ thread[q].at \notin {"preparing", "occupying", "pushing"}
                         /\ thread'[q].at \notin {"preparing", "occupying", "pushing"}
  BY DEF StarterMoves, Others, Begins, Starting
<1>2. ListOK'
  BY StarterList DEF StarterMoves, Inv, ClientInv, ListOK
<1>3. CurrentOK'
  BY <1>1, StarterFacts, RequestIdles, Names, TasksNamed DEF Inv, FlightInv, CurrentOK, StarterMoves,
     Flight, Executors, At
<1>4. StatusOK'
  BY <1>1, StarterFacts, RequestIdles, Names, TasksNamed DEF Inv, FlightInv, StatusOK, StarterMoves, Is, At
<1>5. FinalIsSettled'
  BY <1>1, StarterFacts, Names, TasksNamed DEF Inv, FlightInv, FinalIsSettled, Settled,
     RequestRests, CallbackRests, StarterMoves, At
<1> QED
  BY <1>2, <1>3, <1>4, <1>5

\* A thread that has begun is the only one, and nothing flies.
LEMMA Beginner ==
    ASSUME Inv, NEW p \in Threads, Begins(p)
    PROVE  /\ ~Flight /\ Alive /\ request.busy
           /\ \A q \in Threads : q # p => ~Begins(q)
           /\ IsPatient => history.waited
           /\ \/ p \in Clients /\ p \in Users
              \/ /\ p = "callback" /\ "restart" \in usage /\ Cb.at \in Starting
                 /\ p \notin Clients
<1>1. SomeBegins
  BY DEF SomeBegins
<1>2. Alive
  BY <1>1 DEF Inv, ClientInv, ListOK, Alive, Destroying
<1>3. p # "request"
  BY DEF Begins, Inv, ClientInv, PlacesOK, RequestPlaces, Failing, Starting, Syncing, Rq
<1>4. p = "callback" => "restart" \in usage /\ Cb.at \in Starting
  BY DEF Begins, Inv, ClientInv, PlacesOK, CallbackPlaces, CalledBack, Failing, Syncing, Starting, Cb
<1> QED
  BY <1>1, <1>2, <1>3, <1>4, Names DEF Inv, FlightInv, OneAtATime, ClientInv, PlacesOK, PatienceOK,
     GuardOK

\* A start begins when the flag is down and nothing flies.
LEMMA NothingFlies ==
    ASSUME Inv, NEW p \in Threads, MayStart(p), ~request.busy,
           thread[p].at \in {"idle", "inInfer"} => p \in Clients
    PROVE  /\ ~Flight /\ ~SomeBegins
           /\ IsPatient => history.waited
<1>1. ~SomeBegins
  BY DEF Inv, ClientInv, GuardOK
<1>2. IsPatient => history.waited
  BY Names DEF MayStart, IsPatient, IsOneClient, OneClient, Inv, ClientInv, PatienceOK, Patient,
     IsCallbackEnabled, At
<1>3. IsPatient => Settled
  BY <1>2 DEF Inv, ClientInv, PatienceOK
<1>4. ~Flight
  BY <1>3 DEF Inv, ClientInv, GuardOK, Settled, RequestRests, CallbackRests, Flight, RequestFlies,
     CallbackFlies
<1> QED
  BY <1>1, <1>2, <1>4

LEMMA StartAsyncKeeps == ASSUME Inv, NEW p \in Threads, StartAsync(p) PROVE Inv'
<1>1. /\ ~Flight /\ ~SomeBegins /\ Alive
      /\ \/ p \in Clients /\ p \in Users /\ thread[p].at \in {"idle", "inInfer"}
         \/ p = "callback" /\ Cb.at = "inCallback" /\ "restart" \in usage
      /\ IsPatient => history.waited
  <2>1. /\ MayStart(p) /\ ~request.busy /\ Alive
        /\ \/ p \in Clients /\ p \in Users /\ thread[p].at \in {"idle", "inInfer"}
           \/ p = "callback" /\ Cb.at = "inCallback" /\ "restart" \in usage
    BY Names DEF StartAsync, MayStart, NotBusy, At, Inv, ClientInv, PlacesOK,
       RequestPlaces, Failing, Rq, Cb
  <2> QED
    BY <2>1, NothingFlies, Names DEF Cb
<1>2. /\ Goes(p, "resetting") /\ ThreadsOK' /\ RequestOK'
      /\ request'.busy = TRUE /\ request'.async = request.async
      /\ request'.current = request.current /\ request'.list = request.list
      /\ UNCHANGED <<usage, tasks, manager, queue, history>>
  BY GoToGoes, BusySet, PlaceNames, TypeParts DEF StartAsync
<1>3. TypeOK'
  BY <1>2 DEF Inv, TypeOK, ThreadsOK, RequestOK
<1>4. StarterMoves(p)
  BY <1>1, <1>2 DEF StarterMoves, Goes, SomeBegins, Begins, Starting, Cb
<1>5. CurrentOK' /\ StatusOK' /\ FinalIsSettled' /\ ListOK'
  BY <1>1, <1>2, <1>4, StarterCore DEF Goes, Cb
<1>6. PatienceOK' /\ CountOK'
  BY <1>1, <1>2, <1>4, StarterIsPatient, StarterCounts
<1>7. EnabledOK'
  BY <1>2, <1>4, StarterEnabled DEF Goes, Starting
<1>8. OutcomeOK'
  BY <1>2, <1>4, StarterOutcome DEF Goes
<1> QED
  BY <1>3, <1>4, <1>5, <1>6, <1>7, <1>8, StarterKeeps DEF Inv, FlightInv, ClientInv

LEMMA CheckBlobsThrowsKeeps == ASSUME Inv, NEW p \in Threads, CheckBlobsThrows(p) PROVE Inv'
<1>1. /\ thread[p].at = "resetting" /\ Begins(p) /\ "fail" \in usage
      /\ p \in Clients => Back(p) = "idle"
      /\ p \notin Clients => Back(p) = "calledBack"
  BY DEF CheckBlobsThrows, At, Begins, Starting, Back
<1>2. /\ Others(p) /\ thread'[p].at = Back(p) /\ ~thread'[p].inInfer
      /\ thread'[p].task = thread[p].task /\ thread'[p].copy = thread[p].copy
      /\ thread'[p].timed = thread[p].timed
      /\ ThreadsOK' /\ RequestOK'
      /\ request'.busy = FALSE /\ request'.async = request.async
      /\ request'.current = request.current /\ request'.list = request.list
      /\ UNCHANGED <<usage, tasks, manager, queue, history>>
  <2>1. /\ thread' = [thread EXCEPT ![p].at = Back(p), ![p].inInfer = FALSE]
        /\ Back(p) \in Places
        /\ SetIsRequestBusy(FALSE)
        /\ UNCHANGED <<usage, tasks, manager, queue, history>>
    BY PlaceNames DEF CheckBlobsThrows, StartThrows, Back
  <2>2. /\ Others(p) /\ thread'[p].at = Back(p) /\ ~thread'[p].inInfer
        /\ thread'[p].task = thread[p].task /\ thread'[p].copy = thread[p].copy
        /\ thread'[p].timed = thread[p].timed
        /\ ThreadsOK'
    BY <2>1, TypeParts, ZenonT(60) DEF ThreadsOK, ThreadStates, Others
  <2> QED
    BY <2>1, <2>2, BusySet, TypeParts
<1>3. TypeOK'
  BY <1>2 DEF Inv, TypeOK, ThreadsOK, RequestOK
<1>4. StarterMoves(p)
  BY <1>1, <1>2, Beginner DEF StarterMoves, Begins, Starting, Syncing, Cb
<1>5. CurrentOK' /\ StatusOK' /\ FinalIsSettled' /\ ListOK'
  BY <1>1, <1>2, <1>4, StarterCore
<1>6. PatienceOK' /\ CountOK'
  BY <1>1, <1>2, <1>4, Beginner, StarterIsPatient, StarterCounts
<1>7. "callback" \notin usage \/ ~thread[p].inInfer
  BY <1>1, Names, Beginner DEF Inv, ClientInv, EnabledOK, UsageOK, Relayed, OneClient, Cb
<1>8. EnabledOK'
  BY <1>2, <1>4, <1>7, TypeParts, StarterEnabled DEF ThreadsOK, ThreadStates
<1>9. OutcomeOK'
  BY <1>1, <1>2, <1>4, StarterOutcome
<1> QED
  BY <1>3, <1>4, <1>5, <1>6, <1>8, <1>9, StarterKeeps DEF Inv, FlightInv, ClientInv

LEMMA ResetCallbackManagerKeeps ==
    ASSUME Inv, NEW p \in Threads, ResetCallbackManager(p) PROVE Inv'
<1>1. thread[p].at = "resetting" /\ Begins(p)
  BY DEF ResetCallbackManager, Move, At, Begins, Starting
<1>2. /\ Goes(p, "picking") /\ ThreadsOK'
      /\ UNCHANGED <<usage, request, tasks, queue, history>>
  BY GoToGoes, PlaceNames, TypeParts DEF ResetCallbackManager, Move
<1>3. /\ manager' \in Managers /\ manager'.enabled = manager.enabled
      /\ manager'.status = "OK" /\ ~manager'.failed
  BY DEF ResetCallbackManager, CallbackManagerReset, Inv, TypeOK, Managers
<1>4. TypeOK'
  BY <1>2, <1>3 DEF Inv, TypeOK, ThreadsOK
<1>5. StarterMoves(p)
  BY <1>1, <1>2, Beginner DEF StarterMoves, Goes, Begins, Starting, Syncing, Cb
<1>6. CurrentOK' /\ StatusOK' /\ FinalIsSettled' /\ ListOK'
  BY <1>1, <1>2, <1>5, StarterCore DEF Goes
<1>7. PatienceOK' /\ CountOK'
  BY <1>1, <1>3, <1>5, Beginner, StarterIsPatient, StarterCounts
<1>8. EnabledOK'
  BY <1>2, <1>3, <1>5, StarterEnabled DEF Goes, Starting
<1>9. OutcomeOK'
  <2>1. CASE "fail" \notin usage
    BY <1>2, <1>3, <1>5, <2>1, StarterFacts DEF Inv, OutcomeOK, Failing, CalledBack, Starting
  <2>2. CASE "fail" \in usage /\ "callback" \in usage
    <3>1. IsPatient
      BY <2>2 DEF IsPatient, IsOneClient, OneClient, Inv, ClientInv, UsageOK, Relayed
    <3>2. Settled
      BY <1>1, <3>1, Beginner DEF Inv, ClientInv, PatienceOK
    <3> QED
      BY <1>3, <1>5, <2>2, <3>1, <3>2, StarterFacts DEF Inv, OutcomeOK, IsPatient, Settled,
         RequestRests, CallbackRests, CallbackFlies, Failing, Starting
  <2> QED
    BY <1>2, <2>1, <2>2 DEF OutcomeOK
<1> QED
  BY <1>4, <1>5, <1>6, <1>7, <1>8, <1>9, StarterKeeps DEF Inv, FlightInv, ClientInv

LEMMA PickTaskKeeps == ASSUME Inv, NEW p \in Threads, PickTask(p) PROVE Inv'
<1>1. /\ thread[p].at = "picking" /\ Begins(p) /\ ~Flight /\ Alive /\ request.busy
      /\ \A q \in Threads : q # p => ~Begins(q)
  BY Beginner DEF PickTask, Move, At, Begins, Starting
<1>2. /\ Goes(p, "preparing") /\ ThreadsOK'
      /\ UNCHANGED <<usage, tasks, manager, queue, history>>
  BY GoToGoes, PlaceNames, TypeParts DEF PickTask, Move
<1>3. \A q \in Threads : /\ thread[q].at \notin {"preparing", "occupying", "pushing"}
                         /\ thread'[q].at \notin {"occupying", "pushing"}
                         /\ thread'[q].at = "preparing" => q = p
  BY <1>1, <1>2 DEF Goes, Others, Begins, Starting
<1>4. /\ request' \in Requests /\ request'.busy = request.busy /\ request'.current = request.current
      /\ request'.async \in Slots /\ request'.async \in request'.list
      /\ request.list \subseteq request'.list
      /\ tasks[request'.async].status \in Final \cup {"INITIAL"}
  <2>1. CASE NeedsAnotherTask
    <3>1. PICK k \in Slots :
            /\ IsFirst(k, IF ReusableTasks # {} THEN ReusableTasks ELSE Slots \ request.list)
            /\ request' = [request EXCEPT !.async = k, !.list = @ \cup {k}]
      BY <2>1 DEF PickTask
    <3>2. \/ k \in ReusableTasks
          \/ k \in Slots \ request.list
      BY <3>1 DEF IsFirst
    <3>3. tasks[k].status \in Final \cup {"INITIAL"}
      BY <1>1, <3>2 DEF ReusableTasks, Reusable, Inv, ClientInv, ListOK
    <3>4. /\ request' \in Requests /\ request'.busy = request.busy
          /\ request'.current = request.current
          /\ request'.async = k /\ request'.list = request.list \cup {k}
      BY <3>1 DEF Inv, TypeOK, Requests
    <3> QED
      BY <3>3, <3>4
  <2>2. CASE ~NeedsAnotherTask
    <3>1. request' = request /\ request.current # Sync /\ request.current \in Slots
          /\ tasks[request.current].status # "POSTPONED"
      BY <2>2, Names, TasksNamed DEF PickTask, NeedsAnotherTask
    <3>2. request.async = request.current
      BY <1>3, <3>1 DEF Inv, FlightInv, CurrentOK, At
    <3>3. request.async \in request.list
      BY <1>1, <3>1, <3>2, Names DEF Inv, ClientInv, ListOK
    <3>4. tasks[request.current].status # "BUSY"
      BY <1>1, <1>3, <3>1 DEF Inv, FlightInv, StatusOK, At
    <3>5. tasks[request.current].status \in Statuses
      BY TasksNamed DEF TaskStates
    <3> QED
      BY <3>1, <3>2, <3>3, <3>4, <3>5 DEF Inv, TypeOK, Statuses, Final
  <2> QED
    BY <2>1, <2>2
<1>5. TypeOK'
  BY <1>2, <1>4 DEF Inv, TypeOK, ThreadsOK
<1>6. StarterMoves(p)
  BY <1>1, <1>2, <1>4, Beginner DEF StarterMoves, Goes, Begins, Starting, Syncing, Cb
<1>7. ListOK'
  BY <1>1, <1>2, <1>4, <1>6, StarterList DEF Inv, ClientInv, ListOK
<1>8. CurrentOK'
  <2>1. At(p, "preparing")'
    BY <1>2 DEF Goes, At
  <2> QED
    BY <1>1, <1>2, <1>3, <1>4, <1>6, <2>1, StarterFacts, RequestIdles, Names DEF CurrentOK, Executors, Flight, At
<1>9. StatusOK'
  BY <1>1, <1>2, <1>3, <1>4, <1>6, StarterFacts, RequestIdles DEF Inv, FlightInv, StatusOK, Is, At
<1>10. FinalIsSettled'
  BY <1>2, <1>3, <1>4, <1>6, StarterFacts DEF Inv, FlightInv, FinalIsSettled, Settled,
     RequestRests, CallbackRests, At
<1>11. PatienceOK' /\ CountOK'
  BY <1>1, <1>2, <1>6, Beginner, StarterIsPatient, StarterCounts
<1>12. EnabledOK'
  BY <1>2, <1>6, StarterEnabled DEF Goes, Starting
<1>13. OutcomeOK'
  BY <1>1, <1>2, <1>6, StarterOutcome
<1> QED
  BY <1>5, <1>6, <1>7, <1>8, <1>9, <1>10, <1>11, <1>12, <1>13, StarterKeeps
     DEF Inv, FlightInv, ClientInv

LEMMA PrepareTaskKeeps == ASSUME Inv, NEW p \in Threads, PrepareTask(p) PROVE Inv'
<1>1. /\ thread[p].at = "preparing" /\ Begins(p) /\ ~Flight /\ Alive /\ request.busy
      /\ \A q \in Threads : q # p => ~Begins(q)
  BY Beginner DEF PrepareTask, Move, At, Begins, Starting
<1>2. /\ request.async \in Slots /\ request.async \in Tasks
      /\ tasks[request.async].status \in Final \cup {"INITIAL"}
      /\ \A k \in Slots : tasks[k].status # "BUSY"
  <2>1. \A q \in Threads : ~At(q, "pushing")
    BY <1>1 DEF Begins, Starting, At
  <2> QED
    BY <1>1, <2>1, Names DEF Inv, FlightInv, CurrentOK, StatusOK, At
<1>3. /\ Goes(p, "occupying") /\ ThreadsOK'
      /\ UNCHANGED <<usage, manager, queue, history>>
  BY GoToGoes, PlaceNames, TypeParts DEF PrepareTask, Move
<1>4. /\ TasksOK' /\ OnlyTask(request.async)
      /\ tasks'[request.async].stage = 2
      /\ \A k \in Tasks : /\ tasks'[k].status = tasks[k].status
                          /\ tasks'[k].runner = tasks[k].runner
                          /\ tasks'[k].failed = tasks[k].failed
  <2>1. 2 \in 0..2 /\ tasks' = [tasks EXCEPT ![request.async].stage = 2]
    BY DEF PrepareTask, Stages
  <2> QED
    BY <1>2, <2>1, StageSet, TypeParts, ZenonT(60) DEF OnlyTask
<1>5. /\ request' \in Requests /\ request'.current = request.async
      /\ request'.async = request.async /\ request'.busy = request.busy
      /\ request'.list = request.list
  BY <1>2 DEF PrepareTask, Inv, TypeOK, Requests
<1>6. TypeOK'
  BY <1>3, <1>4, <1>5 DEF Inv, TypeOK, ThreadsOK, TasksOK
<1>7. StarterMoves(p)
  <2>1. \A k \in Slots : tasks[k].status = "POSTPONED" =>
          tasks'[k].status = "POSTPONED" /\ tasks'[k].stage = tasks[k].stage
    BY <1>2, <1>4, Names DEF OnlyTask, Final
  <2> QED
    BY <1>1, <1>3, <1>4, <1>5, <2>1, Beginner DEF StarterMoves, Goes, Begins, Starting, Syncing, Cb
<1>8. \A q \in Threads : /\ thread'[q].at \notin {"preparing", "pushing"}
                         /\ thread'[q].at = "occupying" => q = p
  BY <1>1, <1>3 DEF Goes, Others, Begins, Starting
<1>9. ListOK'
  BY <1>1, <1>4, <1>5, <1>7, Names, StarterList DEF Inv, ClientInv, ListOK
<1>10. /\ request'.current # Sync /\ tasks'[request'.current].stage = 2
       /\ tasks'[request'.current].status \in Final \cup {"INITIAL"}
       /\ \A k \in Slots : tasks'[k].status # "BUSY"
       /\ ~Flight' /\ Rq'.at # "ending"
  BY <1>1, <1>2, <1>4, <1>5, <1>7, StarterFacts, RequestIdles, Names
<1>11. CurrentOK'
  BY <1>5, <1>8, <1>10, Names DEF CurrentOK, Executors, Flight, At
<1>12. StatusOK'
  <2>1. At(p, "occupying")'
    BY <1>3 DEF Goes, At
  <2> QED
    BY <1>8, <1>10, <2>1 DEF StatusOK, Flight, At
<1>13. FinalIsSettled'
  BY <1>3 DEF FinalIsSettled, Goes, At
<1>14. PatienceOK' /\ CountOK'
  BY <1>1, <1>3, <1>7, Beginner, StarterIsPatient, StarterCounts
<1>15. EnabledOK'
  BY <1>3, <1>7, StarterEnabled DEF Goes, Starting
<1>16. OutcomeOK'
  BY <1>1, <1>3, <1>4, <1>7, StarterOutcome
<1> QED
  BY <1>6, <1>7, <1>9, <1>11, <1>12, <1>13, <1>14, <1>15, <1>16, StarterKeeps
     DEF Inv, FlightInv, ClientInv

LEMMA OccupyTaskKeeps == ASSUME Inv, NEW p \in Threads, OccupyTask(p) PROVE Inv'
<1>1. /\ thread[p].at = "occupying" /\ Begins(p) /\ ~Flight /\ Alive /\ request.busy
      /\ \A q \in Threads : q # p => ~Begins(q)
  BY Beginner DEF OccupyTask, At, Begins, Starting
<1>2. /\ request.current \in Slots /\ request.current \in Tasks
      /\ tasks[request.current].status \in Final \cup {"INITIAL"}
      /\ tasks[request.current].stage = 2
      /\ request.async = request.current
      /\ \A k \in Slots : tasks[k].status # "BUSY"
  <2>1. \A q \in Threads : ~At(q, "pushing") /\ ~At(q, "preparing")
    BY <1>1 DEF Begins, Starting, At
  <2>2. request.current # Sync
    BY <1>1 DEF Inv, FlightInv, CurrentOK
  <2> QED
    BY <1>1, <2>1, <2>2, Names, TasksNamed DEF Inv, FlightInv, CurrentOK, StatusOK, At
<1>3. /\ tasks' = [tasks EXCEPT ![request.current].status = "BUSY"]
      /\ GoTo(p, "pushing")
      /\ UNCHANGED <<usage, request, manager, queue, history>>
  BY <1>2 DEF OccupyTask, Final
<1>4. Goes(p, "pushing") /\ ThreadsOK'
  BY <1>3, GoToGoes, PlaceNames, TypeParts
<1>5. /\ TasksOK' /\ OnlyTask(request.current)
      /\ tasks'[request.current].status = "BUSY"
      /\ \A k \in Tasks : /\ tasks'[k].stage = tasks[k].stage
                          /\ tasks'[k].runner = tasks[k].runner
                          /\ tasks'[k].failed = tasks[k].failed
  BY <1>2, <1>3, StatusSet, StatusNames, TypeParts DEF OnlyTask
<1>6. TypeOK'
  BY <1>3, <1>4, <1>5 DEF Inv, TypeOK, ThreadsOK, TasksOK
<1>7. StarterMoves(p)
  <2>1. \A k \in Slots : tasks[k].status = "POSTPONED" =>
          tasks'[k].status = "POSTPONED" /\ tasks'[k].stage = tasks[k].stage
    BY <1>2, <1>5, Names DEF OnlyTask, Final
  <2> QED
    BY <1>1, <1>3, <1>4, <1>5, <2>1, Beginner DEF StarterMoves, Goes, Begins, Starting, Syncing, Cb
<1>8. \A q \in Threads : /\ thread'[q].at \notin {"preparing", "occupying"}
                         /\ thread'[q].at = "pushing" => q = p
  BY <1>1, <1>4 DEF Goes, Others, Begins, Starting
<1>9. ListOK'
  <2>1. request.async \in request.list
    BY <1>1, <1>2, Names DEF Inv, ClientInv, ListOK
  <2> QED
    BY <1>1, <1>2, <1>3, <1>5, <1>7, <2>1, Names, StarterList DEF Inv, ClientInv, ListOK, OnlyTask
<1>10. /\ request'.current # Sync /\ request'.async = request'.current
       /\ tasks'[request'.current].stage = 2 /\ tasks'[request'.current].status = "BUSY"
       /\ \A k \in Slots : k # request'.current => tasks'[k].status # "BUSY"
       /\ ~Flight' /\ Rq'.at # "ending"
  BY <1>1, <1>2, <1>3, <1>5, <1>7, StarterFacts, RequestIdles, Names DEF OnlyTask
<1>11. CurrentOK'
  BY <1>8, <1>10, Names DEF CurrentOK, Executors, Flight, At
<1>12. StatusOK'
  <2>1. At(p, "pushing")'
    BY <1>4 DEF Goes, At
  <2> QED
    BY <1>8, <1>10, <2>1 DEF StatusOK, Flight, At
<1>13. FinalIsSettled'
  BY <1>3, <1>5 DEF FinalIsSettled, Final
<1>14. PatienceOK' /\ CountOK'
  BY <1>1, <1>3, <1>7, Beginner, StarterIsPatient, StarterCounts
<1>15. EnabledOK'
  BY <1>3, <1>4, <1>7, StarterEnabled DEF Goes, Starting
<1>16. OutcomeOK'
  BY <1>1, <1>3, <1>5, <1>7, StarterOutcome
<1> QED
  BY <1>6, <1>7, <1>9, <1>11, <1>12, <1>13, <1>14, <1>15, <1>16, StarterKeeps
     DEF Inv, FlightInv, ClientInv

\* A step of the default Infer(), which may change the task of Infer().
LEMMA SyncKeeps ==
    ASSUME Inv, NEW c \in Clients, Begins(c), thread[c].at \in Syncing,
           TypeOK', Others(c), thread'[c].at \in {"idle"} \cup Syncing,
           thread'[c].task = thread[c].task /\ thread'[c].copy = thread[c].copy,
           thread'[c].timed = thread[c].timed /\ thread'[c].inInfer = thread[c].inInfer,
           UNCHANGED <<usage, manager, queue, history>>,
           Begins(c)' <=> request'.busy,
           request'.current \in {request.current, Sync}, request'.async = request.async,
           request'.list = request.list,
           OnlyTask(Sync), tasks'[Sync].runner = tasks[Sync].runner,
           tasks'[Sync].failed => tasks[Sync].failed \/ "fail" \in usage
    PROVE  Inv'
<1>1. \A k \in Tasks : tasks'[k].runner = tasks[k].runner
  BY DEF OnlyTask
<1>2. \A k \in Slots : tasks'[k] = tasks[k]
  BY Names DEF OnlyTask
<1>3. c \in Threads /\ c \in Users
  BY Names, Beginner
<1>4. StarterMoves(c)
  BY <1>1, <1>2, <1>3, Names, Beginner DEF StarterMoves, Syncing, Starting
<1>5. CurrentOK' /\ StatusOK' /\ FinalIsSettled' /\ ListOK'
  BY <1>2, <1>3, <1>4, StarterCore DEF Syncing
<1>6. PatienceOK' /\ CountOK'
  BY <1>3, <1>4, Beginner, StarterIsPatient, StarterCounts
<1>7. ~thread[c].inInfer
  BY DEF Inv, ClientInv, EnabledOK, Syncing, Starting, Waiting
<1>8. EnabledOK'
  BY <1>3, <1>4, <1>7, StarterEnabled
<1>9. OutcomeOK'
  BY <1>3, <1>4, StarterOutcome DEF OnlyTask, Syncing
<1> QED
  BY <1>3, <1>4, <1>5, <1>6, <1>8, <1>9, StarterKeeps DEF Inv, FlightInv, ClientInv

LEMMA SyncInferKeeps == ASSUME Inv, NEW c \in Clients, SyncInfer(c) PROVE Inv'
<1>1. /\ c \in Threads /\ c \in Users /\ thread[c].at = "idle" /\ ~Begins(c)
      /\ MayStart(c) /\ ~request.busy /\ Alive
  BY Names DEF SyncInfer, MayStart, NotBusy, At, Begins, Starting, Syncing
<1>2. /\ ~Flight /\ ~SomeBegins
      /\ IsPatient => history.waited
  BY <1>1, NothingFlies
<1>3. /\ Goes(c, "syncSelecting") /\ ThreadsOK' /\ RequestOK'
      /\ request'.busy = TRUE /\ request'.async = request.async
      /\ request'.current = request.current /\ request'.list = request.list
      /\ UNCHANGED <<usage, tasks, manager, queue, history>>
  BY <1>1, GoToGoes, BusySet, PlaceNames, TypeParts DEF SyncInfer
<1>4. TypeOK'
  BY <1>3 DEF Inv, TypeOK, ThreadsOK, RequestOK
<1>5. StarterMoves(c)
  BY <1>1, <1>2, <1>3 DEF StarterMoves, Goes, SomeBegins, Begins, Syncing
<1>6. CurrentOK' /\ StatusOK' /\ FinalIsSettled' /\ ListOK'
  BY <1>1, <1>3, <1>5, StarterCore DEF Goes
<1>7. PatienceOK' /\ CountOK'
  BY <1>1, <1>2, <1>3, <1>5, StarterIsPatient, StarterCounts
<1>8. EnabledOK'
  <2>1. ~thread[c].inInfer
    BY <1>1 DEF Inv, ClientInv, EnabledOK, Starting, Waiting
  <2> QED
    BY <1>1, <1>3, <1>5, <2>1, StarterEnabled DEF Goes
<1>9. OutcomeOK'
  BY <1>1, <1>3, <1>5, StarterOutcome DEF Goes
<1> QED
  BY <1>1, <1>4, <1>5, <1>6, <1>7, <1>8, <1>9, StarterKeeps DEF Inv, FlightInv, ClientInv

\* A thread in Infer() holds the flag.
LEMMA SyncHolds ==
    ASSUME Inv, NEW c \in Clients, thread[c].at \in Syncing
    PROVE  c \in Threads /\ Begins(c) /\ request.busy
<1>1. c \in Threads /\ Begins(c)
  BY Names DEF Begins
<1> QED
  BY <1>1, Beginner

LEMMA SyncSelectKeeps == ASSUME Inv, NEW c \in Clients, SyncSelect(c) PROVE Inv'
<1>1. thread[c].at = "syncSelecting" /\ thread[c].at \in Syncing
  BY DEF SyncSelect, Move, At, Syncing
<1>2. c \in Threads /\ Begins(c) /\ request.busy
  BY <1>1, SyncHolds
<1>3. /\ Goes(c, "syncOccupying") /\ ThreadsOK'
      /\ UNCHANGED <<usage, tasks, manager, queue, history>>
  BY <1>2, GoToGoes, PlaceNames, TypeParts DEF SyncSelect, Move
<1>4. /\ request' \in Requests /\ request'.current = Sync /\ request'.busy = request.busy
      /\ request'.async = request.async /\ request'.list = request.list
  BY Names DEF SyncSelect, Inv, TypeOK, Requests
<1>5. TypeOK'
  BY <1>3, <1>4 DEF Inv, TypeOK, ThreadsOK
<1> QED
  BY <1>1, <1>2, <1>3, <1>4, <1>5, SyncKeeps, Names DEF Goes, Begins, Syncing, OnlyTask

LEMMA SyncOccupyKeeps == ASSUME Inv, NEW c \in Clients, SyncOccupy(c) PROVE Inv'
<1>1. thread[c].at = "syncOccupying" /\ thread[c].at \in Syncing
  BY DEF SyncOccupy, At, Syncing
<1>2. c \in Threads /\ Begins(c) /\ request.busy
  BY <1>1, SyncHolds
<1>3. UNCHANGED <<usage, request, manager, queue, history>>
  BY DEF SyncOccupy
<1>4. /\ ThreadsOK' /\ (Goes(c, "syncLowering") \/ Goes(c, "syncLocking"))
      /\ TasksOK' /\ OnlyTask(Sync) /\ tasks'[Sync].runner = tasks[Sync].runner
      /\ tasks'[Sync].failed = tasks[Sync].failed
  <2>1. CASE tasks[Sync].status = "BUSY"
    BY <1>2, <2>1, GoToGoes, PlaceNames, TypeParts DEF SyncOccupy, TasksOK, OnlyTask
  <2>2. CASE tasks[Sync].status # "BUSY"
    BY <1>2, <2>2, GoToGoes, StatusSet, PlaceNames, StatusNames, Names, TypeParts DEF SyncOccupy
  <2> QED
    BY <2>1, <2>2
<1>5. TypeOK'
  BY <1>3, <1>4 DEF Inv, TypeOK, ThreadsOK, TasksOK
<1>6. thread'[c].at \in Syncing
  BY <1>4 DEF Goes, Syncing
<1> QED
  BY <1>1, <1>2, <1>3, <1>4, <1>5, <1>6, SyncKeeps, Names DEF Goes, Begins

LEMMA SyncLockKeeps == ASSUME Inv, NEW c \in Clients, SyncLock(c) PROVE Inv'
<1>1. thread[c].at = "syncLocking" /\ thread[c].at \in Syncing
  BY DEF SyncLock, Move, At, Syncing
<1>2. c \in Threads /\ Begins(c) /\ request.busy
  BY <1>1, SyncHolds
<1>3. /\ ThreadsOK' /\ (Goes(c, "syncInferring") \/ Goes(c, "syncLowering"))
      /\ UNCHANGED <<usage, request, tasks, manager, queue, history>>
  BY <1>2, GoToGoes, PlaceNames, TypeParts DEF SyncLock, Move
<1>4. TypeOK'
  BY <1>3 DEF Inv, TypeOK, ThreadsOK
<1>5. thread'[c].at \in Syncing
  BY <1>3 DEF Goes, Syncing
<1> QED
  BY <1>1, <1>2, <1>3, <1>4, <1>5, SyncKeeps, Names DEF Goes, Begins, OnlyTask

LEMMA SyncRunKeeps == ASSUME Inv, NEW c \in Clients, SyncRun(c) PROVE Inv'
<1>1. thread[c].at = "syncInferring" /\ thread[c].at \in Syncing
  BY DEF SyncRun, Move, At, Syncing
<1>2. c \in Threads /\ Begins(c) /\ request.busy
  BY <1>1, SyncHolds
<1>3. /\ ThreadsOK' /\ Goes(c, "syncNotifying")
      /\ UNCHANGED <<usage, request, manager, queue, history>>
  BY <1>2, GoToGoes, PlaceNames, TypeParts DEF SyncRun, Move
<1>4. /\ TasksOK' /\ OnlyTask(Sync) /\ tasks'[Sync].runner = tasks[Sync].runner
      /\ tasks'[Sync].failed => "fail" \in usage
  <2>1. PICK outcome \in Outcomes :
          tasks' = [tasks EXCEPT ![Sync].failed = (outcome = "ERROR"),
                                 ![Sync].status = IF outcome = "OK" THEN "DONE" ELSE "ERROR"]
    BY DEF SyncRun
  <2>2. ASSUME NEW b \in BOOLEAN, NEW s \in Statuses,
               tasks' = [tasks EXCEPT ![Sync].failed = b, ![Sync].status = s]
        PROVE  /\ TasksOK' /\ OnlyTask(Sync) /\ tasks'[Sync].runner = tasks[Sync].runner
               /\ tasks'[Sync].failed = b
    <3> DEFINE t == [tasks[Sync] EXCEPT !.failed = b, !.status = s]
    <3>1. t \in TaskStates /\ t.failed = b /\ t.runner = tasks[Sync].runner
      BY Names, TypeParts, ZenonT(60) DEF TasksOK, TaskStates
    <3>2. tasks' = [tasks EXCEPT ![Sync] = t]
      BY <2>2
    <3> HIDE DEF t
    <3> QED
      BY <3>1, <3>2, Names, TypeParts DEF TasksOK, OnlyTask
  <2>3. CASE outcome = "OK"
    <3>1. tasks' = [tasks EXCEPT ![Sync].failed = FALSE, ![Sync].status = "DONE"]
      BY <2>1, <2>3
    <3> QED
      BY <2>2, <3>1, StatusNames
  <2>4. CASE outcome = "ERROR" /\ "fail" \in usage
    <3>1. tasks' = [tasks EXCEPT ![Sync].failed = TRUE, ![Sync].status = "ERROR"]
      BY <2>1, <2>4
    <3> QED
      BY <2>2, <2>4, <3>1, StatusNames
  <2> QED
    BY <2>3, <2>4 DEF Outcomes
<1>5. TypeOK'
  BY <1>3, <1>4 DEF Inv, TypeOK, ThreadsOK, TasksOK
<1>6. thread'[c].at \in Syncing
  BY <1>3 DEF Goes, Syncing
<1> QED
  BY <1>1, <1>2, <1>3, <1>4, <1>5, <1>6, SyncKeeps, Names DEF Goes, Begins

LEMMA SyncNotifyKeeps == ASSUME Inv, NEW c \in Clients, SyncNotify(c) PROVE Inv'
<1>1. thread[c].at = "syncNotifying" /\ thread[c].at \in Syncing
  BY DEF SyncNotify, At, Syncing
<1>2. c \in Threads /\ Begins(c) /\ request.busy
  BY <1>1, SyncHolds
<1>3. Sleepers(Sync) = {}
  <2> SUFFICES ASSUME NEW d \in Clients, At(d, "asleep") \/ At(d, "drowsing") PROVE FALSE
    BY DEF Sleepers
  <2>1. ~At(d, "drowsing")
    BY <1>2 DEF SomeBegins, Inv, ClientInv, ListOK, Destroying, At
  <2>2. d \in Users /\ IsOneClient /\ d # c
    BY <1>1, <2>1 DEF Inv, ClientInv, PlacesOK, Waiting, At
  <2> QED
    BY <1>2, <2>2, OneUser
<1>4. /\ ThreadsOK' /\ Goes(c, "syncLowering")
      /\ UNCHANGED <<usage, request, tasks, manager, queue, history>>
  BY <1>2, <1>3, PlaceNames, TypeParts DEF SyncNotify, Awakened, ThreadsOK, ThreadStates, Goes, Others
<1>5. TypeOK'
  BY <1>4 DEF Inv, TypeOK, ThreadsOK
<1>6. thread'[c].at \in Syncing
  BY <1>4 DEF Goes, Syncing
<1> QED
  BY <1>1, <1>2, <1>4, <1>5, <1>6, SyncKeeps, Names DEF Goes, Begins, OnlyTask

LEMMA SyncLowerKeeps == ASSUME Inv, NEW c \in Clients, SyncLower(c) PROVE Inv'
<1>1. thread[c].at = "syncLowering" /\ thread[c].at \in Syncing
  BY DEF SyncLower, Move, At, Syncing
<1>2. c \in Threads /\ Begins(c) /\ request.busy
  BY <1>1, SyncHolds
<1>3. /\ ThreadsOK' /\ Goes(c, "idle")
      /\ RequestOK' /\ request'.busy = FALSE /\ request'.async = request.async
      /\ request'.current = request.current /\ request'.list = request.list
      /\ UNCHANGED <<usage, tasks, manager, queue, history>>
  BY <1>2, GoToGoes, BusySet, PlaceNames, TypeParts DEF SyncLower, Move
<1>4. TypeOK'
  BY <1>3 DEF Inv, TypeOK, ThreadsOK, RequestOK
<1>5. ~Begins(c)'
  BY <1>3 DEF Goes, Begins, Starting, Syncing
<1> QED
  BY <1>1, <1>2, <1>3, <1>4, <1>5, SyncKeeps, Names DEF Goes, OnlyTask

\* With one client the callback is at rest while a start goes on.
LEMMA BeginnerRests ==
    ASSUME Inv, NEW p \in Threads, Begins(p), IsOneClient
    PROVE  Cb.at \in {"idle", "notifying"}
<1>1. CASE "callback" \in usage
  <2>1. IsPatient
    BY <1>1 DEF IsPatient, IsOneClient, OneClient
  <2> QED
    BY <2>1, Beginner DEF Inv, ClientInv, PatienceOK, Settled, CallbackRests
<1>2. CASE "callback" \notin usage
  BY <1>2 DEF Inv, ClientInv, PlacesOK
<1> QED
  BY <1>1, <1>2

LEMMA PushTaskKeeps == ASSUME Inv, NEW p \in Threads, PushTask(p) PROVE Inv'
<1> DEFINE place == IF thread[p].inInfer THEN "mustWait" ELSE Back(p)
<1>1. /\ thread[p].at = "pushing" /\ Begins(p) /\ ~Flight /\ Alive /\ request.busy
      /\ \A q \in Threads : q # p => ~Begins(q)
      /\ IsPatient => history.waited
      /\ \/ p \in Clients /\ p \in Users
         \/ /\ p = "callback" /\ "restart" \in usage /\ Cb.at \in Starting
            /\ p \notin Clients /\ ~IsOneClient
  <2>1. thread[p].at = "pushing" /\ Begins(p)
    BY DEF PushTask, Move, At, Begins, Starting
  <2> QED
    BY <2>1, Beginner DEF IsOneClient, OneClient
<1>2. /\ request.current \in Slots /\ request.current # Sync
      /\ tasks[request.current].status = "BUSY" /\ tasks[request.current].stage = 2
      /\ request.async = request.current
      /\ \A k \in Slots : tasks[k].status = "BUSY" => k = request.current
  <2>1. request.current # Sync
    BY <1>1 DEF Inv, FlightInv, CurrentOK
  <2>2. \A q \in Threads : ~At(q, "preparing")
    BY <1>1 DEF Begins, Starting, At
  <2> QED
    BY <1>1, <2>1, <2>2, Names, TasksNamed DEF Inv, FlightInv, CurrentOK, StatusOK, At
<1>3. /\ \A c \in Clients : thread[c].inInfer => c = p
      /\ thread[p].inInfer => p \in Clients /\ IsOneClient
      /\ "callback" \in usage => (manager.enabled <=> ~thread[p].inInfer)
  <2>1. \A c \in Clients : thread[c].inInfer => c \in Users /\ IsOneClient
    BY DEF Inv, ClientInv, EnabledOK, UsageOK, Relayed, IsOneClient
  <2>2. \A c \in Clients : thread[c].inInfer => c = p
    BY <1>1, <2>1, OneUser
  <2>3. thread[p].inInfer => p \in Clients
    BY <1>1 DEF Inv, ClientInv, EnabledOK, Cb
  <2> QED
    BY <2>1, <2>2, <2>3 DEF Inv, ClientInv, EnabledOK
<1>4. /\ place \in Places
      /\ place = (IF p \in Clients THEN IF thread[p].inInfer THEN "mustWait" ELSE "idle"
                                   ELSE "calledBack")
  BY <1>3, PlaceNames DEF Back
<1>5. /\ Goes(p, place) /\ ThreadsOK'
      /\ UNCHANGED <<usage, request, tasks, manager>>
  BY <1>4, GoToGoes, TypeParts DEF PushTask, Move
<1>6. /\ QueuesOK' /\ queue'["request"] = <<request.current>> /\ queue'["callback"] = <<>>
  <2>1. queue["request"] = <<>> /\ queue["callback"] = <<>>
    BY <1>1 DEF Flight
  <2>2. Append(queue["request"], request.current) = <<request.current>>
    BY <2>1
  <2>3. <<request.current>> \in Seq(Slots)
    BY <1>2
  <2> QED
    BY <2>1, <2>2, <2>3, Names, TypeParts DEF PushTask, QueuesOK
<1>7. /\ history' \in [accepted : Nat, due : Nat, inferred : Nat, called : Nat,
                       outcome : {"OK", "ERROR"}, waited : BOOLEAN]
      /\ history'.accepted = history.accepted + 1
      /\ history'.due = IF "callback" \in usage /\ ~thread[p].inInfer THEN history.due + 1
                                                                     ELSE history.due
      /\ history'.inferred = history.inferred /\ history'.called = history.called
      /\ history'.outcome = history.outcome /\ ~history'.waited
  <2> DEFINE due == IF "callback" \in usage /\ ~thread[p].inInfer THEN history.due + 1
                                                                ELSE history.due
  <2>1. history' = [history EXCEPT !.accepted = history.accepted + 1, !.due = due,
                                   !.waited = FALSE]
    BY DEF PushTask, Inv, TypeOK
  <2>2. due \in Nat
    BY DEF Inv, TypeOK
  <2> HIDE DEF due
  <2>3. /\ history' \in [accepted : Nat, due : Nat, inferred : Nat, called : Nat,
                         outcome : {"OK", "ERROR"}, waited : BOOLEAN]
        /\ history'.accepted = history.accepted + 1 /\ history'.due = due
        /\ history'.inferred = history.inferred /\ history'.called = history.called
        /\ history'.outcome = history.outcome /\ ~history'.waited
    <3> DEFINE Histories == [accepted : Nat, due : Nat, inferred : Nat, called : Nat,
                             outcome : {"OK", "ERROR"}, waited : BOOLEAN]
    <3>1. history \in Histories
      BY DEF Inv, TypeOK
    <3>2. history.accepted + 1 \in Nat
      BY <3>1
    <3>3. ASSUME NEW a \in Nat PROVE [history EXCEPT !.accepted = a, !.due = due, !.waited = FALSE]
                                        \in Histories
      BY <2>2, <3>1
    <3> QED
      BY <2>1, <2>2, <3>1, <3>2, <3>3
  <2> QED
    BY <2>3 DEF due
<1>8. TypeOK'
  BY <1>5, <1>6, <1>7 DEF Inv, TypeOK, ThreadsOK, QueuesOK
<1>9. /\ Rq' = Rq
      /\ \/ p \in Clients /\ Cb' = Cb
         \/ /\ p = "callback" /\ Cb'.at = "calledBack" /\ Cb'.task = Cb.task /\ Cb'.copy = Cb.copy
      /\ Rq.at \in {"idle", "notifying", "failed", "throwing"}
      /\ Rq.at = "failed" => "callback" \notin usage
      /\ Cb.at \notin {"locking", "copying", "switching", "lowering"}
  BY <1>1, <1>4, <1>5, OthersAre, RequestIdles, Names DEF Goes, Cb, Rq, Flight, CallbackFlies
<1>10. Users' = Users /\ (UsageOK' <=> UsageOK) /\ (IsOneClient' <=> IsOneClient)
       /\ (IsPatient' <=> IsPatient)
  BY <1>5, UsageKept
<1>11. /\ ~RequestFlies' /\ ~CallbackFlies' /\ Flight' /\ Pending' /\ ~Pending
       /\ \A q \in Threads : ~Begins(q)' /\ ~At(q, "preparing")' /\ ~At(q, "occupying")'
                             /\ ~At(q, "pushing")'
       /\ ~SomeBegins'
  <2>1. ~RequestFlies'
    BY <1>9, <1>5 DEF RequestFlies
  <2>2. ~CallbackFlies'
    BY <1>9 DEF CallbackFlies
  <2>3. Flight' /\ Pending' /\ ~Pending
    BY <1>1, <1>6 DEF Flight, Pending, RequestFlies
  <2>4. \A q \in Threads : ~Begins(q)'
    BY <1>1, <1>4, <1>5 DEF Goes, Others, Begins, Starting, Syncing
  <2> QED
    BY <2>1, <2>2, <2>3, <2>4 DEF SomeBegins, Begins, Starting, At
<1>12. RunnersOK'
  BY <1>1, <1>5, <1>9, OthersAre, Names DEF Inv, FlightInv, RunnersOK, Starting, Rq, Cb
<1>13. OneAtATime'
  BY <1>6, <1>11 DEF OneAtATime
<1>14. CurrentOK'
  BY <1>2, <1>5, <1>6, <1>9, <1>11, Names DEF CurrentOK, At
<1>15. RequestStatusOK'
  BY <1>5, <1>9 DEF Inv, FlightInv, RequestStatusOK, Is
<1>16. CallbackStatusOK'
  <2>1. CASE Cb' = Cb
    BY <1>5, <1>9, <2>1 DEF Inv, FlightInv, CallbackStatusOK, Is
  <2>2. CASE Cb'.at = "calledBack" /\ Cb.at \in Starting /\ Cb'.task = Cb.task
    <3>1. Is(Cb.task, "POSTPONED", 0)
      BY <2>2 DEF Inv, FlightInv, CallbackStatusOK, CalledBack
    <3> QED
      BY <1>5, <2>2, <3>1 DEF CallbackStatusOK, Is
  <2> QED
    BY <1>1, <1>9, <2>1, <2>2, Names
<1>17. StatusOK'
  BY <1>2, <1>5, <1>6, <1>11, Names DEF StatusOK, Is, At
<1>18. AfterLowering' /\ FinalIsSettled'
  <2>1. IsOneClient => Cb' = Cb /\ Cb.at \in {"idle", "notifying"}
    BY <1>1, <1>9, BeginnerRests, Names
  <2>2. AfterLowering'
    BY <1>10, <2>1 DEF AfterLowering
  <2>3. FinalIsSettled'
    BY <1>2, <1>5 DEF FinalIsSettled, Final
  <2> QED
    BY <2>2, <2>3
<1>19. PlacesOK'
  BY <1>1, <1>3, <1>4, <1>5, <1>6, <1>9, <1>10, <1>11, Names DEF Inv, ClientInv, PlacesOK, Goes, Others,
     ClientPlaces, CallbackPlaces, CalledBack, Starting, Waiting, Cb
<1>20. EnabledOK'
  BY <1>1, <1>3, <1>4, <1>5, <1>6, <1>9, <1>10, Names DEF Inv, ClientInv, EnabledOK, Goes, Others,
     IsCallbackEnabled, Starting, Waiting, Rq, Cb
<1>21. ListOK'
  <2>1. \A c \in Clients : thread'[c].at \notin Destroying
    BY <1>1, <1>4, <1>5, Names DEF Goes, Others, Alive, Destroying
  <2> QED
    BY <1>1, <1>5, <2>1 DEF Inv, ClientInv, ListOK, Destroying, At
<1>22. WaitsOK'
  <2>1. \A c \in Clients : thread'[c].at \notin Waiting
    <3> SUFFICES ASSUME NEW c \in Clients, thread'[c].at \in Waiting PROVE FALSE
      OBVIOUS
    <3>1. c # p /\ thread[c] = thread'[c]
      BY <1>4, <1>5, Names DEF Goes, Others, Waiting
    <3>2. IsOneClient /\ c \in Users
      BY <3>1 DEF Inv, ClientInv, PlacesOK
    <3> QED
      BY <1>1, <3>1, <3>2, OneUser
  <2> QED
    BY <2>1 DEF WaitsOK, Waiting, At
<1>23. PatienceOK'
  <2>1. IsPatient => \A c \in Clients : ~At(c, "inInfer")'
    <3> SUFFICES ASSUME IsPatient, NEW c \in Clients, At(c, "inInfer")' PROVE FALSE
      OBVIOUS
    <3>1. c # p /\ thread[c] = thread'[c]
      BY <1>4, <1>5, Names DEF Goes, Others, At
    <3>2. c \in Users
      BY <3>1 DEF Inv, ClientInv, PlacesOK, At
    <3> QED
      BY <1>1, <3>1, <3>2, OneUser DEF IsPatient
  <2> QED
    BY <1>2, <1>5, <1>7, <1>10, <1>11, <2>1 DEF PatienceOK
<1>24. GuardOK'
  BY <1>1, <1>5 DEF GuardOK
<1>25. CountOK'
  <2>1. /\ IsCallbackEnabled <=> "callback" \in usage /\ ~thread[p].inInfer
        /\ IsCallbackEnabled' <=> IsCallbackEnabled
    BY <1>3, <1>5 DEF IsCallbackEnabled
  <2>2. Cb'.at \in {"lowered", "calling"} <=> Cb.at \in {"lowered", "calling"}
    BY <1>1, <1>9, Names DEF Starting
  <2>3. /\ history.accepted \in Nat /\ history.due \in Nat
        /\ history.inferred \in Nat /\ history.called \in Nat
    BY DEF Inv, TypeOK
  <2> QED
    BY <1>1, <1>7, <1>9, <1>11, <2>1, <2>2, <2>3 DEF Inv, CountOK, EndsPlainly
<1>26. OutcomeOK'
  BY <1>1, <1>5, <1>6, <1>7, <1>9, <1>11 DEF Inv, OutcomeOK, Failing, Starting, At
<1> QED
  BY <1>8, <1>10, <1>12, <1>13, <1>14, <1>15, <1>16, <1>17, <1>18, <1>19, <1>20, <1>21, <1>22,
     <1>23, <1>24, <1>25, <1>26 DEF Inv, FlightInv, ClientInv

-----------------------------------------------------------------------------
(* The executors                                                           *)

\* What an executor may do to the rest: to the flag, to the queues, to the
\* tasks and to itself.
ExecutorMoves(e) ==
    /\ UNCHANGED usage
    /\ Others(e) /\ thread'[e].inInfer = thread[e].inInfer
    /\ ~Begins(e) /\ ~Begins(e)'
    /\ ~Settled
    /\ request'.current = request.current /\ request'.async = request.async
    /\ request'.list = request.list
    /\ request'.busy => request.busy
    /\ manager'.enabled = manager.enabled /\ history'.waited = history.waited
    /\ \A k \in Slots : /\ tasks[k].status \in Final \cup {"INITIAL"}
                             => tasks'[k].status \in Final \cup {"INITIAL"}
                        /\ tasks'[k].status = "INITIAL" <=> tasks[k].status = "INITIAL"
    /\ tasks'[Sync] = tasks[Sync]
    /\ Rq'.at \in RequestPlaces /\ Cb'.at \in CallbackPlaces
    /\ "callback" \notin usage => queue'["callback"] = <<>> /\ Cb'.at = "idle"
    /\ "callback" \in usage => Rq'.at # "throwing"
    /\ (\/ queue'["callback"] # <<>> \/ Cb'.at \notin {"idle", "notifying"}
        \/ Rq'.at \in {"reoccupying", "requeuing"}) => IsCallbackEnabled

LEMMA ExecutorFrame ==
    ASSUME Inv, NEW e \in Executors, ExecutorMoves(e)
    PROVE  /\ e = "request" => Cb' = Cb
           /\ e = "callback" => Rq' = Rq
           /\ \A c \in Clients : thread'[c] = thread[c]
           /\ \A q \in Threads : Begins(q)' <=> Begins(q)
           /\ \A q \in Threads : thread'[q].at \in Starting \/ thread[q].at \in Starting
                                   => thread'[q].at = thread[q].at
           /\ SomeBegins' <=> SomeBegins
           /\ Users' = Users
           /\ IsOneClient' <=> IsOneClient
           /\ IsPatient' <=> IsPatient
           /\ IsCallbackEnabled' <=> IsCallbackEnabled
<1>1. \A q \in Threads : Begins(q)' <=> Begins(q)
  BY DEF ExecutorMoves, Others, Begins
<1>2. SomeBegins' <=> SomeBegins
  BY <1>1 DEF SomeBegins
<1>3. \A q \in Threads : thread'[q].at \in Starting \/ thread[q].at \in Starting
                           => thread'[q].at = thread[q].at
  BY DEF ExecutorMoves, Others, Begins
<1>4. /\ e = "request" => Cb' = Cb
      /\ e = "callback" => Rq' = Rq
      /\ \A c \in Clients : thread'[c] = thread[c]
  BY OthersAre, Names DEF ExecutorMoves
<1> QED
  BY <1>1, <1>2, <1>3, <1>4, UsageKept DEF ExecutorMoves, IsCallbackEnabled

LEMMA ExecutorKeeps ==
    ASSUME Inv, NEW e \in Executors, ExecutorMoves(e)
    PROVE  UsageOK' /\ PlacesOK' /\ EnabledOK' /\ ListOK' /\ WaitsOK' /\ PatienceOK'
<1>1. UsageOK'
  BY UsageKept DEF ExecutorMoves, Inv, ClientInv
<1>2. PlacesOK'
  <2>1. Cb'.at \in Starting => "restart" \in usage
    BY ExecutorFrame, Names DEF Inv, ClientInv, PlacesOK, Cb
  <2> QED
    BY <2>1, ExecutorFrame, Names DEF Inv, ClientInv, PlacesOK, ExecutorMoves
<1>3. EnabledOK'
  <2>1. ~Rq'.inInfer /\ ~Cb'.inInfer
    BY ExecutorFrame, Names DEF ExecutorMoves, Inv, ClientInv, EnabledOK, Rq, Cb
  <2> QED
    BY <2>1, ExecutorFrame DEF Inv, ClientInv, EnabledOK, ExecutorMoves
<1>4. ListOK'
  <2>1. Alive' <=> Alive
    BY ExecutorFrame DEF Alive
  <2> QED
    BY <2>1, ExecutorFrame DEF Inv, ClientInv, ListOK, ExecutorMoves, At
<1>5. WaitsOK'
  <2>1. \A c \in Clients : thread[c].at \in {"returning", "releasing", "checking"} /\ ~thread[c].timed
          => request.current = Sync
    BY OverIsSettled DEF ExecutorMoves
  <2> QED
    BY <2>1, ExecutorFrame DEF Inv, ClientInv, WaitsOK, ExecutorMoves, WaitIsOver, At
<1>6. PatienceOK'
  BY ExecutorFrame DEF Inv, ClientInv, PatienceOK, ExecutorMoves, At
<1> QED
  BY <1>1, <1>2, <1>3, <1>4, <1>5, <1>6

\* The flag is as it was, and no more is in flight than was.
LEMMA ExecutorGuards ==
    ASSUME Inv, NEW e \in Executors, ExecutorMoves(e), request'.busy = request.busy,
           Flight' => Flight, Pending' => Pending
    PROVE  GuardOK'
BY ExecutorFrame DEF Inv, ClientInv, GuardOK, ExecutorMoves

\* The queues are as they were, and the task that flies too.
LEMMA ExecutorFlies ==
    ASSUME Inv, NEW e \in Executors, ExecutorMoves(e), UNCHANGED queue,
           thread'[e].task = thread[e].task,
           RequestFlies' => RequestFlies, CallbackFlies' => CallbackFlies,
           Rq'.at = "ending" => RequestFlies \/ Rq.at = "ending"
    PROVE  /\ OneAtATime' /\ CurrentOK'
           /\ Flight' => Flight
<1>1. Flight' => Flight
  BY DEF Flight
<1>2. OneAtATime'
  BY <1>1, ExecutorFrame DEF Inv, FlightInv, OneAtATime
<1>3. Rq'.task = Rq.task /\ Cb'.task = Cb.task
  BY ExecutorFrame, Names DEF Rq, Cb
<1>4. \A q \in Threads : /\ At(q, "preparing")' <=> At(q, "preparing")
                         /\ At(q, "occupying")' <=> At(q, "occupying")
                         /\ At(q, "pushing")' <=> At(q, "pushing")
  BY ExecutorFrame DEF Starting, At
<1>5. CurrentOK'
  BY <1>1, <1>3, <1>4, ExecutorFrame, Names, TasksNamed DEF Inv, FlightInv, CurrentOK, ExecutorMoves, At
<1> QED
  BY <1>1, <1>2, <1>5

\* What no executor does in a step of its run: the flag may go down.
RunFrame(e) ==
    /\ UNCHANGED <<usage, queue>>
    /\ request'.current = request.current /\ request'.async = request.async
    /\ request'.list = request.list
    /\ request'.busy => request.busy
    /\ manager'.enabled = manager.enabled /\ history'.waited = history.waited
    /\ Others(e) /\ thread'[e].task = thread[e].task /\ thread'[e].inInfer = thread[e].inInfer
    /\ thread[e].at \notin {"idle", "notifying"} /\ thread'[e].at \notin {"idle", "locking"}
    /\ thread'[e].at \notin {"copying", "notifying"} => thread'[e].copy = thread[e].task
    /\ OnlyTask(thread[e].task)
    /\ tasks[thread[e].task].runner \in {Nil, e} /\ tasks'[thread[e].task].runner = e

\* A step of the request executor while it runs a task.
RequestRuns ==
    /\ RunFrame("request")
    /\ Rq'.at \in RequestPlaces
    /\ "callback" \in usage => Rq'.at # "throwing"
    /\ Rq'.at \in {"reoccupying", "requeuing"} => IsCallbackEnabled
    /\ RequestFlies' \/ Rq'.at = "ending" => RequestFlies
    /\ RequestFlies \/ UNCHANGED tasks \/ "callback" \notin usage
    /\ tasks'[Rq.task].status \in {"BUSY", "POSTPONED"} \cup Final
    /\ tasks'[Rq.task].status = "BUSY" => \/ Rq'.at = "requeuing"
                                          \/ ~RequestFlies /\ UNCHANGED tasks
    /\ tasks'[Rq.task].status \in Final => Rq'.at = "notifying"

LEMMA RequestRunsMove == ASSUME Inv, RequestRuns PROVE ExecutorMoves("request")
<1> USE DEF RequestRuns, RunFrame
<1>1. Rq' = thread'["request"] /\ Rq.task \in Slots /\ Rq.task \in Tasks /\ Rq.at \in RequestPlaces
  BY Names, TasksNamed DEF Rq, Inv, ClientInv, PlacesOK
<1>2. ~Begins("request") /\ ~Begins("request")'
  BY <1>1 DEF Begins, RequestPlaces, Failing, Starting, Syncing, Rq
<1>3. ~Settled
  BY DEF Settled, RequestRests, Rq
<1>4. tasks[Rq.task].status \in {"BUSY", "POSTPONED"}
  BY <1>1 DEF Inv, FlightInv, RequestStatusOK, RequestPlaces, Failing, Is, Rq
<1>5. Cb' = Cb
  BY OthersAre
<1>6. /\ \A k \in Slots : /\ tasks[k].status \in Final \cup {"INITIAL"}
                               => tasks'[k].status \in Final \cup {"INITIAL"}
                          /\ tasks'[k].status = "INITIAL" <=> tasks[k].status = "INITIAL"
      /\ tasks'[Sync] = tasks[Sync]
  BY <1>1, <1>4, Names DEF OnlyTask, Final, Rq
<1> QED
  BY <1>1, <1>2, <1>3, <1>5, <1>6 DEF ExecutorMoves, Inv, ClientInv, PlacesOK, EnabledOK, Rq

LEMMA RequestKeeps ==
    ASSUME Inv, RequestRuns, RequestStatusOK'
    PROVE  FlightInv' /\ (Flight' => Flight)
<1> USE DEF RequestRuns, RunFrame
<1>1. ExecutorMoves("request") /\ "request" \in Executors
  BY RequestRunsMove, Names
<1>2. Rq' = thread'["request"] /\ Rq = thread["request"] /\ Cb' = Cb
      /\ Rq.task \in Slots /\ Rq.task \in Tasks /\ Rq.at \in RequestPlaces
  BY OthersAre, Names, TasksNamed DEF Rq, Inv, ClientInv, PlacesOK
<1>3. Cb.at \notin {"idle", "locking"} => Cb.task # Rq.task
  BY <1>2, Names, TasksNamed DEF Inv, FlightInv, RunnersOK, Cb, Executors
<1>4. /\ OneAtATime' /\ CurrentOK' /\ (Flight' => Flight)
      /\ CallbackFlies' <=> CallbackFlies
  <2>1. CallbackFlies' <=> CallbackFlies
    BY <1>2 DEF CallbackFlies
  <2> QED
    BY <1>1, <1>2, <2>1, ExecutorFlies
<1>5. RunnersOK'
  BY <1>2, <1>3, Names, TasksNamed DEF Inv, FlightInv, RunnersOK, OnlyTask, Executors, Cb
<1>6. CallbackStatusOK'
  <2>1. Cb.at \notin {"idle", "notifying"} => tasks'[Cb.task] = tasks[Cb.task]
    <3>1. CASE Cb.at = "locking"
      BY <1>2, <3>1, TasksNamed DEF Inv, FlightInv, OneAtATime, CallbackFlies, ClientInv, PlacesOK
    <3>2. CASE Cb.at \notin {"idle", "notifying", "locking"}
      BY <1>2, <1>3, <3>2, TasksNamed DEF OnlyTask
    <3> QED
      BY <3>1, <3>2
  <2> QED
    BY <1>2, <2>1 DEF Inv, FlightInv, CallbackStatusOK, CalledBack, Starting, Failing, Is
<1>7. \A p \in Threads : /\ At(p, "occupying")' <=> At(p, "occupying")
                         /\ At(p, "pushing")' <=> At(p, "pushing")
                         /\ thread[p].at \in {"occupying", "pushing"} => Begins(p)
  BY <1>1, ExecutorFrame DEF Starting, At, Begins
<1>8. tasks[Rq.task].status \in {"BUSY", "POSTPONED"}
      /\ (~RequestFlies /\ "callback" \notin usage => tasks[Rq.task].status = "POSTPONED")
  <2>1. tasks[Rq.task].status \in {"BUSY", "POSTPONED"}
    BY <1>2 DEF Inv, FlightInv, RequestStatusOK, RequestPlaces, Failing, Is
  <2>2. ~RequestFlies /\ "callback" \notin usage => tasks[Rq.task].status = "POSTPONED"
    BY <1>2 DEF Inv, FlightInv, RequestStatusOK, RequestPlaces, Failing, Is, RequestFlies,
       ClientInv, PlacesOK
  <2> QED
    BY <2>1, <2>2
<1>9. StatusOK'
  <2>1. ASSUME NEW p \in Threads, thread[p].at \in {"occupying", "pushing"}
        PROVE  tasks'[request.current] = tasks[request.current]
    <3>1. ~RequestFlies
      BY <1>7, <2>1 DEF SomeBegins, Flight, Inv, FlightInv, OneAtATime
    <3>2. CASE "callback" \notin usage
      <4>1. request.current # Rq.task
        BY <1>8, <2>1, <3>1, <3>2 DEF Inv, FlightInv, CurrentOK, StatusOK, Final, At
      <4> QED
        BY <1>2, <4>1, TasksNamed DEF OnlyTask
    <3> QED
      BY <3>1, <3>2
  <2>2. \A p \in Threads : thread'[p].at \in {"occupying", "pushing"} => tasks'[request.current].stage = 2
    BY <1>7, <2>1 DEF Inv, FlightInv, StatusOK, At
  <2>3. \A p \in Threads : At(p, "pushing")' => tasks'[request.current].status = "BUSY"
    BY <1>7, <2>1 DEF Inv, FlightInv, StatusOK, At
  <2>4. queue["request"] # <<>> \/ queue["callback"] # <<>>
          => tasks'[request.current] = tasks[request.current]
    <3>1. SUFFICES ASSUME queue["request"] # <<>> \/ queue["callback"] # <<>>
                   PROVE  tasks'[request.current] = tasks[request.current]
      OBVIOUS
    <3>2. ~RequestFlies
      BY <3>1 DEF Inv, FlightInv, OneAtATime
    <3>3. CASE "callback" \notin usage
      <4>1. request.current # Rq.task
        BY <1>8, <3>1, <3>2, <3>3 DEF Inv, FlightInv, StatusOK, Is
      <4> QED
        BY <1>2, <4>1, TasksNamed DEF OnlyTask
    <3> QED
      BY <3>2, <3>3
  <2>5. ASSUME NEW k \in Slots, tasks'[k].status = "BUSY"
        PROVE  k = request.current /\ (Flight' \/ \E p \in Threads : At(p, "pushing")')
    <3>1. CASE Rq'.at = "requeuing" /\ k = Rq.task
      <4>1. RequestFlies' /\ RequestFlies
        BY <3>1 DEF RequestFlies
      <4> QED
        BY <3>1, <4>1 DEF Flight, Inv, FlightInv, CurrentOK
    <3>2. CASE ~(Rq'.at = "requeuing" /\ k = Rq.task)
      <4>1. tasks[k].status = "BUSY" /\ ~(RequestFlies /\ k = Rq.task)
        BY <1>2, <2>5, <3>2, Names DEF OnlyTask
      <4>2. k = request.current /\ (Flight \/ \E p \in Threads : At(p, "pushing"))
        BY <4>1 DEF Inv, FlightInv, StatusOK
      <4>3. ~RequestFlies
        BY <4>1, <4>2 DEF Inv, FlightInv, CurrentOK
      <4> QED
        BY <1>4, <1>7, <4>2, <4>3 DEF Flight
    <3> QED
      BY <3>1, <3>2
  <2>6. request.current # Sync /\ tasks'[request.current].status = "INITIAL"
          => \E p \in Threads : At(p, "occupying")'
    BY <1>1, <1>7, Names, TasksNamed DEF ExecutorMoves, Inv, FlightInv, StatusOK
  <2>7. request'.current = request.current /\ UNCHANGED queue
    OBVIOUS
  <2> QED
    BY <2>2, <2>3, <2>4, <2>5, <2>6, <2>7 DEF Inv, FlightInv, StatusOK, Is
<1>10. AfterLowering'
  BY <1>1, <1>2, ExecutorFrame DEF Inv, FlightInv, AfterLowering, RequestRests
<1>11. FinalIsSettled'
  <2> SUFFICES ASSUME IsOneClient, request.current # Sync, tasks'[request.current].status \in Final,
                      \A p \in Threads : ~At(p, "occupying")
               PROVE  Settled'
    BY <1>1, <1>7, ExecutorFrame DEF FinalIsSettled
  <2>1. request.current = Rq.task /\ Rq'.at = "notifying" /\ tasks # tasks'
    BY <1>1, <1>2, Names, TasksNamed DEF ExecutorMoves, Inv, FlightInv, FinalIsSettled, OnlyTask
  <2>2. queue["request"] = <<>> /\ queue["callback"] = <<>>
    BY <1>8, <2>1 DEF Inv, FlightInv, OneAtATime, StatusOK, Is
  <2>3. Cb.at \in {"idle", "notifying"}
    BY <1>2, <2>1 DEF Inv, FlightInv, AfterLowering, RequestRests, OneAtATime, CallbackFlies,
       ClientInv, PlacesOK
  <2> QED
    BY <1>2, <2>1, <2>2, <2>3 DEF Settled, RequestRests, CallbackRests
<1> QED
  BY <1>4, <1>5, <1>6, <1>9, <1>10, <1>11 DEF FlightInv

\* A step of the callback executor while it runs a task.
CallbackRuns ==
    /\ RunFrame("callback")
    /\ Cb'.at \in CallbackPlaces \ Starting
    /\ Cb.at \notin Starting
    /\ CallbackFlies' => CallbackFlies
    /\ Cb.at = "locking" => Cb'.at # "notifying"
    /\ tasks'[Cb.task].status \in {"POSTPONED"} \cup Final
    /\ tasks'[Cb.task].status \in Final => Cb'.at = "notifying"

LEMMA CallbackRunsMove == ASSUME Inv, CallbackRuns PROVE ExecutorMoves("callback")
<1> USE DEF CallbackRuns, RunFrame
<1>1. Cb' = thread'["callback"] /\ Cb.task \in Slots /\ Cb.task \in Tasks /\ Cb.at \in CallbackPlaces
      /\ "callback" \in usage
  BY Names, TasksNamed DEF Cb, Inv, ClientInv, PlacesOK
<1>2. ~Begins("callback") /\ ~Begins("callback")'
  BY <1>1 DEF Begins, CallbackPlaces, CalledBack, Failing, Starting, Syncing, Cb
<1>3. ~Settled
  BY DEF Settled, CallbackRests, Cb
<1>4. tasks[Cb.task].status \in {"BUSY", "POSTPONED"}
  BY <1>1 DEF Inv, FlightInv, CallbackStatusOK, CallbackPlaces, CalledBack, Failing, Is, Cb
<1>5. Rq' = Rq
  BY OthersAre
<1>6. /\ \A k \in Slots : /\ tasks[k].status \in Final \cup {"INITIAL"}
                               => tasks'[k].status \in Final \cup {"INITIAL"}
                          /\ tasks'[k].status = "INITIAL" <=> tasks[k].status = "INITIAL"
      /\ tasks'[Sync] = tasks[Sync]
  BY <1>1, <1>4, Names DEF OnlyTask, Final, Cb
<1>7. IsCallbackEnabled
  BY DEF Inv, ClientInv, EnabledOK, Cb
<1> QED
  BY <1>1, <1>2, <1>3, <1>5, <1>6, <1>7 DEF ExecutorMoves, Inv, ClientInv, PlacesOK, Cb

LEMMA CallbackKeeps ==
    ASSUME Inv, CallbackRuns, CallbackStatusOK'
    PROVE  /\ FlightInv'
           /\ Flight' => Flight
           /\ EndsPlainly' <=> EndsPlainly
<1> USE DEF CallbackRuns, RunFrame
<1>1. ExecutorMoves("callback") /\ "callback" \in Executors
  BY CallbackRunsMove, Names
<1>2. Cb' = thread'["callback"] /\ Cb = thread["callback"] /\ Rq' = Rq
      /\ Cb.task \in Slots /\ Cb.task \in Tasks /\ Cb.at \in CallbackPlaces
      /\ "callback" \in usage
  BY OthersAre, Names, TasksNamed DEF Cb, Inv, ClientInv, PlacesOK
<1>3. Rq.at \notin {"idle", "locking"} => Rq.task # Cb.task /\ tasks'[Rq.task] = tasks[Rq.task]
  BY <1>2, Names, TasksNamed DEF Inv, FlightInv, RunnersOK, Rq, Executors, OnlyTask
<1>4. (RequestFlies' <=> RequestFlies) /\ (EndsPlainly' <=> EndsPlainly)
  BY <1>2, <1>3 DEF RequestFlies, EndsPlainly
<1>5. OneAtATime' /\ CurrentOK' /\ (Flight' => Flight)
  BY <1>1, <1>2, <1>4, ExecutorFlies
<1>6. RunnersOK'
  BY <1>2, <1>3, Names, TasksNamed DEF Inv, FlightInv, RunnersOK, OnlyTask, Executors, Rq
<1>7. tasks[Cb.task].status \in {"BUSY", "POSTPONED"}
      /\ (tasks[Cb.task].status = "BUSY" <=> Cb.at = "locking")
  BY <1>2 DEF Inv, FlightInv, CallbackStatusOK, CallbackPlaces, Failing, CalledBack, Starting, Is
<1>8. Cb.at = "locking" => Cb.task = request.current /\ queue["request"] = <<>>
                           /\ queue["callback"] = <<>> /\ ~SomeBegins /\ Rq.at \in {"idle", "notifying"}
  <2> SUFFICES ASSUME Cb.at = "locking"
               PROVE  Cb.task = request.current /\ queue["request"] = <<>>
                      /\ queue["callback"] = <<>> /\ ~SomeBegins /\ Rq.at \in {"idle", "notifying"}
    OBVIOUS
  <2>1. CallbackFlies
    BY DEF CallbackFlies
  <2>2. Cb.task = request.current /\ queue["request"] = <<>> /\ queue["callback"] = <<>>
        /\ ~SomeBegins /\ ~RequestFlies
    BY <2>1 DEF Inv, FlightInv, CurrentOK, OneAtATime, Flight
  <2>3. Rq.at # "ending"
    BY <1>3, <2>2 DEF Inv, FlightInv, CurrentOK
  <2>4. Rq.at \in {"idle", "notifying"}
    BY <1>2, <2>2, <2>3 DEF RequestFlies, Inv, ClientInv, PlacesOK, RequestPlaces, Failing
  <2> QED
    BY <2>2, <2>4
<1>9. RequestStatusOK'
  <2>1. Rq.at = "locking" => tasks'[Rq.task] = tasks[Rq.task]
    BY <1>2, <1>7, <1>8, TasksNamed DEF OnlyTask, Inv, FlightInv, RequestStatusOK, Is
  <2>2. Rq.at = "ending" => Cb.at # "locking"
    BY <1>8
  <2> QED
    BY <1>2, <1>3, <2>1, <2>2 DEF Inv, FlightInv, RequestStatusOK, Failing, Is
<1>10. \A p \in Threads : /\ At(p, "occupying")' <=> At(p, "occupying")
                          /\ At(p, "pushing")' <=> At(p, "pushing")
                          /\ thread[p].at \in {"occupying", "pushing"} => SomeBegins
  BY <1>1, ExecutorFrame DEF Starting, At, Begins, SomeBegins
<1>11. StatusOK'
  <2>1. \/ queue["request"] # <<>> \/ queue["callback"] # <<>>
        \/ \E p \in Threads : thread[p].at \in {"occupying", "pushing"}
        => request.current # Cb.task /\ tasks'[request.current] = tasks[request.current]
    <3> SUFFICES ASSUME \/ queue["request"] # <<>> \/ queue["callback"] # <<>>
                        \/ \E p \in Threads : thread[p].at \in {"occupying", "pushing"}
                 PROVE  request.current # Cb.task
      BY <1>2, TasksNamed DEF OnlyTask
    <3>1. tasks[Cb.task].status = "POSTPONED"
      BY <1>7, <1>8, <1>10
    <3> QED
      BY <3>1 DEF Inv, FlightInv, StatusOK, CurrentOK, Is, At, Final
  <2>2. ASSUME NEW k \in Slots, tasks'[k].status = "BUSY"
        PROVE  k = request.current /\ (Flight' \/ \E p \in Threads : At(p, "pushing")')
    <3>1. k # Cb.task /\ tasks[k].status = "BUSY"
      BY <1>2, <2>2, Names DEF OnlyTask, Final
    <3>2. k = request.current /\ (Flight \/ \E p \in Threads : At(p, "pushing"))
      BY <3>1 DEF Inv, FlightInv, StatusOK
    <3>3. ~CallbackFlies
      BY <3>1, <3>2 DEF Inv, FlightInv, CurrentOK
    <3> QED
      BY <1>4, <1>10, <3>2, <3>3 DEF Flight
  <2>3. request.current # Sync /\ tasks'[request.current].status = "INITIAL"
          => \E p \in Threads : At(p, "occupying")'
    BY <1>1, <1>10, Names, TasksNamed DEF ExecutorMoves, Inv, FlightInv, StatusOK
  <2>4. request'.current = request.current /\ UNCHANGED queue
    OBVIOUS
  <2>5. \A p \in Threads : thread'[p].at \in {"occupying", "pushing"} => tasks'[request.current].stage = 2
    BY <1>10, <2>1 DEF Inv, FlightInv, StatusOK, At
  <2>6. \A p \in Threads : At(p, "pushing")' => tasks'[request.current].status = "BUSY"
    BY <1>10, <2>1 DEF Inv, FlightInv, StatusOK, At
  <2> QED
    BY <2>1, <2>2, <2>3, <2>4, <2>5, <2>6 DEF Inv, FlightInv, StatusOK, Is
<1>12. AfterLowering'
  BY <1>1, <1>2, <1>8, ExecutorFrame DEF Inv, FlightInv, AfterLowering, RequestRests
<1>13. FinalIsSettled'
  <2> SUFFICES ASSUME IsOneClient, request.current # Sync, tasks'[request.current].status \in Final,
                      \A p \in Threads : ~At(p, "occupying")
               PROVE  Settled'
    BY <1>1, <1>10, ExecutorFrame DEF FinalIsSettled
  <2>1. request.current = Cb.task /\ Cb'.at = "notifying"
    BY <1>1, <1>2, Names, TasksNamed DEF ExecutorMoves, Inv, FlightInv, FinalIsSettled, OnlyTask
  <2>2. RequestRests /\ queue["callback"] = <<>>
    BY <2>1 DEF Inv, FlightInv, AfterLowering, Cb
  <2> QED
    BY <1>2, <2>1, <2>2 DEF Settled, RequestRests, CallbackRests
<1> QED
  BY <1>4, <1>5, <1>6, <1>9, <1>11, <1>12, <1>13 DEF FlightInv

LEMMA RequestStep ==
    ASSUME Inv, RequestRuns, TypeOK', RequestStatusOK', CountOK', OutcomeOK',
           \/ GuardOK'
           \/ request'.busy = request.busy /\ (Pending' => Pending)
    PROVE  Inv'
<1>1. ExecutorMoves("request") /\ "request" \in Executors
  BY RequestRunsMove, Names
<1>2. FlightInv' /\ (Flight' => Flight)
  BY RequestKeeps
<1>3. UsageOK' /\ PlacesOK' /\ EnabledOK' /\ ListOK' /\ WaitsOK' /\ PatienceOK'
  BY <1>1, ExecutorKeeps
<1>4. GuardOK'
  BY <1>1, <1>2, ExecutorGuards
<1> QED
  BY <1>2, <1>3, <1>4 DEF Inv, ClientInv

LEMMA CallbackStep ==
    ASSUME Inv, CallbackRuns, TypeOK', CallbackStatusOK', CountOK', OutcomeOK',
           GuardOK' \/ request'.busy = request.busy
    PROVE  Inv'
<1>1. ExecutorMoves("callback") /\ "callback" \in Executors
  BY CallbackRunsMove, Names
<1>2. FlightInv' /\ (Flight' => Flight)
  BY CallbackKeeps
<1>3. UsageOK' /\ PlacesOK' /\ EnabledOK' /\ ListOK' /\ WaitsOK' /\ PatienceOK'
  BY <1>1, ExecutorKeeps
<1>4. Pending' <=> Pending
  BY <1>1, ExecutorFrame DEF Pending, CallbackRuns, RunFrame
<1>5. GuardOK'
  BY <1>1, <1>2, <1>4, ExecutorGuards
<1> QED
  BY <1>2, <1>3, <1>5 DEF Inv, ClientInv

\* The inference is where it was, and so are the counts.
LEMMA RequestCounts ==
    ASSUME Inv, RequestRuns, UNCHANGED history, Pending' <=> Pending,
           RequestFlies' <=> RequestFlies, EndsPlainly' => EndsPlainly \/ ~IsCallbackEnabled
    PROVE  CountOK'
<1>1. Cb' = Cb /\ (IsCallbackEnabled' <=> IsCallbackEnabled)
  BY RequestRunsMove, ExecutorFrame, Names
<1>2. Flight' <=> Flight
  BY <1>1 DEF Flight, CallbackFlies, RequestRuns, RunFrame
<1> QED
  BY <1>1, <1>2 DEF Inv, CountOK

LEMMA CallbackCounts ==
    ASSUME Inv, CallbackRuns, CallbackStatusOK', UNCHANGED history,
           CallbackFlies' <=> CallbackFlies,
           Cb'.at \in {"lowered", "calling"} <=> Cb.at \in {"lowered", "calling"}
    PROVE  CountOK'
<1>1. Rq' = Rq /\ (IsCallbackEnabled' <=> IsCallbackEnabled)
  BY CallbackRunsMove, ExecutorFrame, Names
<1>2. EndsPlainly' <=> EndsPlainly
  BY CallbackKeeps
<1>3. RequestFlies' <=> RequestFlies
  BY <1>1, <1>2 DEF RequestFlies, EndsPlainly, CallbackRuns, RunFrame
<1>4. (Flight' <=> Flight) /\ (Pending' <=> Pending)
  BY <1>1, <1>3 DEF Flight, Pending, CallbackRuns, RunFrame
<1> QED
  BY <1>1, <1>2, <1>4 DEF Inv, CountOK

\* The outcome stays as it is kept.
LEMMA RequestOutcome ==
    ASSUME Inv, RequestRuns, UNCHANGED manager, history'.outcome = history.outcome,
           Pending' => Pending,
           \A k \in Tasks : tasks'[k].failed => tasks[k].failed \/ "fail" \in usage,
           \/ Rq'.at \in {"copying", "switching", "inferring", "ending", "settling", "notifying"}
           \/ Rq'.at = "throwing" /\ "fail" \in usage
           \/ Rq'.at = "failed" /\ Rq.at = "failing"
           \/ Rq'.at = "deciding" /\ Rq.at = "inferred"
           \/ Rq'.at = "reoccupying" /\ Rq.at = "deciding"
           \/ Rq'.at = "requeuing" /\ Rq.at = "reoccupying"
    PROVE  OutcomeOK'
<1>1. /\ Cb' = Cb
      /\ \A q \in Threads : thread'[q].at \in Starting => thread'[q].at = thread[q].at
  BY RequestRunsMove, ExecutorFrame, Names
<1>2. CallbackFlies' <=> CallbackFlies
  BY <1>1 DEF CallbackFlies
<1> QED
  BY <1>1, <1>2 DEF Inv, OutcomeOK, RequestRuns, RunFrame, Failing, Starting

LEMMA CallbackOutcome ==
    ASSUME Inv, CallbackRuns, UNCHANGED manager, history'.outcome = history.outcome,
           \A k \in Tasks : tasks'[k].failed => tasks[k].failed \/ "fail" \in usage,
           Cb'.at \in Failing => "fail" \in usage,
           Cb'.at \in {"lowered", "calling"} => CallbackFlies \/ Cb.at \in {"lowered", "calling"}
    PROVE  OutcomeOK'
<1>1. /\ Rq' = Rq
      /\ \A q \in Threads : thread'[q].at \in Starting => thread'[q].at = thread[q].at
  BY CallbackRunsMove, ExecutorFrame, Names
<1>2. Pending' <=> Pending
  BY <1>1 DEF Pending, CallbackRuns, RunFrame
<1> QED
  BY <1>1, <1>2 DEF Inv, OutcomeOK, CallbackRuns, RunFrame, Failing, Starting

LEMMA RunBeginTask ==
    ASSUME Inv, NEW e \in Executors, RunBegin(e)
    PROVE  LET k == thread[e].task IN
           /\ thread[e].at = "locking" /\ Goes(e, "copying") /\ k \in Slots /\ k \in Tasks
           /\ tasks[k].runner = Nil /\ tasks'[k].runner = e
           /\ OnlyTask(k) /\ ~tasks'[k].failed
           /\ tasks'[k].status = "POSTPONED" /\ tasks'[k].stage = tasks[k].stage
           /\ UNCHANGED <<usage, request, manager, queue, history>>
           /\ TypeOK'
<1> DEFINE k == thread[e].task
<1>1. thread[e].at = "locking" /\ e \in Threads /\ k \in Slots /\ k \in Tasks
      /\ tasks[k].runner = Nil
      /\ UNCHANGED <<usage, request, manager, queue, history>>
  BY Names, TasksNamed DEF RunBegin, Move, At
<1>2. tasks[k].stage # 0
  BY <1>1, Names DEF Inv, FlightInv, RequestStatusOK, CallbackStatusOK, Is, Rq, Cb
<1>3. Goes(e, "copying") /\ ThreadsOK'
  BY <1>1, PlaceNames, TypeParts, GoToGoes DEF RunBegin, Move
<1>4. TasksOK' /\ OnlyTask(k) /\ tasks'[k].runner = e /\ ~tasks'[k].failed
      /\ tasks'[k].status = "POSTPONED" /\ tasks'[k].stage = tasks[k].stage
  <2> DEFINE t == [tasks[k] EXCEPT !.runner = e, !.failed = FALSE, !.status = "POSTPONED"]
  <2>1. tasks' = [tasks EXCEPT ![k] = t]
    BY <1>1, <1>2, TypeParts DEF RunBegin, TasksOK
  <2>2. tasks[k] \in TaskStates
    BY <1>1, TypeParts DEF TasksOK
  <2>3. t \in TaskStates /\ t.runner = e /\ ~t.failed /\ t.status = "POSTPONED" /\ t.stage = tasks[k].stage
    BY <2>2, StatusNames DEF TaskStates
  <2> HIDE DEF t, k
  <2> QED
    BY <1>1, <2>1, <2>3, TypeParts DEF TasksOK, OnlyTask
<1>5. TypeOK'
  BY <1>1, <1>3, <1>4 DEF Inv, TypeOK, TasksOK, ThreadsOK
<1> QED
  BY <1>1, <1>3, <1>4, <1>5

LEMMA RequestRunBegin == ASSUME Inv, RunBegin("request") PROVE Inv'
<1>1. /\ Rq = thread["request"] /\ Rq' = thread'["request"] /\ "request" \in Executors
      /\ Rq.at = "locking" /\ Goes("request", "copying")
      /\ Rq.task \in Slots /\ Rq.task \in Tasks
      /\ tasks[Rq.task].runner = Nil /\ tasks'[Rq.task].runner = "request"
      /\ OnlyTask(Rq.task) /\ ~tasks'[Rq.task].failed
      /\ tasks'[Rq.task].status = "POSTPONED" /\ tasks'[Rq.task].stage = tasks[Rq.task].stage
      /\ UNCHANGED <<usage, request, manager, queue, history>>
      /\ TypeOK'
  BY RunBeginTask, Names DEF Rq
<1>2. RequestRuns /\ (Pending' <=> Pending) /\ (RequestFlies' <=> RequestFlies) /\ ~EndsPlainly'
  BY <1>1 DEF RequestRuns, RunFrame, RequestFlies, RequestPlaces, Goes, Pending, EndsPlainly, Final
<1>3. RequestStatusOK'
  BY <1>1 DEF Inv, FlightInv, RequestStatusOK, Goes, Is
<1>4. CountOK' /\ OutcomeOK'
  BY <1>1, <1>2, RequestCounts, RequestOutcome DEF Goes, OnlyTask
<1> QED
  BY <1>1, <1>2, <1>3, <1>4, RequestStep

LEMMA CallbackRunBegin == ASSUME Inv, RunBegin("callback") PROVE Inv'
<1>1. /\ Cb = thread["callback"] /\ Cb' = thread'["callback"] /\ "callback" \in Executors
      /\ Cb.at = "locking" /\ Goes("callback", "copying")
      /\ Cb.task \in Slots /\ Cb.task \in Tasks
      /\ tasks[Cb.task].runner = Nil /\ tasks'[Cb.task].runner = "callback"
      /\ OnlyTask(Cb.task) /\ ~tasks'[Cb.task].failed
      /\ tasks'[Cb.task].status = "POSTPONED" /\ tasks'[Cb.task].stage = tasks[Cb.task].stage
      /\ UNCHANGED <<usage, request, manager, queue, history>>
      /\ TypeOK'
  BY RunBeginTask, Names DEF Cb
<1>2. CallbackRuns /\ (CallbackFlies' <=> CallbackFlies)
  BY <1>1 DEF CallbackRuns, RunFrame, CallbackFlies, CallbackPlaces, Starting, Goes, Final
<1>3. CallbackStatusOK'
  BY <1>1 DEF Inv, FlightInv, CallbackStatusOK, CalledBack, Starting, Failing, Goes, Is
<1>4. CountOK' /\ OutcomeOK'
  BY <1>1, <1>2, <1>3, CallbackCounts, CallbackOutcome DEF Goes, OnlyTask, Failing
<1> QED
  BY <1>1, <1>2, <1>3, <1>4, CallbackStep

LEMMA RunBeginKeeps == ASSUME Inv, NEW e \in Executors, RunBegin(e) PROVE Inv'
BY RequestRunBegin, CallbackRunBegin, Names

\* An executor in its run.
LEMMA RunnerIs ==
    ASSUME Inv, NEW e \in Executors, thread[e].at \notin {"idle", "locking"}
    PROVE  /\ e \in Threads /\ thread[e].task \in Slots /\ thread[e].task \in Tasks
           /\ tasks[thread[e].task].runner = e
           /\ thread[e].at \notin {"copying", "notifying"} => thread[e].copy = thread[e].task
           /\ Rq = thread["request"] /\ Cb = thread["callback"]
           /\ Rq' = thread'["request"] /\ Cb' = thread'["callback"]
           /\ "request" \in Executors /\ "callback" \in Executors
BY Names, TasksNamed DEF Inv, FlightInv, RunnersOK, Rq, Cb

\* What flies has no task but the current one.
LEMMA FlightCopies == ASSUME Inv, Flight PROVE request.async = request.current /\ request.async \in Slots
<1>1. request.current # Sync /\ request.current \in Slots /\ \A p \in Threads : ~Begins(p)
  BY TasksNamed, Names DEF Inv, FlightInv, CurrentOK, OneAtATime, SomeBegins
<1>2. \A p \in Threads : ~At(p, "preparing")
  BY <1>1 DEF Begins, Starting, At
<1> QED
  BY <1>1, <1>2 DEF Inv, FlightInv, CurrentOK

LEMMA CopyAsyncTaskMoves ==
    ASSUME Inv, NEW e \in Executors, CopyAsyncTask(e)
    PROVE  /\ thread[e].at = "copying" /\ thread'[e].at = "switching"
           /\ thread'[e].task = thread[e].task /\ thread'[e].copy = thread[e].task
           /\ thread'[e].inInfer = thread[e].inInfer /\ Others(e)
           /\ UNCHANGED <<usage, request, tasks, manager, queue, history>>
           /\ TypeOK'
<1>1. e \in Threads /\ thread[e].at = "copying"
      /\ UNCHANGED <<usage, request, tasks, manager, queue, history>>
  BY Names DEF CopyAsyncTask, At
<1>2. Flight /\ thread[e].task = request.current
  BY <1>1, Names DEF Flight, RequestFlies, CallbackFlies, Rq, Cb, Inv, FlightInv, CurrentOK
<1>3. request.async = thread[e].task /\ request.async \in Slots
  BY <1>2, FlightCopies
<1>4. /\ ThreadsOK' /\ Others(e) /\ thread'[e].at = "switching"
      /\ thread'[e].task = thread[e].task /\ thread'[e].copy = request.async
      /\ thread'[e].inInfer = thread[e].inInfer
  <2>1. ASSUME NEW k \in Slots,
               thread' = [thread EXCEPT ![e].at = "switching", ![e].copy = k]
        PROVE  /\ ThreadsOK' /\ Others(e) /\ thread'[e].at = "switching"
               /\ thread'[e].task = thread[e].task /\ thread'[e].copy = k
               /\ thread'[e].inInfer = thread[e].inInfer
    BY <1>1, <2>1, PlaceNames, TypeParts, ZenonT(60) DEF ThreadsOK, ThreadStates, Others
  <2> QED
    BY <1>3, <2>1 DEF CopyAsyncTask
<1>5. TypeOK'
  BY <1>1, <1>4 DEF Inv, TypeOK, ThreadsOK
<1> QED
  BY <1>1, <1>3, <1>4, <1>5

LEMMA CopyAsyncTaskKeeps == ASSUME Inv, NEW e \in Executors, CopyAsyncTask(e) PROVE Inv'
<1>1. CASE e = "request"
  <2>1. RequestRuns /\ (Pending' <=> Pending) /\ (RequestFlies' <=> RequestFlies) /\ ~EndsPlainly'
    BY <1>1, CopyAsyncTaskMoves, RunnerIs DEF RequestRuns, RunFrame, RequestFlies, RequestPlaces, OnlyTask,
       Pending, EndsPlainly, Final, Inv, FlightInv, RequestStatusOK, Is
  <2>2. RequestStatusOK'
    BY <1>1, CopyAsyncTaskMoves, RunnerIs DEF Inv, FlightInv, RequestStatusOK, Is
  <2>3. CountOK' /\ OutcomeOK'
    BY <1>1, <2>1, CopyAsyncTaskMoves, RunnerIs, RequestCounts, RequestOutcome
  <2> QED
    BY <2>1, <2>2, <2>3, CopyAsyncTaskMoves, RequestStep
<1>2. CASE e = "callback"
  <2>1. CallbackRuns /\ (CallbackFlies' <=> CallbackFlies)
    BY <1>2, CopyAsyncTaskMoves, RunnerIs DEF CallbackRuns, RunFrame, CallbackFlies, CallbackPlaces, OnlyTask,
       Starting, Final, Inv, FlightInv, CallbackStatusOK, Is
  <2>2. CallbackStatusOK'
    BY <1>2, CopyAsyncTaskMoves, RunnerIs DEF Inv, FlightInv, CallbackStatusOK, CalledBack, Starting,
       Failing, Is
  <2>3. CountOK' /\ OutcomeOK'
    BY <1>2, <2>1, <2>2, CopyAsyncTaskMoves, RunnerIs, CallbackCounts, CallbackOutcome DEF Failing
  <2> QED
    BY <2>1, <2>2, <2>3, CopyAsyncTaskMoves, CallbackStep
<1> QED
  BY <1>1, <1>2, Names

\* A step of a run that changes the place only.
LEMMA RunGoes ==
    ASSUME Inv, NEW e \in Executors, thread[e].at \notin {"idle", "locking"},
           NEW to \in Places, GoTo(e, to), UNCHANGED <<usage, tasks, queue>>
    PROVE  Goes(e, to) /\ ThreadsOK' /\ OnlyTask(thread[e].task)
           /\ (RequestOK' /\ UNCHANGED <<manager, history>> => TypeOK')
<1>1. Goes(e, to) /\ ThreadsOK'
  BY RunnerIs, GoToGoes, TypeParts
<1> QED
  BY <1>1 DEF OnlyTask, Inv, TypeOK, ThreadsOK, RequestOK

LEMMA SwitchStageKeeps == ASSUME Inv, NEW e \in Executors, SwitchStage(e) PROVE Inv'
<1>1. thread[e].at = "switching" /\ UNCHANGED <<usage, request, tasks, manager, queue, history>>
  BY DEF SwitchStage, Move, At
<1>2. CASE e = "request"
  <2>1. Is(Rq.task, "POSTPONED", 2)
    BY <1>1, <1>2 DEF Inv, FlightInv, RequestStatusOK, Rq
  <2>2. Goes("request", "inferring") /\ TypeOK' /\ OnlyTask(Rq.task)
    <3>1. GoTo(e, "inferring")
      BY <1>1, <1>2, <2>1, RunnerIs DEF SwitchStage, Move, StageOf, Is
    <3> QED
      BY <1>1, <1>2, <3>1, RunGoes, RunnerIs, PlaceNames, TypeParts DEF RequestOK
  <2>3. RequestRuns /\ (Pending' <=> Pending) /\ (RequestFlies' <=> RequestFlies) /\ ~EndsPlainly'
    BY <1>1, <1>2, <2>1, <2>2, RunnerIs DEF RequestRuns, RunFrame, RequestFlies, RequestPlaces,
       Pending, EndsPlainly, Final, Is, Goes
  <2>4. RequestStatusOK'
    BY <1>1, <1>2, <2>1, <2>2, RunnerIs DEF RequestStatusOK, Is, Goes
  <2>5. CountOK' /\ OutcomeOK'
    BY <1>1, <1>2, <2>2, <2>3, RunnerIs, RequestCounts, RequestOutcome DEF Goes
  <2> QED
    BY <1>1, <2>2, <2>3, <2>4, <2>5, RequestStep
<1>3. CASE e = "callback"
  <2>1. Is(Cb.task, "POSTPONED", 1)
    BY <1>1, <1>3 DEF Inv, FlightInv, CallbackStatusOK, Cb
  <2>2. Goes("callback", "lowering") /\ TypeOK' /\ OnlyTask(Cb.task)
    <3>1. GoTo(e, "lowering")
      BY <1>1, <1>3, <2>1, RunnerIs DEF SwitchStage, Move, StageOf, Is
    <3> QED
      BY <1>1, <1>3, <3>1, RunGoes, RunnerIs, PlaceNames, TypeParts DEF RequestOK
  <2>3. CallbackRuns /\ (CallbackFlies' <=> CallbackFlies)
    BY <1>1, <1>3, <2>1, <2>2, RunnerIs DEF CallbackRuns, RunFrame, CallbackFlies, CallbackPlaces,
       Starting, Final, Is, Goes
  <2>4. CallbackStatusOK'
    BY <1>1, <1>3, <2>1, <2>2, RunnerIs DEF CallbackStatusOK, CalledBack, Starting, Failing, Is, Goes
  <2>5. CountOK' /\ OutcomeOK'
    BY <1>1, <1>3, <2>2, <2>3, <2>4, RunnerIs, CallbackCounts, CallbackOutcome DEF Goes, Failing
  <2> QED
    BY <1>1, <2>2, <2>3, <2>4, <2>5, CallbackStep
<1> QED
  BY <1>2, <1>3, Names

\* Which executor a place belongs to.
LEMMA WhoseStep ==
    ASSUME Inv, NEW e \in Executors
    PROVE  /\ thread[e].at \in {"inferring", "inferred", "deciding", "reoccupying", "requeuing"}
                => e = "request"
           /\ thread[e].at \in {"lowering", "lowered", "calling", "inCallback", "calledBack"}
                => e = "callback"
BY Names DEF Inv, ClientInv, PlacesOK, RequestPlaces, CallbackPlaces, CalledBack, Failing, Starting,
   Rq, Cb

LEMMA InferKeeps == ASSUME Inv, NEW e \in Executors, Infer(e) PROVE Inv'
<1>1. /\ e = "request" /\ Rq.at = "inferring" /\ Rq = thread["request"] /\ Rq' = thread'["request"]
      /\ UNCHANGED <<usage, request, tasks, manager, queue>>
      /\ Rq.task \in Slots /\ Is(Rq.task, "POSTPONED", 2)
  BY WhoseStep, TasksNamed DEF Infer, Move, At, Rq, Inv, FlightInv, RequestStatusOK
<1>2. /\ RequestFlies /\ queue["request"] = <<>> /\ queue["callback"] = <<>> /\ ~CallbackFlies
      /\ ~SomeBegins /\ Pending
  BY <1>1 DEF RequestFlies, Pending, Flight, Inv, FlightInv, OneAtATime
<1>3. PICK outcome \in Outcomes :
         /\ GoTo("request", IF outcome = "OK" THEN "inferred" ELSE "failing")
         /\ history' = [history EXCEPT !.inferred = @ + 1, !.outcome = outcome]
  BY <1>1 DEF Infer, Move
<1>4. outcome \in {"OK", "ERROR"} /\ ("fail" \notin usage => outcome = "OK")
  BY DEF Outcomes
<1>5. Goes("request", IF outcome = "OK" THEN "inferred" ELSE "failing") /\ ThreadsOK'
      /\ OnlyTask(Rq.task)
  BY <1>1, <1>3, <1>4, RunGoes, PlaceNames, Names
<1>6. /\ history' \in [accepted : Nat, due : Nat, inferred : Nat, called : Nat,
                       outcome : {"OK", "ERROR"}, waited : BOOLEAN]
      /\ history'.accepted = history.accepted /\ history'.due = history.due
      /\ history'.inferred = history.inferred + 1 /\ history'.called = history.called
      /\ history'.outcome = outcome /\ history'.waited = history.waited
  <2> DEFINE Histories == [accepted : Nat, due : Nat, inferred : Nat, called : Nat,
                           outcome : {"OK", "ERROR"}, waited : BOOLEAN]
  <2>1. history \in Histories
    BY DEF Inv, TypeOK
  <2>2. history.inferred + 1 \in Nat
    BY <2>1
  <2>3. ASSUME NEW n \in Nat PROVE [history EXCEPT !.inferred = n, !.outcome = outcome] \in Histories
    BY <1>4, <2>1
  <2> QED
    BY <1>3, <2>1, <2>2, <2>3
<1>7. TypeOK'
  BY <1>1, <1>5, <1>6 DEF Inv, TypeOK, ThreadsOK
<1>8. RequestRuns /\ ~Pending' /\ RequestFlies' /\ ~EndsPlainly'
  BY <1>1, <1>2, <1>4, <1>5, <1>6, RunnerIs, Names DEF RequestRuns, RunFrame, RequestFlies, RequestPlaces,
     Pending, EndsPlainly, Final, Failing, Is, Goes
<1>9. RequestStatusOK'
  BY <1>1, <1>4, <1>5 DEF RequestStatusOK, Is, Goes
<1>10. Cb' = Cb /\ (IsCallbackEnabled' <=> IsCallbackEnabled)
       /\ \A q \in Threads : ~Begins(q)'
  BY <1>2, <1>8, RequestRunsMove, ExecutorFrame, Names DEF SomeBegins
<1>11. CountOK'
  <2>1. Flight /\ Flight'
    BY <1>2, <1>8 DEF Flight
  <2>2. /\ history.accepted \in Nat /\ history.due \in Nat
        /\ history.inferred \in Nat /\ history.called \in Nat
    BY DEF Inv, TypeOK
  <2> QED
    BY <1>2, <1>6, <1>8, <1>10, <2>1, <2>2 DEF Inv, CountOK
<1>12. OutcomeOK'
  <2>1. CASE "fail" \notin usage
    BY <1>1, <1>4, <1>5, <1>6, <1>10, <2>1 DEF Inv, OutcomeOK, Goes, Failing
  <2>2. CASE "fail" \in usage
    <3>1. Cb.at \notin {"lowered", "calling"}
      BY <1>1, <2>2 DEF Inv, ClientInv, UsageOK, Relayed, IsOneClient, FlightInv, AfterLowering, RequestRests
    <3>2. "callback" \in usage => manager.status = "OK"
      BY <1>2, <2>2 DEF Inv, OutcomeOK
    <3>3. ~CallbackFlies' /\ queue'["callback"] = <<>>
      BY <1>1, <1>2, <1>10 DEF CallbackFlies
    <3> QED
      BY <1>1, <1>4, <1>5, <1>6, <1>8, <1>10, <2>2, <3>1, <3>2, <3>3 DEF OutcomeOK, Goes, Begins, Starting
  <2> QED
    BY <2>1, <2>2
<1> QED
  BY <1>1, <1>7, <1>8, <1>9, <1>11, <1>12, RequestStep

\* A stage of the task of a run is done.
LEMMA StageDoneMoves ==
    ASSUME Inv, NEW e \in Executors, thread[e].at \notin {"idle", "locking", "copying", "notifying"},
           NEW to \in Places, StageDone(e, to), NEW s \in {1, 2}, tasks[thread[e].task].stage = s,
           UNCHANGED <<usage, request, manager, queue, history>>
    PROVE  LET k == thread[e].task IN
           /\ Goes(e, to) /\ OnlyTask(k) /\ TypeOK'
           /\ tasks'[k].stage = s - 1 /\ tasks'[k].status = tasks[k].status
           /\ tasks'[k].failed = tasks[k].failed /\ tasks'[k].runner = e
<1> DEFINE k == thread[e].task
<1>1. thread[e].copy = k /\ k \in Tasks /\ tasks[k].runner = e
  BY RunnerIs
<1>2. GoTo(e, to) /\ tasks' = [tasks EXCEPT ![k].stage = s - 1]
  <2>1. GoTo(e, to) /\ tasks' = [tasks EXCEPT ![k].stage = @ - 1]
    BY <1>1 DEF StageDone, StageOf
  <2>2. tasks' = [tasks EXCEPT ![k].stage = s - 1]
    BY <1>1, <2>1, TypeParts DEF TasksOK
  <2> QED
    BY <2>1, <2>2
<1>3. Goes(e, to) /\ ThreadsOK'
  BY <1>2, RunnerIs, GoToGoes, TypeParts
<1>4. TasksOK' /\ OnlyTask(k) /\ tasks'[k].stage = s - 1 /\ tasks'[k].status = tasks[k].status
      /\ tasks'[k].failed = tasks[k].failed /\ tasks'[k].runner = e
  <2>1. s - 1 \in 0..2
    OBVIOUS
  <2> QED
    BY <1>1, <1>2, <2>1, StageSet, TypeParts
<1>5. TypeOK'
  BY <1>3, <1>4 DEF Inv, TypeOK, ThreadsOK, TasksOK
<1> QED
  BY <1>3, <1>4, <1>5

LEMMA InferStageDoneKeeps == ASSUME Inv, NEW e \in Executors, InferStageDone(e) PROVE Inv'
<1>1. /\ e = "request" /\ Rq.at = "inferred" /\ Rq = thread["request"] /\ Rq' = thread'["request"]
      /\ UNCHANGED <<usage, request, manager, queue, history>>
      /\ Rq.task \in Slots /\ Rq.task \in Tasks /\ Is(Rq.task, "POSTPONED", 2)
      /\ tasks[Rq.task].runner = "request" /\ Rq.copy = Rq.task
  BY WhoseStep, RunnerIs DEF InferStageDone, At, Inv, FlightInv, RequestStatusOK
<1>2. /\ Goes("request", "deciding") /\ OnlyTask(Rq.task) /\ TypeOK'
      /\ tasks'[Rq.task].stage = 1 /\ tasks'[Rq.task].status = "POSTPONED"
      /\ tasks'[Rq.task].failed = tasks[Rq.task].failed /\ tasks'[Rq.task].runner = "request"
  BY <1>1, StageDoneMoves, PlaceNames DEF InferStageDone, Is
<1>3. RequestRuns /\ (Pending' <=> Pending) /\ (RequestFlies' <=> RequestFlies) /\ ~EndsPlainly'
  BY <1>1, <1>2 DEF RequestRuns, RunFrame, RequestFlies, RequestPlaces, Pending, EndsPlainly, Final, Goes
<1>4. RequestStatusOK'
  BY <1>1, <1>2 DEF RequestStatusOK, Is, Goes
<1>5. CountOK' /\ OutcomeOK'
  BY <1>1, <1>2, <1>3, RequestCounts, RequestOutcome DEF Goes, OnlyTask
<1> QED
  BY <1>1, <1>2, <1>3, <1>4, <1>5, RequestStep

LEMMA DecideKeeps == ASSUME Inv, NEW e \in Executors, Decide(e) PROVE Inv'
<1>1. /\ e = "request" /\ Rq.at = "deciding" /\ Rq = thread["request"] /\ Rq' = thread'["request"]
      /\ UNCHANGED <<usage, request, manager, queue, history>>
      /\ Rq.task \in Slots /\ Rq.task \in Tasks /\ Is(Rq.task, "POSTPONED", 1)
      /\ tasks[Rq.task].runner = "request" /\ Rq.copy = Rq.task
  BY WhoseStep, RunnerIs DEF Decide, At, Inv, FlightInv, RequestStatusOK
<1>2. CASE IsCallbackEnabled
  <2>1. /\ Goes("request", "reoccupying") /\ TypeOK' /\ UNCHANGED tasks /\ OnlyTask(Rq.task)
    BY <1>1, <1>2, RunGoes, Names, PlaceNames, TypeParts DEF Decide, RequestOK
  <2>2. RequestRuns /\ (Pending' <=> Pending) /\ (RequestFlies' <=> RequestFlies) /\ ~EndsPlainly'
    BY <1>1, <1>2, <2>1 DEF RequestRuns, RunFrame, RequestFlies, RequestPlaces, Pending, EndsPlainly,
       Final, Goes, Is
  <2>3. RequestStatusOK'
    BY <1>1, <2>1 DEF RequestStatusOK, Is, Goes
  <2>4. CountOK' /\ OutcomeOK'
    BY <1>1, <2>1, <2>2, RequestCounts, RequestOutcome DEF Goes
  <2> QED
    BY <1>1, <2>1, <2>2, <2>3, <2>4, RequestStep
<1>3. CASE ~IsCallbackEnabled
  <2>1. /\ Goes("request", "ending") /\ OnlyTask(Rq.task) /\ TypeOK'
        /\ tasks'[Rq.task].stage = 0 /\ tasks'[Rq.task].status = "POSTPONED"
        /\ tasks'[Rq.task].failed = tasks[Rq.task].failed /\ tasks'[Rq.task].runner = "request"
    BY <1>1, <1>3, StageDoneMoves, PlaceNames, Names DEF Decide, Is
  <2>2. RequestRuns /\ (Pending' <=> Pending) /\ (RequestFlies' <=> RequestFlies)
    BY <1>1, <2>1 DEF RequestRuns, RunFrame, RequestFlies, RequestPlaces, Pending, Final, Goes
  <2>3. RequestStatusOK'
    BY <1>1, <2>1 DEF RequestStatusOK, Is, Goes
  <2>4. CountOK' /\ OutcomeOK'
    BY <1>1, <1>3, <2>1, <2>2, RequestCounts, RequestOutcome DEF Goes, OnlyTask
  <2> QED
    BY <1>1, <2>1, <2>2, <2>3, <2>4, RequestStep
<1> QED
  BY <1>2, <1>3

\* The status of the task of a run changes.
LEMMA RunStatusMoves ==
    ASSUME Inv, NEW e \in Executors, thread[e].at \notin {"idle", "locking"},
           NEW to \in Places, GoTo(e, to), NEW s \in Statuses,
           tasks' = [tasks EXCEPT ![thread[e].task].status = s],
           UNCHANGED <<usage, request, manager, queue, history>>
    PROVE  LET k == thread[e].task IN
           /\ Goes(e, to) /\ OnlyTask(k) /\ TypeOK'
           /\ tasks'[k].stage = tasks[k].stage /\ tasks'[k].status = s
           /\ tasks'[k].failed = tasks[k].failed /\ tasks'[k].runner = e
<1> DEFINE k == thread[e].task
<1>1. k \in Tasks /\ tasks[k].runner = e
  BY RunnerIs
<1>2. Goes(e, to) /\ ThreadsOK'
  BY RunnerIs, GoToGoes, TypeParts
<1>3. TasksOK' /\ OnlyTask(k) /\ tasks'[k].stage = tasks[k].stage /\ tasks'[k].status = s
      /\ tasks'[k].failed = tasks[k].failed /\ tasks'[k].runner = e
  BY <1>1, StatusSet, TypeParts
<1>4. TypeOK'
  BY <1>2, <1>3 DEF Inv, TypeOK, ThreadsOK, TasksOK
<1> QED
  BY <1>2, <1>3, <1>4

LEMMA ReoccupyTaskKeeps == ASSUME Inv, NEW e \in Executors, ReoccupyTask(e) PROVE Inv'
<1>1. /\ e = "request" /\ Rq.at = "reoccupying" /\ Rq = thread["request"] /\ Rq' = thread'["request"]
      /\ UNCHANGED <<usage, request, manager, queue, history>>
      /\ Rq.task \in Slots /\ Rq.task \in Tasks /\ Is(Rq.task, "POSTPONED", 1)
      /\ tasks[Rq.task].runner = "request" /\ Rq.copy = Rq.task
  BY WhoseStep, RunnerIs DEF ReoccupyTask, At, Inv, FlightInv, RequestStatusOK
<1>2. IsCallbackEnabled
  BY <1>1 DEF Inv, ClientInv, EnabledOK
<1>3. /\ Goes("request", "requeuing") /\ OnlyTask(Rq.task) /\ TypeOK'
      /\ tasks'[Rq.task].stage = 1 /\ tasks'[Rq.task].status = "BUSY"
      /\ tasks'[Rq.task].failed = tasks[Rq.task].failed /\ tasks'[Rq.task].runner = "request"
  <2>1. GoTo(e, "requeuing") /\ tasks' = [tasks EXCEPT ![thread[e].task].status = "BUSY"]
        /\ thread[e].at \notin {"idle", "locking"}
    BY <1>1 DEF ReoccupyTask, Is
  <2>2. /\ Goes(e, "requeuing") /\ OnlyTask(thread[e].task) /\ TypeOK'
        /\ tasks'[thread[e].task].stage = tasks[thread[e].task].stage
        /\ tasks'[thread[e].task].status = "BUSY"
        /\ tasks'[thread[e].task].failed = tasks[thread[e].task].failed
        /\ tasks'[thread[e].task].runner = e
    BY <1>1, <2>1, RunStatusMoves, PlaceNames, StatusNames, ZenonT(60)
  <2> QED
    BY <1>1, <2>2 DEF Is
<1>4. RequestRuns /\ (Pending' <=> Pending) /\ (RequestFlies' <=> RequestFlies) /\ ~EndsPlainly'
  BY <1>1, <1>2, <1>3 DEF RequestRuns, RunFrame, RequestFlies, RequestPlaces, Pending, EndsPlainly, Final, Goes
<1>5. RequestStatusOK'
  BY <1>1, <1>3 DEF RequestStatusOK, Is, Goes
<1>6. CountOK' /\ OutcomeOK'
  BY <1>1, <1>3, <1>4, RequestCounts, RequestOutcome DEF Goes, OnlyTask
<1> QED
  BY <1>1, <1>3, <1>4, <1>5, <1>6, RequestStep

LEMMA RunEndsKeeps == ASSUME Inv, NEW e \in Executors, RunEnds(e) PROVE Inv'
<1> DEFINE to == IF tasks[thread[e].task].stage = 0 THEN "settling" ELSE "notifying"
<1>1. /\ thread[e].at = "ending" /\ UNCHANGED <<usage, request, tasks, manager, queue, history>>
      /\ Goes(e, to) /\ TypeOK' /\ OnlyTask(thread[e].task)
  <2>1. thread[e].at = "ending" /\ UNCHANGED <<usage, request, tasks, manager, queue, history>>
        /\ GoTo(e, to) /\ to \in Places
    BY PlaceNames DEF RunEnds, Move, At
  <2> QED
    BY <2>1, RunGoes, TypeParts DEF RequestOK
<1>2. CASE e = "request"
  <2>1. \/ Is(Rq.task, "POSTPONED", 0)
        \/ Is(Rq.task, "BUSY", 1)
    BY <1>1, <1>2 DEF Inv, FlightInv, RequestStatusOK, Rq
  <2>2. RequestRuns /\ (Pending' <=> Pending) /\ (RequestFlies' <=> RequestFlies)
        /\ (EndsPlainly' <=> EndsPlainly)
    BY <1>1, <1>2, <2>1, RunnerIs DEF RequestRuns, RunFrame, RequestFlies, RequestPlaces,
       Pending, EndsPlainly, Final, Is, Goes
  <2>3. RequestStatusOK'
    BY <1>1, <1>2, <2>1, RunnerIs DEF RequestStatusOK, Is, Goes
  <2>4. CountOK' /\ OutcomeOK'
    BY <1>1, <1>2, <2>2, RunnerIs, RequestCounts, RequestOutcome DEF Goes
  <2> QED
    BY <1>1, <2>2, <2>3, <2>4, RequestStep
<1>3. CASE e = "callback"
  <2>1. Is(Cb.task, "POSTPONED", 0)
    BY <1>1, <1>3 DEF Inv, FlightInv, CallbackStatusOK, Cb
  <2>2. CallbackRuns /\ (CallbackFlies' <=> CallbackFlies)
    BY <1>1, <1>3, <2>1, RunnerIs DEF CallbackRuns, RunFrame, CallbackFlies, CallbackPlaces,
       Starting, Final, Is, Goes
  <2>3. CallbackStatusOK'
    BY <1>1, <1>3, <2>1, RunnerIs DEF CallbackStatusOK, CalledBack, Starting, Failing, Is, Goes
  <2>4. CountOK' /\ OutcomeOK'
    BY <1>1, <1>3, <2>2, <2>3, RunnerIs, CallbackCounts, CallbackOutcome DEF Goes, Failing
  <2> QED
    BY <1>1, <2>2, <2>3, <2>4, CallbackStep
<1> QED
  BY <1>2, <1>3, Names

LEMMA RunSetsDoneKeeps == ASSUME Inv, NEW e \in Executors, RunSetsDone(e) PROVE Inv'
<1>1. /\ thread[e].at = "settling" /\ UNCHANGED <<usage, request, manager, queue, history>>
      /\ Goes(e, "notifying") /\ TypeOK' /\ OnlyTask(thread[e].task)
      /\ tasks'[thread[e].task].status = "DONE" /\ tasks'[thread[e].task].runner = e
      /\ tasks'[thread[e].task].failed = tasks[thread[e].task].failed
  BY RunStatusMoves, PlaceNames, StatusNames, ZenonT(60) DEF RunSetsDone, Move, At
<1>2. CASE e = "request"
  <2>1. RequestRuns /\ (Pending' <=> Pending) /\ EndsPlainly /\ ~EndsPlainly' /\ ~RequestFlies'
    BY <1>1, <1>2, RunnerIs DEF RequestRuns, RunFrame, RequestFlies, RequestPlaces,
       Pending, EndsPlainly, Final, Goes
  <2>2. RequestStatusOK'
    BY <1>1, <1>2, RunnerIs DEF RequestStatusOK, Goes
  <2>3. OutcomeOK'
    BY <1>1, <1>2, <2>1, RunnerIs, RequestOutcome DEF Goes, OnlyTask
  <2>4. CountOK'
    <3>1. Cb' = Cb /\ (IsCallbackEnabled' <=> IsCallbackEnabled)
      BY <2>1, RequestRunsMove, ExecutorFrame, Names
    <3>2. ~IsCallbackEnabled
      BY <2>1 DEF Inv, CountOK
    <3>3. Flight' => Flight
      BY <2>1, <2>2, RequestKeeps
    <3> QED
      BY <1>1, <2>1, <3>1, <3>2, <3>3 DEF Inv, CountOK
  <2> QED
    BY <1>1, <2>1, <2>2, <2>3, <2>4, RequestStep
<1>3. CASE e = "callback"
  <2>1. CallbackRuns /\ (CallbackFlies' <=> CallbackFlies)
    BY <1>1, <1>3, RunnerIs DEF CallbackRuns, RunFrame, CallbackFlies, CallbackPlaces, Starting, Final, Goes
  <2>2. CallbackStatusOK'
    BY <1>1, <1>3, RunnerIs DEF CallbackStatusOK, CalledBack, Starting, Failing, Goes
  <2>3. CountOK' /\ OutcomeOK'
    BY <1>1, <1>3, <2>1, <2>2, RunnerIs, CallbackCounts, CallbackOutcome DEF Goes, Failing, OnlyTask
  <2> QED
    BY <1>1, <2>1, <2>2, <2>3, CallbackStep
<1> QED
  BY <1>2, <1>3, Names

LEMMA RunThrowsKeeps == ASSUME Inv, NEW e \in Executors, RunThrows(e) PROVE Inv'
<1> DEFINE k == thread[e].task
<1>1. /\ thread[e].at = "throwing" /\ UNCHANGED <<usage, request, manager, queue, history>>
      /\ k \in Tasks /\ k \in Slots /\ tasks[k].runner = e
  BY RunnerIs DEF RunThrows, Move, At
<1>2. Goes(e, "notifying") /\ ThreadsOK'
  BY <1>1, RunnerIs, GoToGoes, PlaceNames, TypeParts DEF RunThrows, Move
<1>3. /\ TasksOK' /\ OnlyTask(k) /\ tasks'[k].status = "ERROR" /\ tasks'[k].runner = e
      /\ tasks'[k].stage = tasks[k].stage
  BY <1>1, TypeParts, StatusNames, ZenonT(60) DEF RunThrows, TasksOK, TaskStates, OnlyTask
<1>4. TypeOK'
  BY <1>1, <1>2, <1>3 DEF Inv, TypeOK, ThreadsOK, TasksOK
<1>5. "fail" \in usage
  BY <1>1, Names DEF Inv, OutcomeOK, Failing, Rq, Cb
<1> HIDE DEF k
<1>6. CASE e = "request"
  <2>1. RequestRuns /\ (Pending' <=> Pending) /\ ~EndsPlainly' /\ (RequestFlies' <=> RequestFlies)
    BY <1>1, <1>2, <1>3, <1>6, RunnerIs DEF RequestRuns, RunFrame, RequestFlies, RequestPlaces,
       Pending, EndsPlainly, Final, Goes, k, Inv, ClientInv, PlacesOK
  <2>2. RequestStatusOK'
    BY <1>1, <1>2, <1>6, RunnerIs DEF RequestStatusOK, Goes
  <2>3. CountOK' /\ OutcomeOK'
    BY <1>1, <1>2, <1>5, <1>6, <2>1, RunnerIs, RequestCounts, RequestOutcome DEF Goes
  <2> QED
    BY <1>1, <1>4, <2>1, <2>2, <2>3, RequestStep
<1>7. CASE e = "callback"
  <2>1. CallbackRuns /\ (CallbackFlies' <=> CallbackFlies)
    BY <1>1, <1>2, <1>3, <1>7, RunnerIs DEF CallbackRuns, RunFrame, CallbackFlies, CallbackPlaces,
       Starting, Final, Goes, k
  <2>2. CallbackStatusOK'
    BY <1>1, <1>2, <1>7, RunnerIs DEF CallbackStatusOK, CalledBack, Starting, Failing, Goes
  <2>3. CountOK' /\ OutcomeOK'
    BY <1>1, <1>2, <1>5, <1>7, <2>1, <2>2, RunnerIs, CallbackCounts, CallbackOutcome DEF Goes
  <2> QED
    BY <1>1, <1>4, <2>1, <2>2, <2>3, CallbackStep
<1> QED
  BY <1>6, <1>7, Names

LEMMA LowerFlagKeeps == ASSUME Inv, NEW e \in Executors, LowerFlag(e) PROVE Inv'
<1>1. /\ e = "callback" /\ Cb.at = "lowering" /\ Cb = thread["callback"] /\ Cb' = thread'["callback"]
      /\ UNCHANGED <<usage, tasks, manager, queue, history>>
      /\ Cb.task \in Slots /\ Cb.task \in Tasks /\ Is(Cb.task, "POSTPONED", 1)
      /\ tasks[Cb.task].runner = "callback" /\ Cb.copy = Cb.task
  BY WhoseStep, RunnerIs DEF LowerFlag, Move, At, Inv, FlightInv, CallbackStatusOK
<1>2. /\ RequestOK' /\ ~request'.busy /\ request'.async = request.async
      /\ request'.current = request.current /\ request'.list = request.list
  BY BusySet, TypeParts DEF LowerFlag
<1>3. Goes("callback", "lowered") /\ TypeOK' /\ OnlyTask(Cb.task)
  BY <1>1, <1>2, RunGoes, PlaceNames, Names DEF LowerFlag, Move
<1>4. CallbackRuns
  BY <1>1, <1>2, <1>3 DEF CallbackRuns, RunFrame, CallbackFlies, CallbackPlaces, Starting, Final, Goes, Is
<1>5. CallbackStatusOK'
  BY <1>1, <1>3 DEF CallbackStatusOK, CalledBack, Starting, Failing, Goes, Is
<1>6. /\ CallbackFlies /\ ~CallbackFlies' /\ Flight /\ ~SomeBegins /\ IsCallbackEnabled
      /\ queue["request"] = <<>> /\ queue["callback"] = <<>> /\ ~RequestFlies
  BY <1>1, <1>3 DEF CallbackFlies, Goes, Flight, Inv, FlightInv, OneAtATime, ClientInv, EnabledOK
<1>7. /\ Rq' = Rq /\ ~SomeBegins' /\ (IsCallbackEnabled' <=> IsCallbackEnabled)
      /\ ~RequestFlies' /\ ~Flight' /\ ~Pending /\ ~Pending' /\ (EndsPlainly' <=> EndsPlainly)
  <2>1. Rq' = Rq /\ ~SomeBegins' /\ (IsCallbackEnabled' <=> IsCallbackEnabled)
    BY <1>4, <1>6, CallbackRunsMove, ExecutorFrame, Names
  <2>2. EndsPlainly' <=> EndsPlainly
    BY <1>4, <1>5, CallbackKeeps
  <2>3. ~RequestFlies'
    BY <1>1, <1>6, <2>1 DEF RequestFlies
  <2>4. ~Pending
    BY <1>6 DEF Pending, RequestFlies
  <2> QED
    BY <1>1, <1>6, <2>1, <2>2, <2>3, <2>4 DEF Flight, Pending
<1>8. GuardOK'
  BY <1>7 DEF GuardOK
<1>9. CountOK'
  <2>1. history.due \in Nat /\ history.called \in Nat
    BY DEF Inv, TypeOK
  <2>2. Cb.at \notin {"lowered", "calling"} /\ Cb'.at = "lowered"
    BY <1>1, <1>3 DEF Goes
  <2> QED
    BY <1>1, <1>6, <1>7, <2>1, <2>2 DEF Inv, CountOK
<1>10. OutcomeOK'
  BY <1>1, <1>3, <1>4, <1>6, CallbackOutcome DEF Goes, Failing
<1> QED
  BY <1>3, <1>4, <1>5, <1>8, <1>9, <1>10, CallbackStep

LEMMA CallbackStageDoneKeeps == ASSUME Inv, NEW e \in Executors, CallbackStageDone(e) PROVE Inv'
<1>1. /\ e = "callback" /\ Cb.at = "lowered" /\ Cb = thread["callback"] /\ Cb' = thread'["callback"]
      /\ UNCHANGED <<usage, request, manager, queue, history>>
      /\ Cb.task \in Slots /\ Cb.task \in Tasks /\ Is(Cb.task, "POSTPONED", 1)
      /\ tasks[Cb.task].runner = "callback" /\ Cb.copy = Cb.task
  BY WhoseStep, RunnerIs DEF CallbackStageDone, At, Inv, FlightInv, CallbackStatusOK
<1>2. IsCallbackEnabled
  BY <1>1 DEF Inv, ClientInv, EnabledOK
<1>3. /\ Goes("callback", "calling") /\ OnlyTask(Cb.task) /\ TypeOK'
      /\ tasks'[Cb.task].stage = 0 /\ tasks'[Cb.task].status = "POSTPONED"
      /\ tasks'[Cb.task].failed = tasks[Cb.task].failed /\ tasks'[Cb.task].runner = "callback"
  BY <1>1, <1>2, StageDoneMoves, PlaceNames, Names DEF CallbackStageDone, Is
<1>4. CallbackRuns /\ (CallbackFlies' <=> CallbackFlies)
  BY <1>1, <1>3 DEF CallbackRuns, RunFrame, CallbackFlies, CallbackPlaces, CalledBack, Starting, Final, Goes
<1>5. CallbackStatusOK'
  BY <1>1, <1>3 DEF CallbackStatusOK, Goes, Is
<1>6. CountOK' /\ OutcomeOK'
  BY <1>1, <1>3, <1>4, <1>5, CallbackCounts, CallbackOutcome DEF Goes, Failing, OnlyTask
<1> QED
  BY <1>1, <1>3, <1>4, <1>5, <1>6, CallbackStep

LEMMA CallCallbackKeeps == ASSUME Inv, NEW e \in Executors, CallCallback(e) PROVE Inv'
<1>1. /\ e = "callback" /\ Cb.at = "calling" /\ Cb = thread["callback"] /\ Cb' = thread'["callback"]
      /\ UNCHANGED <<usage, request, tasks, manager, queue>>
      /\ Cb.task \in Slots /\ Cb.task \in Tasks /\ Is(Cb.task, "POSTPONED", 0)
      /\ tasks[Cb.task].runner = "callback" /\ Cb.copy = Cb.task
  BY WhoseStep, RunnerIs DEF CallCallback, Move, At, Inv, FlightInv, CallbackStatusOK, CalledBack
<1>2. Goes("callback", "inCallback") /\ ThreadsOK' /\ OnlyTask(Cb.task)
  BY <1>1, RunGoes, PlaceNames, Names DEF CallCallback, Move
<1>3. /\ history' \in [accepted : Nat, due : Nat, inferred : Nat, called : Nat,
                       outcome : {"OK", "ERROR"}, waited : BOOLEAN]
      /\ history'.accepted = history.accepted /\ history'.due = history.due
      /\ history'.inferred = history.inferred /\ history'.called = history.called + 1
      /\ history'.outcome = history.outcome /\ history'.waited = history.waited
  <2> DEFINE Histories == [accepted : Nat, due : Nat, inferred : Nat, called : Nat,
                           outcome : {"OK", "ERROR"}, waited : BOOLEAN]
  <2>1. history \in Histories
    BY DEF Inv, TypeOK
  <2>2. history.called + 1 \in Nat
    BY <2>1
  <2>3. ASSUME NEW n \in Nat PROVE [history EXCEPT !.called = n] \in Histories
    BY <2>1
  <2> QED
    BY <2>1, <2>2, <2>3 DEF CallCallback
<1>4. TypeOK'
  BY <1>1, <1>2, <1>3 DEF Inv, TypeOK, ThreadsOK
<1>5. CallbackRuns /\ (CallbackFlies' <=> CallbackFlies)
  BY <1>1, <1>2, <1>3 DEF CallbackRuns, RunFrame, CallbackFlies, CallbackPlaces, CalledBack, Starting,
     Final, Goes, Is
<1>6. CallbackStatusOK'
  BY <1>1, <1>2 DEF CallbackStatusOK, Goes, Is
<1>7. CountOK'
  <2>1. Rq' = Rq /\ (IsCallbackEnabled' <=> IsCallbackEnabled)
    BY <1>5, CallbackRunsMove, ExecutorFrame, Names
  <2>2. EndsPlainly' <=> EndsPlainly
    BY <1>5, <1>6, CallbackKeeps
  <2>3. (Flight' <=> Flight) /\ (Pending' <=> Pending)
    BY <1>1, <1>5, <2>1, <2>2 DEF Flight, Pending, RequestFlies, EndsPlainly
  <2>4. history.due \in Nat /\ history.called \in Nat
    BY DEF Inv, TypeOK
  <2> QED
    BY <1>1, <1>2, <1>3, <2>1, <2>2, <2>3, <2>4 DEF Inv, CountOK, Goes
<1>8. OutcomeOK'
  BY <1>1, <1>2, <1>3, <1>5, CallbackOutcome DEF Goes, Failing
<1> QED
  BY <1>1, <1>4, <1>5, <1>6, <1>7, <1>8, CallbackStep

LEMMA CallbackReturnsKeeps == ASSUME Inv, NEW e \in Executors, CallbackReturns(e) PROVE Inv'
<1> DEFINE to == IF manager.failed THEN "failing" ELSE "ending"
<1>1. /\ e = "callback" /\ Cb.at \in {"inCallback", "calledBack"}
      /\ Cb = thread["callback"] /\ Cb' = thread'["callback"]
      /\ UNCHANGED <<usage, request, tasks, manager, queue, history>>
      /\ Cb.task \in Slots /\ Cb.task \in Tasks /\ Is(Cb.task, "POSTPONED", 0)
      /\ tasks[Cb.task].runner = "callback" /\ Cb.copy = Cb.task
  BY WhoseStep, RunnerIs DEF CallbackReturns, At, Inv, FlightInv, CallbackStatusOK, CalledBack
<1>2. Goes("callback", to) /\ TypeOK' /\ OnlyTask(Cb.task)
  <2>1. to \in Places
    BY PlaceNames
  <2> QED
    BY <1>1, <2>1, RunGoes, TypeParts, Names DEF CallbackReturns, RequestOK
<1>3. to \in {"failing", "ending"} /\ (to = "failing" => "fail" \in usage)
  BY DEF Inv, OutcomeOK
<1> HIDE DEF to
<1>4. CallbackRuns /\ (CallbackFlies' <=> CallbackFlies)
  BY <1>1, <1>2, <1>3 DEF CallbackRuns, RunFrame, CallbackFlies, CallbackPlaces, Failing, CalledBack, Starting,
     Final, Goes, Is
<1>5. CallbackStatusOK'
  BY <1>1, <1>2, <1>3 DEF CallbackStatusOK, Goes, Is
<1>6. CountOK' /\ OutcomeOK'
  BY <1>1, <1>2, <1>3, <1>4, <1>5, CallbackCounts, CallbackOutcome DEF Goes, Failing
<1> QED
  BY <1>1, <1>2, <1>4, <1>5, <1>6, CallbackStep

LEMMA FailureLowersFlagKeeps == ASSUME Inv, NEW e \in Executors, FailureLowersFlag(e) PROVE Inv'
<1>1. /\ thread[e].at = "failing" /\ UNCHANGED <<usage, tasks, manager, queue, history>>
      /\ Rq = thread["request"] /\ Rq' = thread'["request"]
      /\ Cb = thread["callback"] /\ Cb' = thread'["callback"]
      /\ "request" \in Executors /\ "callback" \in Executors
      /\ thread[e].task \in Slots /\ tasks[thread[e].task].runner = e
      /\ thread[e].copy = thread[e].task
  BY RunnerIs DEF FailureLowersFlag, Move, At
<1>2. /\ RequestOK' /\ ~request'.busy /\ request'.async = request.async
      /\ request'.current = request.current /\ request'.list = request.list
  BY BusySet, TypeParts DEF FailureLowersFlag
<1>3. Goes(e, "failed") /\ TypeOK' /\ OnlyTask(thread[e].task)
  BY <1>1, <1>2, RunGoes, PlaceNames DEF FailureLowersFlag, Move
<1>4. "fail" \in usage /\ IsOneClient /\ ("callback" \in usage => IsPatient)
  <2>1. "fail" \in usage
    BY <1>1, Names DEF Inv, OutcomeOK, Failing
  <2> QED
    BY <2>1 DEF Inv, ClientInv, UsageOK, Relayed, OneClient, IsOneClient, IsPatient
<1>5. CASE e = "request"
  <2>1. RequestRuns /\ ~Pending' /\ ~Pending /\ ~EndsPlainly'
    BY <1>1, <1>2, <1>3, <1>5 DEF RequestRuns, RunFrame, RequestFlies, RequestPlaces, Failing, Pending,
       EndsPlainly, Final, Goes, Is, Inv, FlightInv, RequestStatusOK, OneAtATime
  <2>2. RequestStatusOK'
    BY <1>1, <1>3, <1>5 DEF Inv, FlightInv, RequestStatusOK, Is, Goes
  <2>3. OutcomeOK'
    BY <1>1, <1>3, <1>5, <2>1, RequestOutcome DEF Goes
  <2>4. RequestFlies /\ ~SomeBegins /\ queue["request"] = <<>> /\ queue["callback"] = <<>>
        /\ ~CallbackFlies
    BY <1>1, <1>5 DEF RequestFlies, Flight, Inv, FlightInv, OneAtATime
  <2>5. ~SomeBegins' /\ Cb' = Cb /\ (IsCallbackEnabled' <=> IsCallbackEnabled)
        /\ (IsPatient' <=> IsPatient)
    BY <2>1, <2>4, RequestRunsMove, ExecutorFrame, Names
  <2>6. "callback" \notin usage => ~Flight'
    BY <1>1, <1>3, <1>5, <2>4, <2>5 DEF Flight, RequestFlies, CallbackFlies, Goes
  <2>7. GuardOK'
    BY <1>1, <1>4, <2>1, <2>5, <2>6 DEF GuardOK
  <2>8. CountOK'
    <3>1. CASE "callback" \in usage
      <4>1. RequestFlies'
        BY <1>1, <1>3, <1>5, <3>1 DEF RequestFlies, Goes
      <4> QED
        BY <1>1, <2>1, <2>4, <4>1, RequestCounts
    <3>2. CASE "callback" \notin usage
      BY <1>1, <2>1, <2>5, <2>6, <3>2 DEF Inv, CountOK, IsCallbackEnabled
    <3> QED
      BY <3>1, <3>2
  <2> QED
    BY <1>3, <2>1, <2>2, <2>3, <2>7, <2>8, RequestStep
<1>6. CASE e = "callback"
  <2>1. CallbackRuns /\ (CallbackFlies' <=> CallbackFlies)
    BY <1>1, <1>2, <1>3, <1>6 DEF CallbackRuns, RunFrame, CallbackFlies, CallbackPlaces, Failing, Starting,
       Final, Goes, Is, Inv, FlightInv, CallbackStatusOK
  <2>2. CallbackStatusOK'
    BY <1>1, <1>3, <1>6 DEF Inv, FlightInv, CallbackStatusOK, Failing, CalledBack, Starting, Is, Goes
  <2>3. CountOK' /\ OutcomeOK'
    BY <1>1, <1>3, <1>4, <1>6, <2>1, <2>2, CallbackCounts, CallbackOutcome DEF Goes
  <2>4. ~SomeBegins /\ RequestRests /\ queue["callback"] = <<>>
    <3>1. ~SomeBegins
      BY <1>1, <1>4, <1>6, BeginnerRests DEF SomeBegins
    <3> QED
      BY <1>1, <1>4, <1>6, <3>1 DEF Inv, FlightInv, AfterLowering
  <2>5. ~Flight /\ ~Pending
    BY <1>1, <1>6, <2>4 DEF Flight, RequestFlies, CallbackFlies, RequestRests, Pending
  <2>6. ~SomeBegins' /\ Rq' = Rq
    BY <2>1, <2>4, CallbackRunsMove, ExecutorFrame, Names
  <2>7. ~Flight' /\ ~Pending'
    BY <1>1, <2>2, <2>1, <2>5, <2>6, CallbackKeeps DEF Pending
  <2>8. GuardOK'
    BY <2>6, <2>7 DEF GuardOK
  <2> QED
    BY <1>3, <2>1, <2>2, <2>3, <2>8, CallbackStep
<1> QED
  BY <1>5, <1>6, Names

LEMMA RequestHandlesFailure == ASSUME Inv, HandleFailure("request") PROVE Inv'
<1>1. /\ Rq.at = "failed" /\ UNCHANGED <<usage, request, queue, history>>
      /\ Rq = thread["request"] /\ Rq' = thread'["request"]
      /\ Rq.task \in Slots /\ Rq.task \in Tasks /\ tasks[Rq.task].runner = "request"
      /\ Rq.copy = Rq.task /\ Is(Rq.task, "POSTPONED", 2) /\ "fail" \in usage
      /\ "request" \in Threads
  BY RunnerIs, Names DEF HandleFailure, At, Rq, Inv, FlightInv, RequestStatusOK, OutcomeOK, Failing
<1>2. "callback" \in usage => IsCallbackEnabled
  BY <1>1 DEF Inv, ClientInv, UsageOK, Relayed, OneClient, EnabledOK, IsCallbackEnabled
<1>3. CASE "callback" \in usage
  <2>1. /\ GoTo("request", "reoccupying") /\ tasks' = [tasks EXCEPT ![Rq.task].stage = 1]
        /\ manager' = [manager EXCEPT !.status = "ERROR", !.failed = TRUE]
    BY <1>1, <1>2, <1>3 DEF HandleFailure, StageOf, Is
  <2>2. Goes("request", "reoccupying") /\ ThreadsOK'
    BY <1>1, <2>1, GoToGoes, PlaceNames, TypeParts, SMTT(60)
  <2>3. /\ TasksOK' /\ OnlyTask(Rq.task)
        /\ tasks'[Rq.task].stage = 1 /\ tasks'[Rq.task].status = "POSTPONED"
        /\ tasks'[Rq.task].failed = tasks[Rq.task].failed /\ tasks'[Rq.task].runner = "request"
    <3>1. 1 \in 0..2
      OBVIOUS
    <3> QED
      BY <1>1, <2>1, <3>1, StageSet, TypeParts DEF Is
  <2>4. manager' \in Managers /\ manager'.enabled = manager.enabled /\ manager'.status = "ERROR"
    BY <2>1 DEF Inv, TypeOK, Managers
  <2>5. TypeOK'
    BY <1>1, <2>2, <2>3, <2>4 DEF Inv, TypeOK, TasksOK, ThreadsOK
  <2>6. RequestFlies /\ RequestFlies' /\ queue["request"] = <<>> /\ ~SomeBegins
    BY <1>1, <1>3, <2>2 DEF RequestFlies, Goes, Flight, Inv, FlightInv, OneAtATime
  <2>7. RequestRuns /\ ~Pending /\ ~Pending' /\ ~EndsPlainly'
    BY <1>1, <1>2, <1>3, <2>2, <2>3, <2>4, <2>6 DEF RequestRuns, RunFrame, RequestPlaces, Failing,
       Pending, EndsPlainly, Final, Goes
  <2>8. RequestStatusOK'
    BY <1>1, <2>2, <2>3 DEF RequestStatusOK, Is, Goes
  <2>9. CountOK'
    BY <1>1, <2>6, <2>7, RequestCounts
  <2>10. OutcomeOK'
    <3>1. \A q \in Threads : thread'[q].at \notin Starting
      BY <2>6, <2>7, RequestRunsMove, ExecutorFrame, Names DEF SomeBegins, Begins
    <3>2. history.outcome = "ERROR"
      BY <1>1, <1>3 DEF Inv, OutcomeOK
    <3> QED
      BY <1>1, <1>3, <2>2, <2>4, <2>7, <3>1, <3>2 DEF OutcomeOK, Goes, Starting
  <2> QED
    BY <1>1, <2>5, <2>7, <2>8, <2>9, <2>10, RequestStep
<1>4. CASE "callback" \notin usage
  <2>1. GoTo("request", "throwing") /\ UNCHANGED <<tasks, manager>>
    BY <1>4 DEF HandleFailure, IsCallbackEnabled
  <2>2. Goes("request", "throwing") /\ TypeOK' /\ OnlyTask(Rq.task)
    BY <1>1, <2>1, RunGoes, PlaceNames, TypeParts, Names DEF RequestOK
  <2>3. RequestRuns /\ (Pending' <=> Pending) /\ ~EndsPlainly' /\ (RequestFlies' <=> RequestFlies)
    BY <1>1, <1>4, <2>1, <2>2 DEF RequestRuns, RunFrame, RequestFlies, RequestPlaces, Failing,
       Pending, EndsPlainly, Final, Goes, Is
  <2>4. RequestStatusOK'
    BY <1>1, <2>1, <2>2 DEF RequestStatusOK, Is, Goes
  <2>5. CountOK' /\ OutcomeOK'
    BY <1>1, <2>1, <2>2, <2>3, RequestCounts, RequestOutcome DEF Goes
  <2> QED
    BY <1>1, <2>2, <2>3, <2>4, <2>5, RequestStep
<1> QED
  BY <1>3, <1>4

LEMMA CallbackHandlesFailure == ASSUME Inv, HandleFailure("callback") PROVE Inv'
<1>1. /\ Cb.at = "failed" /\ UNCHANGED <<usage, request, queue, history>>
      /\ Cb = thread["callback"] /\ Cb' = thread'["callback"]
      /\ Cb.task \in Slots /\ Cb.task \in Tasks /\ tasks[Cb.task].runner = "callback"
      /\ Cb.copy = Cb.task /\ Is(Cb.task, "POSTPONED", 0) /\ "fail" \in usage
  BY RunnerIs, Names DEF HandleFailure, At, Cb, Inv, FlightInv, CallbackStatusOK, OutcomeOK, Failing
<1>2. GoTo("callback", "throwing") /\ UNCHANGED <<tasks, manager>>
  BY <1>1 DEF HandleFailure, StageOf, Is
<1>3. Goes("callback", "throwing") /\ TypeOK' /\ OnlyTask(Cb.task)
  BY <1>1, <1>2, RunGoes, PlaceNames, TypeParts, Names DEF RequestOK
<1>4. CallbackRuns /\ (CallbackFlies' <=> CallbackFlies)
  BY <1>1, <1>2, <1>3 DEF CallbackRuns, RunFrame, CallbackFlies, CallbackPlaces, Failing, Starting,
     Final, Goes, Is
<1>5. CallbackStatusOK'
  BY <1>1, <1>2, <1>3 DEF CallbackStatusOK, Is, Goes
<1>6. CountOK' /\ OutcomeOK'
  BY <1>1, <1>2, <1>3, <1>4, <1>5, CallbackCounts, CallbackOutcome DEF Goes
<1> QED
  BY <1>1, <1>3, <1>4, <1>5, <1>6, CallbackStep

LEMMA HandleFailureKeeps == ASSUME Inv, NEW e \in Executors, HandleFailure(e) PROVE Inv'
BY RequestHandlesFailure, CallbackHandlesFailure, Names

\* An executor takes the only task of its queue.
LEMMA TakeTaskMoves ==
    ASSUME Inv, NEW e \in Executors, TakeTask(e)
    PROVE  /\ thread[e].at = "idle" /\ Others(e) /\ queue[e] # <<>>
           /\ thread'[e].at = "locking" /\ thread'[e].task = request.current
           /\ thread'[e].inInfer = thread[e].inInfer
           /\ queue'["request"] = <<>> /\ queue'["callback"] = <<>>
           /\ \A d \in Executors : d # e => queue[d] = <<>>
           /\ ~RequestFlies /\ ~CallbackFlies /\ ~SomeBegins
           /\ request.current \in Slots
           /\ UNCHANGED <<usage, request, tasks, manager, history>>
           /\ TypeOK'
<1>1. /\ thread[e].at = "idle" /\ e \in Threads /\ queue[e] # <<>> /\ queue[e] \in Seq(Slots)
      /\ UNCHANGED <<usage, request, tasks, manager, history>>
  BY Names, TasksNamed DEF TakeTask, At
<1>2. Flight
  BY <1>1, Names DEF Flight
<1>3. /\ Head(queue[e]) = request.current /\ request.current \in Slots
      /\ ~RequestFlies /\ ~CallbackFlies /\ ~SomeBegins
      /\ \A d \in Executors : d # e => queue[d] = <<>>
  BY <1>1, <1>2, Names, TasksNamed DEF Inv, FlightInv, OneAtATime, CurrentOK
<1>4. Tail(queue[e]) = <<>> /\ <<>> \in Seq(Slots)
  <2>1. Len(queue[e]) <= 1
    BY Names DEF Inv, FlightInv, OneAtATime
  <2> QED
    BY <1>1, <2>1
<1>5. queue'["request"] = <<>> /\ queue'["callback"] = <<>> /\ QueuesOK'
  BY <1>1, <1>3, <1>4, Names, TypeParts DEF TakeTask, QueuesOK
<1>6. /\ ThreadsOK' /\ Others(e) /\ thread'[e].at = "locking"
      /\ thread'[e].task = request.current /\ thread'[e].inInfer = thread[e].inInfer
  <2>1. ASSUME NEW k \in Tasks,
               thread' = [thread EXCEPT ![e].at = "locking", ![e].task = k]
        PROVE  /\ ThreadsOK' /\ Others(e) /\ thread'[e].at = "locking"
               /\ thread'[e].task = k /\ thread'[e].inInfer = thread[e].inInfer
    BY <1>1, <2>1, PlaceNames, TypeParts, ZenonT(60) DEF ThreadsOK, ThreadStates, Others
  <2> QED
    BY <1>3, <2>1, Names DEF TakeTask
<1>7. TypeOK'
  BY <1>1, <1>5, <1>6 DEF Inv, TypeOK, ThreadsOK, QueuesOK
<1> QED
  BY <1>1, <1>3, <1>5, <1>6, <1>7

LEMMA RequestTakesTask == ASSUME Inv, TakeTask("request") PROVE Inv'
<1>1. /\ Rq.at = "idle" /\ Others("request") /\ queue["request"] # <<>>
      /\ Rq = thread["request"] /\ Rq' = thread'["request"] /\ "request" \in Executors
      /\ Cb' = Cb
      /\ Rq'.at = "locking" /\ Rq'.task = request.current /\ Rq'.inInfer = Rq.inInfer
      /\ queue'["request"] = <<>> /\ queue'["callback"] = <<>> /\ queue["callback"] = <<>>
      /\ ~RequestFlies /\ ~CallbackFlies /\ ~SomeBegins /\ request.current \in Slots
      /\ UNCHANGED <<usage, request, tasks, manager, history>>
      /\ TypeOK'
  BY TakeTaskMoves, OthersAre, Names DEF Rq
<1>2. ExecutorMoves("request")
  BY <1>1, Names DEF ExecutorMoves, Begins, Starting, Syncing, Settled, RequestRests, RequestPlaces,
     Inv, ClientInv, PlacesOK, EnabledOK
<1>3. UsageOK' /\ PlacesOK' /\ EnabledOK' /\ ListOK' /\ WaitsOK' /\ PatienceOK'
  BY <1>1, <1>2, ExecutorKeeps
<1>4. /\ RequestFlies' /\ ~CallbackFlies' /\ Pending' /\ Pending /\ Flight /\ Flight'
      /\ ~EndsPlainly' /\ ~SomeBegins' /\ (IsCallbackEnabled' <=> IsCallbackEnabled)
      /\ \A q \in Threads : /\ ~Begins(q)' /\ ~Begins(q)
                            /\ thread'[q].at \notin Starting /\ thread[q].at \notin Starting
  <2>1. ~SomeBegins' /\ (IsCallbackEnabled' <=> IsCallbackEnabled)
        /\ \A q \in Threads : ~Begins(q)' /\ ~Begins(q)
    BY <1>1, <1>2, ExecutorFrame DEF SomeBegins
  <2> QED
    BY <1>1, <2>1 DEF RequestFlies, CallbackFlies, Pending, Flight, EndsPlainly, Begins
<1>5. Is(request.current, "BUSY", 2)
  BY <1>1 DEF Inv, FlightInv, StatusOK
<1>6. GuardOK'
  BY <1>1, <1>2, <1>4, ExecutorGuards
<1>7. RunnersOK'
  BY <1>1, Names DEF Inv, FlightInv, RunnersOK, Rq, Cb
<1>8. OneAtATime'
  BY <1>1, <1>4 DEF OneAtATime
<1>9. CurrentOK'
  BY <1>1, <1>4, Names DEF Inv, FlightInv, CurrentOK, Starting, At, Executors
<1>10. RequestStatusOK' /\ CallbackStatusOK'
  BY <1>1, <1>5 DEF Inv, FlightInv, RequestStatusOK, CallbackStatusOK, Is
<1>11. StatusOK'
  BY <1>1, <1>4, <1>5, Names DEF Inv, FlightInv, StatusOK, Starting, At, Is
<1>12. AfterLowering' /\ FinalIsSettled'
  BY <1>1, <1>5, <1>2, ExecutorFrame DEF Inv, FlightInv, AfterLowering, RequestRests, FinalIsSettled, Final, Is
<1>13. CountOK'
  BY <1>1, <1>4 DEF Inv, CountOK
<1>14. OutcomeOK'
  BY <1>1, <1>4 DEF Inv, OutcomeOK, Failing, Starting
<1> QED
  BY <1>1, <1>3, <1>6, <1>7, <1>8, <1>9, <1>10, <1>11, <1>12, <1>13, <1>14 DEF Inv, FlightInv, ClientInv

LEMMA CallbackTakesTask == ASSUME Inv, TakeTask("callback") PROVE Inv'
<1>1. /\ Cb.at = "idle" /\ Others("callback") /\ queue["callback"] # <<>>
      /\ Cb = thread["callback"] /\ Cb' = thread'["callback"] /\ "callback" \in Executors
      /\ Rq' = Rq
      /\ Cb'.at = "locking" /\ Cb'.task = request.current /\ Cb'.inInfer = Cb.inInfer
      /\ queue'["request"] = <<>> /\ queue'["callback"] = <<>> /\ queue["request"] = <<>>
      /\ ~RequestFlies /\ ~CallbackFlies /\ ~SomeBegins /\ request.current \in Slots
      /\ UNCHANGED <<usage, request, tasks, manager, history>>
      /\ TypeOK'
  BY TakeTaskMoves, OthersAre, Names DEF Cb
<1>2. ExecutorMoves("callback")
  BY <1>1, Names DEF ExecutorMoves, Begins, Starting, Syncing, Settled, CallbackRests, CallbackPlaces,
     Inv, ClientInv, PlacesOK, EnabledOK
<1>3. UsageOK' /\ PlacesOK' /\ EnabledOK' /\ ListOK' /\ WaitsOK' /\ PatienceOK'
  BY <1>1, <1>2, ExecutorKeeps
<1>4. /\ ~RequestFlies' /\ CallbackFlies' /\ (Pending' <=> Pending) /\ Flight /\ Flight'
      /\ (EndsPlainly' <=> EndsPlainly) /\ ~SomeBegins' /\ (IsCallbackEnabled' <=> IsCallbackEnabled)
      /\ \A q \in Threads : /\ ~Begins(q)' /\ ~Begins(q)
                            /\ thread'[q].at \notin Starting /\ thread[q].at \notin Starting
  <2>1. ~SomeBegins' /\ (IsCallbackEnabled' <=> IsCallbackEnabled)
        /\ \A q \in Threads : ~Begins(q)' /\ ~Begins(q)
    BY <1>1, <1>2, ExecutorFrame DEF SomeBegins
  <2> QED
    BY <1>1, <2>1 DEF RequestFlies, CallbackFlies, Pending, Flight, EndsPlainly, Begins
<1>5. Is(request.current, "BUSY", 1)
  BY <1>1 DEF Inv, FlightInv, StatusOK
<1>6. GuardOK'
  BY <1>1, <1>2, <1>4, ExecutorGuards
<1>7. RunnersOK'
  BY <1>1, Names DEF Inv, FlightInv, RunnersOK, Rq, Cb
<1>8. OneAtATime'
  BY <1>1, <1>4 DEF OneAtATime
<1>9. CurrentOK'
  BY <1>1, <1>4, Names DEF Inv, FlightInv, CurrentOK, Starting, At, Executors
<1>10. RequestStatusOK' /\ CallbackStatusOK'
  BY <1>1, <1>5 DEF Inv, FlightInv, RequestStatusOK, CallbackStatusOK, CalledBack, Starting, Failing, Is
<1>11. StatusOK'
  BY <1>1, <1>4, <1>5, Names DEF Inv, FlightInv, StatusOK, Starting, At, Is
<1>12. AfterLowering' /\ FinalIsSettled'
  BY <1>1, <1>5, <1>2, ExecutorFrame DEF Inv, FlightInv, AfterLowering, RequestRests, FinalIsSettled, Final, Is
<1>13. CountOK'
  BY <1>1, <1>4 DEF Inv, CountOK
<1>14. OutcomeOK'
  BY <1>1, <1>4 DEF Inv, OutcomeOK, Failing, Starting
<1> QED
  BY <1>1, <1>3, <1>6, <1>7, <1>8, <1>9, <1>10, <1>11, <1>12, <1>13, <1>14 DEF Inv, FlightInv, ClientInv

LEMMA TakeTaskKeeps == ASSUME Inv, NEW e \in Executors, TakeTask(e) PROVE Inv'
BY RequestTakesTask, CallbackTakesTask, Names

LEMMA RequeueTaskKeeps == ASSUME Inv, NEW e \in Executors, RequeueTask(e) PROVE Inv'
<1>1. /\ e = "request" /\ Rq.at = "requeuing" /\ Rq = thread["request"] /\ Rq' = thread'["request"]
      /\ UNCHANGED <<usage, request, tasks, manager, history>>
      /\ Rq.task \in Slots /\ Rq.task \in Tasks /\ Is(Rq.task, "BUSY", 1)
      /\ tasks[Rq.task].runner = "request" /\ Rq.copy = Rq.task /\ "request" \in Executors
  BY WhoseStep, RunnerIs DEF RequeueTask, Move, At, Inv, FlightInv, RequestStatusOK
<1>2. /\ RequestFlies /\ ~CallbackFlies /\ Flight /\ ~SomeBegins /\ Rq.task = request.current
      /\ queue["request"] = <<>> /\ queue["callback"] = <<>> /\ IsCallbackEnabled /\ ~Pending
  BY <1>1 DEF RequestFlies, Flight, Pending, Inv, FlightInv, OneAtATime, CurrentOK, ClientInv, EnabledOK
<1>3. Goes("request", "ending") /\ ThreadsOK' /\ Cb' = Cb
  <2>1. Goes("request", "ending") /\ ThreadsOK'
    BY <1>1, GoToGoes, PlaceNames, TypeParts, Names DEF RequeueTask, Move
  <2> QED
    BY <2>1, OthersAre DEF Goes
<1>4. QueuesOK' /\ queue'["request"] = <<>> /\ queue'["callback"] = <<request.current>>
  <2>1. Append(queue["callback"], request.current) = <<request.current>>
    BY <1>2
  <2>2. <<request.current>> \in Seq(Slots)
    BY <1>1, <1>2
  <2> QED
    BY <1>1, <1>2, <2>1, <2>2, Names, TypeParts DEF RequeueTask, QueuesOK
<1>5. TypeOK'
  BY <1>1, <1>3, <1>4 DEF Inv, TypeOK, ThreadsOK, QueuesOK
<1>6. ExecutorMoves("request")
  BY <1>1, <1>2, <1>3, <1>4, Names DEF ExecutorMoves, Begins, Starting, Syncing, Settled, RequestRests,
     RequestPlaces, Inv, ClientInv, PlacesOK, EnabledOK, Goes, IsCallbackEnabled
<1>7. UsageOK' /\ PlacesOK' /\ EnabledOK' /\ ListOK' /\ WaitsOK' /\ PatienceOK'
  BY <1>1, <1>6, ExecutorKeeps
<1>8. /\ ~RequestFlies' /\ ~CallbackFlies' /\ ~Pending' /\ Flight'
      /\ ~EndsPlainly' /\ ~SomeBegins' /\ (IsCallbackEnabled' <=> IsCallbackEnabled)
      /\ \A q \in Threads : /\ ~Begins(q)' /\ ~Begins(q)
                            /\ thread'[q].at \notin Starting /\ thread[q].at \notin Starting
  <2>1. ~SomeBegins' /\ (IsCallbackEnabled' <=> IsCallbackEnabled)
        /\ \A q \in Threads : ~Begins(q)' /\ ~Begins(q)
    BY <1>1, <1>2, <1>6, ExecutorFrame DEF SomeBegins
  <2>2. Rq'.at = "ending" /\ Rq'.task = Rq.task
    BY <1>1, <1>3 DEF Goes
  <2> QED
    BY <1>1, <1>2, <1>3, <1>4, <2>1, <2>2 DEF RequestFlies, CallbackFlies, Pending, Flight, EndsPlainly,
       Begins, Is
<1>9. GuardOK'
  BY <1>1, <1>2, <1>6, <1>8, ExecutorGuards
<1>10. RunnersOK'
  <2>1. Rq'.at = "ending" /\ Rq'.task = Rq.task /\ Rq'.copy = Rq.task
    BY <1>1, <1>3 DEF Goes
  <2> QED
    BY <1>1, <1>3, <2>1, Names DEF Inv, FlightInv, RunnersOK, Rq, Cb
<1>11. OneAtATime'
  BY <1>4, <1>8 DEF OneAtATime
<1>12. CurrentOK'
  BY <1>1, <1>2, <1>3, <1>4, <1>8, Names DEF Inv, FlightInv, CurrentOK, Starting, At, Executors, Goes
<1>13. RequestStatusOK' /\ CallbackStatusOK'
  BY <1>1, <1>3, <1>4 DEF Inv, FlightInv, RequestStatusOK, CallbackStatusOK, Is, Goes
<1>14. StatusOK'
  BY <1>1, <1>2, <1>4, <1>8, Names DEF Inv, FlightInv, StatusOK, Starting, At, Is
<1>15. AfterLowering' /\ FinalIsSettled'
  BY <1>1, <1>2, <1>3, <1>6, ExecutorFrame DEF Inv, FlightInv, AfterLowering, RequestRests, FinalIsSettled, Final, Is
<1>16. CountOK'
  BY <1>1, <1>2, <1>3, <1>8 DEF Inv, CountOK
<1>17. OutcomeOK'
  BY <1>1, <1>2, <1>3, <1>8 DEF Inv, OutcomeOK, Failing, Starting, Goes
<1> QED
  BY <1>5, <1>7, <1>9, <1>10, <1>11, <1>12, <1>13, <1>14, <1>15, <1>16, <1>17 DEF Inv, FlightInv, ClientInv

\* The end of a run wakes who sleeps on its task, and frees the task.
RunNotified(e) ==
    LET k == thread[e].task IN
    /\ thread[e].at = "notifying" /\ thread'[e].at = "idle"
    /\ thread'[e].inInfer = thread[e].inInfer
    /\ \A q \in Threads : q # e =>
          /\ \/ thread'[q] = thread[q]
             \/ q \in Clients /\ thread[q].at = "asleep" /\ thread'[q].at = "waiting"
             \/ q \in Clients /\ thread[q].at = "drowsing" /\ thread'[q].at = "awaiting"
          /\ thread'[q].task = thread[q].task /\ thread'[q].timed = thread[q].timed
          /\ thread'[q].inInfer = thread[q].inInfer
    /\ k \in Slots /\ k \in Tasks /\ OnlyTask(k)
    /\ tasks'[k].runner = Nil /\ tasks'[k].status = tasks[k].status
    /\ tasks'[k].stage = tasks[k].stage /\ tasks'[k].failed = tasks[k].failed
    /\ tasks'[k].onWait = tasks[k].onWait
    /\ UNCHANGED <<usage, request, manager, queue, history>>
    /\ TypeOK'

LEMMA RunNotifiesMoves == ASSUME Inv, NEW e \in Executors, RunNotifies(e) PROVE RunNotified(e)
<1> DEFINE k == thread[e].task
           S == IF tasks[k].status = "POSTPONED" THEN {} ELSE Sleepers(k)
<1>1. /\ thread[e].at = "notifying" /\ e \in Threads /\ e \notin Clients
      /\ k \in Slots /\ k \in Tasks
      /\ UNCHANGED <<usage, request, manager, queue, history>>
      /\ thread \in [Threads -> ThreadStates]
  BY Names, RunnerIs, TypeParts DEF RunNotifies, At, ThreadsOK
<1>2. \A q \in S : q \in Clients /\ thread[q].at \in {"asleep", "drowsing"}
  BY DEF Sleepers, At
<1>3. /\ \A q \in Threads : q # e => thread'[q] =
            IF q \notin S THEN thread[q]
            ELSE [thread[q] EXCEPT !.at = IF thread[q].at = "asleep" THEN "waiting" ELSE "awaiting"]
      /\ thread'[e] = [thread[e] EXCEPT !.at = "idle", !.task = Nil, !.copy = Nil]
      /\ thread' = [q \in Threads |-> thread'[q]]
  <2> DEFINE A == Awakened(e, "idle", S)
  <2>1. A = [q \in Threads |->
               IF q = e THEN [thread[q] EXCEPT !.at = "idle"]
               ELSE IF q \notin S THEN thread[q]
               ELSE [thread[q] EXCEPT !.at = IF thread[q].at = "asleep" THEN "waiting" ELSE "awaiting"]]
    BY DEF Awakened
  <2>2. thread' = [A EXCEPT ![e].task = Nil, ![e].copy = Nil]
    BY DEF RunNotifies
  <2> HIDE DEF S, A
  <2>3. thread' = [A EXCEPT ![e] = [A[e] EXCEPT !.task = Nil, !.copy = Nil]]
    BY <1>1, <2>1, <2>2
  <2>4. A[e] = [thread[e] EXCEPT !.at = "idle"]
    BY <1>1, <2>1
  <2>5. [A[e] EXCEPT !.task = Nil, !.copy = Nil]
          = [thread[e] EXCEPT !.at = "idle", !.task = Nil, !.copy = Nil]
    BY <2>4
  <2> QED
    BY <1>1, <2>1, <2>3, <2>5, SMTT(60)
<1> HIDE DEF S
<1>4. /\ [thread[e] EXCEPT !.at = "idle", !.task = Nil, !.copy = Nil] \in ThreadStates
      /\ thread'[e].at = "idle" /\ thread'[e].inInfer = thread[e].inInfer
  <2>1. thread[e] \in ThreadStates
    BY <1>1
  <2>2. ASSUME NEW t \in ThreadStates
        PROVE  LET u == [t EXCEPT !.at = "idle", !.task = Nil, !.copy = Nil] IN
               u \in ThreadStates /\ u.at = "idle" /\ u.inInfer = t.inInfer
    BY PlaceNames DEF ThreadStates
  <2> QED
    BY <1>3, <2>1, <2>2
<1>5. ASSUME NEW q \in Threads, q # e
      PROVE  /\ thread'[q] \in ThreadStates
             /\ \/ thread'[q] = thread[q]
                \/ q \in Clients /\ thread[q].at = "asleep" /\ thread'[q].at = "waiting"
                \/ q \in Clients /\ thread[q].at = "drowsing" /\ thread'[q].at = "awaiting"
             /\ thread'[q].task = thread[q].task /\ thread'[q].timed = thread[q].timed
             /\ thread'[q].inInfer = thread[q].inInfer
  <2>1. thread[q] \in ThreadStates
    BY <1>1
  <2>2. ASSUME NEW t \in ThreadStates, NEW place \in Places
        PROVE  LET u == [t EXCEPT !.at = place] IN
               u \in ThreadStates /\ u.at = place /\ u.task = t.task /\ u.timed = t.timed
               /\ u.inInfer = t.inInfer
    BY DEF ThreadStates
  <2>3. CASE q \notin S
    BY <1>3, <1>5, <2>1, <2>3
  <2>4. CASE q \in S /\ thread[q].at = "asleep"
    <3>1. thread'[q] = [thread[q] EXCEPT !.at = "waiting"]
      BY <1>3, <1>5, <2>4
    <3> QED
      BY <1>2, <2>1, <2>2, <2>4, <3>1, PlaceNames
  <2>5. CASE q \in S /\ thread[q].at = "drowsing"
    <3>1. thread'[q] = [thread[q] EXCEPT !.at = "awaiting"]
      BY <1>3, <1>5, <2>5
    <3> QED
      BY <1>2, <2>1, <2>2, <2>5, <3>1, PlaceNames
  <2> QED
    BY <1>2, <2>3, <2>4, <2>5
<1>6. ThreadsOK'
  <2>1. \A q \in Threads : thread'[q] \in ThreadStates
    BY <1>3, <1>4, <1>5
  <2> QED
    BY <1>3, <2>1 DEF ThreadsOK
<1>7. /\ TasksOK' /\ OnlyTask(k) /\ tasks'[k].runner = Nil /\ tasks'[k].status = tasks[k].status
      /\ tasks'[k].stage = tasks[k].stage /\ tasks'[k].failed = tasks[k].failed
      /\ tasks'[k].onWait = tasks[k].onWait
  <2>1. tasks' = [tasks EXCEPT ![k].runner = Nil]
    BY DEF RunNotifies
  <2>2. tasks \in [Tasks -> TaskStates] /\ k \in Tasks
    BY <1>1, TypeParts DEF TasksOK
  <2> HIDE DEF k
  <2>3. tasks' = [tasks EXCEPT ![k] = [tasks[k] EXCEPT !.runner = Nil]]
    BY <2>1, <2>2
  <2>4. tasks'[k] = [tasks[k] EXCEPT !.runner = Nil]
    BY <2>2, <2>3
  <2>5. OnlyTask(k)
    BY <2>2, <2>3 DEF OnlyTask
  <2>6. ASSUME NEW t \in TaskStates
        PROVE  LET u == [t EXCEPT !.runner = Nil] IN
               /\ u \in TaskStates /\ u.runner = Nil /\ u.status = t.status /\ u.stage = t.stage
               /\ u.failed = t.failed /\ u.onWait = t.onWait
    BY DEF TaskStates
  <2>7. TasksOK'
    BY <2>2, <2>3, <2>6 DEF TasksOK
  <2> QED
    BY <2>2, <2>4, <2>5, <2>6, <2>7, SMTT(60)
<1>8. TypeOK'
  BY <1>1, <1>6, <1>7 DEF Inv, TypeOK, ThreadsOK, TasksOK
<1> QED
  BY <1>1, <1>4, <1>5, <1>7, <1>8 DEF RunNotified

LEMMA RunNotifiesKeeps == ASSUME Inv, NEW e \in Executors, RunNotifies(e) PROVE Inv'
<1> DEFINE k == thread[e].task
<1>1. /\ thread[e].at = "notifying" /\ thread'[e].at = "idle"
      /\ thread'[e].inInfer = thread[e].inInfer
      /\ \A q \in Threads : q # e =>
            /\ \/ thread'[q] = thread[q]
               \/ q \in Clients /\ thread[q].at = "asleep" /\ thread'[q].at = "waiting"
               \/ q \in Clients /\ thread[q].at = "drowsing" /\ thread'[q].at = "awaiting"
            /\ thread'[q].task = thread[q].task /\ thread'[q].timed = thread[q].timed
            /\ thread'[q].inInfer = thread[q].inInfer
      /\ k \in Slots /\ k \in Tasks /\ OnlyTask(k)
      /\ tasks'[k].runner = Nil /\ tasks'[k].status = tasks[k].status
      /\ tasks'[k].stage = tasks[k].stage /\ tasks'[k].failed = tasks[k].failed
      /\ UNCHANGED <<usage, request, manager, queue, history>>
      /\ TypeOK'
  BY RunNotifiesMoves DEF RunNotified
<1>2. /\ Rq = thread["request"] /\ Rq' = thread'["request"]
      /\ Cb = thread["callback"] /\ Cb' = thread'["callback"]
      /\ "request" \in Executors /\ "callback" \in Executors
      /\ tasks[k].runner = e
  BY <1>1, RunnerIs
<1> HIDE DEF k
<1>3. /\ Rq' = Rq \/ (e = "request" /\ Rq.at = "notifying" /\ Rq'.at = "idle" /\ Rq'.inInfer = Rq.inInfer)
      /\ Cb' = Cb \/ (e = "callback" /\ Cb.at = "notifying" /\ Cb'.at = "idle" /\ Cb'.inInfer = Cb.inInfer)
  BY <1>1, <1>2, Names
<1>4. \A j \in Tasks : /\ tasks'[j].status = tasks[j].status /\ tasks'[j].stage = tasks[j].stage
                       /\ tasks'[j].failed = tasks[j].failed
  BY <1>1 DEF OnlyTask
<1>5. \A q \in Threads : /\ Begins(q)' <=> Begins(q)
                         /\ thread'[q].at \in Starting \/ thread[q].at \in Starting
                              => thread'[q].at = thread[q].at
  BY <1>1 DEF Begins, Starting, Syncing
<1>6. /\ SomeBegins' <=> SomeBegins
      /\ UNCHANGED Users
      /\ UsageOK' <=> UsageOK
      /\ IsOneClient' <=> IsOneClient
      /\ IsPatient' <=> IsPatient
      /\ IsCallbackEnabled' <=> IsCallbackEnabled
  BY <1>1, <1>5, UsageKept DEF SomeBegins, IsCallbackEnabled
<1>7. /\ RequestFlies' <=> RequestFlies
      /\ CallbackFlies' <=> CallbackFlies
      /\ EndsPlainly' <=> EndsPlainly
  BY <1>1, <1>3, <1>4, TasksNamed DEF RequestFlies, CallbackFlies, EndsPlainly
<1>8. (Flight' <=> Flight) /\ (Pending' <=> Pending) /\ (Settled' <=> Settled)
      /\ (RequestRests' <=> RequestRests)
  BY <1>1, <1>3, <1>7 DEF Flight, Pending, Settled, RequestRests, CallbackRests
<1>9. RunnersOK'
  <2> SUFFICES ASSUME NEW d \in Executors, d # e, thread[d].at # "idle"
               PROVE  /\ thread'[d] = thread[d] /\ thread[d].task \in Slots
                      /\ thread[d].at # "locking" => tasks'[thread[d].task].runner = d
                      /\ thread[d].at \notin {"idle", "locking", "copying", "notifying"}
                            => thread[d].copy = thread[d].task
    BY <1>1, <1>3, Names DEF RunnersOK
  <2>1. thread'[d] = thread[d] /\ d \in Threads
    BY <1>1, Names
  <2>2. thread[d].at # "locking" => tasks[thread[d].task].runner = d /\ thread[d].task # k
    BY <1>2 DEF Inv, FlightInv, RunnersOK
  <2> QED
    BY <1>1, <2>1, <2>2, Names DEF Inv, FlightInv, RunnersOK, OnlyTask
<1>10. OneAtATime'
  BY <1>1, <1>5, <1>6, <1>7, <1>8 DEF Inv, FlightInv, OneAtATime
<1>11. CurrentOK'
  BY <1>1, <1>3, <1>4, <1>5, <1>7, <1>8, Names, TasksNamed DEF Inv, FlightInv, CurrentOK, Starting, At,
     CallbackFlies, RequestFlies
<1>12. RequestStatusOK'
  BY <1>1, <1>3, <1>4, TasksNamed DEF Inv, FlightInv, RequestStatusOK, Is
<1>13. CallbackStatusOK'
  BY <1>1, <1>3, <1>4, TasksNamed DEF Inv, FlightInv, CallbackStatusOK, CalledBack, Starting, Failing, Is
<1>14. StatusOK'
  BY <1>1, <1>4, <1>5, <1>8, Names, TasksNamed DEF Inv, FlightInv, StatusOK, Starting, At, Is
<1>15. AfterLowering' /\ FinalIsSettled'
  BY <1>1, <1>3, <1>4, <1>5, <1>6, <1>8, TasksNamed DEF Inv, FlightInv, AfterLowering, FinalIsSettled,
     Starting, At
<1>16. PlacesOK'
  BY <1>1, <1>3, <1>5, <1>6, Names DEF Inv, ClientInv, PlacesOK, ClientPlaces, RequestPlaces,
     CallbackPlaces, Waiting, Destroying, Starting, CalledBack
<1>17. EnabledOK'
  BY <1>1, <1>3, <1>6, Names DEF Inv, ClientInv, EnabledOK, Waiting, Starting
<1>18. ListOK'
  BY <1>1, <1>4, <1>6, Names DEF Inv, ClientInv, ListOK, Destroying, Alive, At
<1>19. WaitsOK'
  BY <1>1, <1>4, Names, TasksNamed DEF Inv, ClientInv, WaitsOK, Waiting, WaitIsOver, At
<1>20. PatienceOK' /\ GuardOK'
  BY <1>1, <1>6, <1>8, Names DEF Inv, ClientInv, PatienceOK, GuardOK, At
<1>21. CountOK'
  BY <1>1, <1>3, <1>6, <1>7, <1>8 DEF Inv, CountOK
<1>22. OutcomeOK'
  BY <1>1, <1>3, <1>4, <1>5, <1>7, <1>8 DEF Inv, OutcomeOK, Starting, Failing
<1> QED
  BY <1>1, <1>6, <1>9, <1>10, <1>11, <1>12, <1>13, <1>14, <1>15, <1>16, <1>17, <1>18, <1>19, <1>20,
     <1>21, <1>22 DEF Inv, FlightInv, ClientInv

-----------------------------------------------------------------------------
(* The invariant is inductive                                              *)

LEMMA StartStepKeeps == ASSUME Inv, NEW p \in Threads, StartStep(p) PROVE Inv'
BY CheckBlobsThrowsKeeps, ResetCallbackManagerKeeps, PickTaskKeeps, PrepareTaskKeeps, OccupyTaskKeeps,
   PushTaskKeeps DEF StartStep

LEMMA WaitStepKeeps == ASSUME Inv, NEW c \in Clients, WaitStep(c) PROVE Inv'
BY WaitBeginKeeps, WaitFlagKeeps, WaitTestKeeps, WaitReturnKeeps, WaitReleaseKeeps, WaitFinishKeeps
   DEF WaitStep

LEMMA SyncStepKeeps == ASSUME Inv, NEW c \in Clients, SyncStep(c) PROVE Inv'
BY SyncSelectKeeps, SyncOccupyKeeps, SyncLockKeeps, SyncRunKeeps, SyncNotifyKeeps, SyncLowerKeeps
   DEF SyncStep

LEMMA ClientStepKeeps == ASSUME Inv, NEW c \in Clients, ClientStep(c) PROVE Inv'
BY WaitStepKeeps, SyncStepKeeps, PluginInferBusyKeeps, SweepKeeps, AwaitKeeps DEF ClientStep

LEMMA ExecutorStepKeeps == ASSUME Inv, NEW e \in Executors, ExecutorStep(e) PROVE Inv'
BY TakeTaskKeeps, RunBeginKeeps, CopyAsyncTaskKeeps, SwitchStageKeeps, InferKeeps, InferStageDoneKeeps,
   DecideKeeps, ReoccupyTaskKeeps, RequeueTaskKeeps, LowerFlagKeeps, CallbackStageDoneKeeps,
   CallCallbackKeeps, CallbackReturnsKeeps, FailureLowersFlagKeeps, HandleFailureKeeps, RunThrowsKeeps,
   RunEndsKeeps, RunSetsDoneKeeps, RunNotifiesKeeps DEF ExecutorStep

LEMMA StutterKeeps == ASSUME Inv, UNCHANGED vars PROVE Inv'
<1> USE DEF vars
<1>1. TypeOK'
  BY DEF Inv, TypeOK
<1>2. CoreKept
  BY DEF CoreKept, Rq, Cb
<1>3. CountOK' /\ OutcomeOK'
  BY <1>2, CountsKept
<1>4. /\ FlightInv' /\ (Settled' <=> Settled) /\ (SomeBegins' <=> SomeBegins)
      /\ (Pending' <=> Pending) /\ (Flight' <=> Flight)
      /\ \A p \in Threads : Begins(p)' <=> Begins(p)
  BY <1>2, CoreKeeps
<1>5. /\ UNCHANGED <<Users, Rq, Cb>>
      /\ UsageOK' <=> UsageOK
      /\ IsOneClient' <=> IsOneClient
      /\ IsPatient' <=> IsPatient
      /\ IsCallbackEnabled' <=> IsCallbackEnabled
  BY <1>2, UsageKept DEF CoreKept, IsCallbackEnabled
<1>6. UsageOK' /\ PlacesOK' /\ EnabledOK'
  <2>1. UsageOK'
    BY <1>5 DEF Inv, ClientInv
  <2>2. PlacesOK'
    BY <1>4, <1>5, Names DEF Inv, ClientInv, PlacesOK
  <2>3. EnabledOK'
    BY <1>5 DEF Inv, ClientInv, EnabledOK
  <2> QED
    BY <2>1, <2>2, <2>3
<1>7. ListOK' /\ WaitsOK'
  BY <1>4, <1>5 DEF Inv, ClientInv, ListOK, WaitsOK, WaitIsOver, Alive, At
<1>8. PatienceOK' /\ GuardOK'
  BY <1>4, <1>5 DEF Inv, ClientInv, PatienceOK, GuardOK, At
<1> QED
  BY <1>1, <1>3, <1>4, <1>6, <1>7, <1>8 DEF Inv, ClientInv

LEMMA NextInv == Inv /\ [Next]_vars => Inv'
<1> SUFFICES ASSUME Inv, [Next]_vars PROVE Inv'
  OBVIOUS
<1>1. CASE \E p \in Threads : StartAsync(p) \/ StartStep(p)
  BY <1>1, StartAsyncKeeps, StartStepKeeps
<1>2. CASE \E e \in Executors : ExecutorStep(e)
  BY <1>2, ExecutorStepKeeps
<1>3. CASE \E c \in Clients : ClientStep(c)
  BY <1>3, ClientStepKeeps
<1>4. CASE \E c \in Clients : \/ \E f \in BOOLEAN : WaitBegin(c, f)
                              \/ WaitTimeout(c)
  BY <1>4, WaitBeginKeeps, WaitTimeoutKeeps
<1>5. CASE \E c \in Clients : SyncInfer(c) \/ PluginInfer(c) \/ Destroy(c)
  BY <1>5, SyncInferKeeps, PluginInferKeeps, DestroyKeeps
<1>6. CASE UNCHANGED vars
  BY <1>6, StutterKeeps
<1> QED
  BY <1>1, <1>2, <1>3, <1>4, <1>5, <1>6 DEF Next

LEMMA Invariant == ASSUME ServedUsages PROVE Spec => []Inv
<1>1. Init => Inv
  BY InitInv
<1> QED
  BY <1>1, NextInv, PTL DEF Spec

-----------------------------------------------------------------------------
(* Theorems                                                                *)

\* The variables keep their types, so no Wait() waits for a task that is not
\* there and no stage number leaves 0..2.
THEOREM RequestTypeCorrect == ASSUME ServedUsages PROVE Spec => []TypeOK
<1>1. Inv => TypeOK
  BY DEF Inv
<1> QED
  BY <1>1, Invariant, PTL

LEMMA InferringOnce == ASSUME Inv PROVE InferenceIsExclusive
<1>1. ASSUME NEW p \in Inferring, NEW q \in Inferring PROVE p = q
  <2>1. \A r \in Inferring : (r = "request" /\ Rq.at = "inferring") \/ Begins(r)
    BY Names DEF Inferring, At, Begins, Syncing, Rq, Cb, Inv, ClientInv, PlacesOK, ClientPlaces,
       CallbackPlaces, CalledBack, Starting, Waiting, Destroying, Failing
  <2>2. Rq.at = "inferring" => ~SomeBegins
    BY DEF Inv, FlightInv, OneAtATime, Flight, RequestFlies
  <2>3. \A r \in Inferring : r \in Threads
    BY DEF Inferring
  <2> QED
    BY <2>1, <2>2, <2>3 DEF Inv, FlightInv, OneAtATime, SomeBegins
<1>2. CASE Inferring = {}
  BY <1>2, FS_EmptySet DEF InferenceIsExclusive
<1>3. CASE Inferring # {}
  <2>1. PICK p \in Inferring : TRUE
    BY <1>3
  <2>2. Inferring = {p}
    BY <1>1, <2>1
  <2> QED
    BY <2>2, FS_Singleton, SMTT(60) DEF InferenceIsExclusive
<1> QED
  BY <1>2, <1>3

\* No two threads are inside _syncRequest->Infer(), whether StartAsync(),
\* Infer() or the callback brought them there.
THEOREM InferenceExclusive == ASSUME ServedUsages PROVE Spec => []InferenceIsExclusive
BY Invariant, InferringOnce, PTL

LEMMA PendingIsGuarded == ASSUME Inv PROVE BusyGuardsInference
<1> SUFFICES ASSUME InferencePending, "timed" \notin usage PROVE request.busy
  BY DEF BusyGuardsInference
<1>1. Pending \/ SomeBegins
  <2>1. ASSUME NEW p \in Inferring PROVE Pending \/ SomeBegins
    BY <2>1, Names DEF Inferring, At, Begins, SomeBegins, Pending, Syncing, Rq, Cb, Inv, ClientInv,
       PlacesOK, ClientPlaces, CallbackPlaces, CalledBack, Starting, Waiting, Destroying, Failing
  <2> QED
    BY <2>1 DEF InferencePending, Pending, Rq
<1> QED
  BY <1>1 DEF Inv, ClientInv, GuardOK

\* While an inference is queued or runs, the busy flag is up: the blobs are
\* not replaced under it, and no second start is accepted.
THEOREM BusyGuards == ASSUME ServedUsages PROVE Spec => []BusyGuardsInference
BY Invariant, PendingIsGuarded, PTL

LEMMA CountsAgree == ASSUME Inv PROVE EachStartServedOnce
<1>1. /\ history.accepted \in Nat /\ history.due \in Nat
      /\ history.inferred \in Nat /\ history.called \in Nat
  BY DEF Inv, TypeOK
<1>2. Pending => Flight
  BY DEF Pending, Flight, RequestFlies
<1>3. history.called <= history.inferred /\ history.inferred <= history.accepted
      /\ history.called <= history.due
  BY <1>1, <1>2 DEF Inv, CountOK
<1>4. ASSUME Quiescent
      PROVE  history.inferred = history.accepted /\ history.called = history.due
  <2>1. Rq.at = "idle" /\ Cb.at = "idle" /\ queue["request"] = <<>> /\ queue["callback"] = <<>>
    BY <1>4, Names DEF Quiescent, At, Rq, Cb
  <2>2. ~Flight /\ ~Pending
    BY <2>1 DEF Flight, RequestFlies, CallbackFlies, Pending
  <2> QED
    BY <1>1, <2>1, <2>2 DEF Inv, CountOK
<1> QED
  BY <1>3, <1>4 DEF EachStartServedOnce

\* Each accepted start infers once and calls the callback once: when all
\* executors rest, as many inferences ended as starts were accepted.
THEOREM StartsServedOnce == ASSUME ServedUsages PROVE Spec => []EachStartServedOnce
BY Invariant, CountsAgree, PTL

LEMMA OverIsServed == ASSUME Inv PROVE WaitReturnsAfterCallback
<1> SUFFICES ASSUME NEW c \in Clients, At(c, "checking"), ~thread[c].timed, thread[c].task # Sync
             PROVE  history.inferred = history.accepted /\ history.called = history.due
  BY DEF WaitReturnsAfterCallback
<1>1. thread[c].at = "checking" /\ request.current # Sync
  BY DEF At, Inv, ClientInv, WaitsOK, Waiting
<1>2. Settled /\ ~Flight
  BY <1>1, OverIsSettled
<1>3. ~Pending /\ Cb.at \in {"idle", "notifying"}
  BY <1>2 DEF Settled, RequestRests, CallbackRests, Pending
<1>4. /\ history.accepted \in Nat /\ history.due \in Nat
      /\ history.inferred \in Nat /\ history.called \in Nat
  BY DEF Inv, TypeOK
<1> QED
  BY <1>2, <1>3, <1>4 DEF Inv, CountOK

\* Wait(RESULT_READY) answers for the last start when its inference has
\* ended and its callback has been called.
THEOREM WaitIsAfterCallback == ASSUME ServedUsages PROVE Spec => []WaitReturnsAfterCallback
BY Invariant, OverIsServed, PTL

LEMMA GoneIsSettled == ASSUME Inv PROVE NoUseAfterDestruction
<1> SUFFICES ASSUME \E c \in Clients : At(c, "gone")
             PROVE  Settled
  BY Names DEF NoUseAfterDestruction, Settled, RequestRests, CallbackRests, At, Rq, Cb
<1>1. \A k \in Slots : tasks[k].status \in Final \cup {"INITIAL"}
  BY DEF Inv, ClientInv, ListOK
<1>2. Rq.at \in {"idle", "notifying"}
  BY <1>1, TasksNamed DEF Inv, FlightInv, RequestStatusOK, Is, Final, ClientInv, PlacesOK, RequestPlaces,
     Failing
<1>3. Cb.at \in {"idle", "notifying"}
  BY <1>1, TasksNamed DEF Inv, FlightInv, CallbackStatusOK, Is, Final, ClientInv, PlacesOK,
     CallbackPlaces, CalledBack, Failing
<1>4. queue["request"] = <<>> /\ queue["callback"] = <<>>
  <2>1. queue["request"] # <<>> \/ queue["callback"] # <<>> =>
          request.current \in Slots /\ tasks[request.current].status = "BUSY"
    BY TasksNamed, Names DEF Inv, FlightInv, CurrentOK, StatusOK, Flight, Is
  <2> QED
    BY <1>1, <2>1 DEF Final
<1> QED
  BY <1>2, <1>3, <1>4 DEF Settled, RequestRests, CallbackRests

\* The destructor returns only when no executor holds or runs a task of the
\* request, whose function would use it through `this`.
THEOREM DestroyedIsUnused == ASSUME ServedUsages PROVE Spec => []NoUseAfterDestruction
BY Invariant, GoneIsSettled, PTL

LEMMA CallbackStepToldOutcome ==
    ASSUME Inv, [Next]_vars, history'.called # history.called
    PROVE  manager.status = history.outcome
<1>1. PICK e \in Executors : CallCallback(e)
  <2>1. history \in [accepted : Nat, due : Nat, inferred : Nat, called : Nat,
                     outcome : {"OK", "ERROR"}, waited : BOOLEAN]
    BY DEF Inv, TypeOK
  <2>2. history' # history
    OBVIOUS
  <2>3. ASSUME NEW p \in Threads, StartAsync(p) \/ StartStep(p) PROVE FALSE
    BY <2>1, <2>2, <2>3 DEF StartAsync, StartStep, CheckBlobsThrows, ResetCallbackManager, PickTask,
       PrepareTask, OccupyTask, PushTask
  <2>4. ASSUME NEW c \in Clients,
               \/ WaitStep(c) \/ WaitTimeout(c)
               \/ \E f \in BOOLEAN : WaitBegin(c, f)
        PROVE  FALSE
    BY <2>1, <2>2, <2>4 DEF WaitStep, WaitBegin, WaitFlag, WaitTest, WaitReturn, WaitRelease, WaitFinish,
       WaitTimeout
  <2>5. ASSUME NEW c \in Clients,
               \/ SyncStep(c) \/ PluginInferBusy(c) \/ Sweep(c) \/ Await(c)
               \/ SyncInfer(c) \/ PluginInfer(c) \/ Destroy(c)
        PROVE  FALSE
    BY <2>2, <2>5 DEF SyncStep, SyncSelect, SyncOccupy, SyncLock, SyncRun, SyncNotify, SyncLower,
       PluginInferBusy, Sweep, Await, SyncInfer, PluginInfer, Destroy
  <2>6. PICK e \in Executors : ExecutorStep(e)
    BY <2>2, <2>3, <2>4, <2>5 DEF Next, ClientStep, vars
  <2>7. ~Infer(e)
    BY <2>1 DEF Infer
  <2> QED
    BY <2>2, <2>6, <2>7 DEF ExecutorStep, TakeTask, RunBegin, CopyAsyncTask, SwitchStage, InferStageDone,
       Decide, ReoccupyTask, RequeueTask, LowerFlag, CallbackStageDone, CallbackReturns,
       FailureLowersFlag, HandleFailure, RunThrows, RunEnds, RunSetsDone, RunNotifies
<1>2. Cb.at = "calling"
  BY <1>1, WhoseStep DEF CallCallback, Move, At, Cb
<1>3. "callback" \in usage
  BY <1>2 DEF Inv, ClientInv, PlacesOK
<1>4. OutcomeOK
  BY DEF Inv
<1>5. CASE "fail" \notin usage
  BY <1>4, <1>5 DEF OutcomeOK
<1>6. CASE "fail" \in usage
  <2>1. Cb.at \in {"lowered", "calling"}
    BY <1>2
  <2> QED
    BY <1>3, <1>4, <1>6, <2>1 DEF OutcomeOK
<1> QED
  BY <1>5, <1>6

\* The callback is told the outcome of its own inference, not that of an
\* earlier or a later start.
THEOREM CallbackIsToldOutcome == ASSUME ServedUsages PROVE Spec => CallbackToldOutcome
<1>1. Inv /\ [Next]_vars => [history'.called # history.called => manager.status = history.outcome]_vars
  BY CallbackStepToldOutcome
<1> QED
  BY <1>1, Invariant, PTL DEF Spec, CallbackToldOutcome

-----------------------------------------------------------------------------
(* No wake-up is lost                                                      *)

OnWaitPlaces == {"waiting", "asleep", "returning", "awaiting", "drowsing"}

\* _runMutex of a task is held by an executor that runs it, ...
RunnerRuns ==
    \A k \in Tasks, e \in Executors : tasks[k].runner = e =>
        thread[e].task = k /\ thread[e].at \notin {"idle", "locking"}

\* ... as a task between its stages is, until its status is set, ...
PostponedRuns ==
    \A k \in Tasks : tasks[k].status = "POSTPONED" =>
        \E e \in Executors : /\ thread[e].task = k
                             /\ thread[e].at \notin {"idle", "locking", "notifying"}

\* ... _isOnWait is set by a thread in wait(), and the task of Infer() is
\* BUSY while it runs, or after it was refused.
OnWaitIsWaited ==
    \A k \in Tasks : tasks[k].onWait =>
        \E c \in Clients : thread[c].task = k /\ thread[c].at \in OnWaitPlaces

SyncRuns ==
    tasks[Sync].status = "BUSY" =>
        "full" \in usage \/ \E c \in Clients : thread[c].at \in {"syncLocking", "syncInferring"}

WakeInv == /\ RunnerRuns /\ PostponedRuns /\ OnWaitIsWaited /\ SyncRuns
           /\ SleepersWillBeWoken

\* What a thread may do without a wake-up being at stake: the tasks keep what
\* waiting depends on, ...
SameTasks == \A k \in Tasks : /\ tasks'[k].status = tasks[k].status
                             /\ tasks'[k].onWait = tasks[k].onWait
                             /\ tasks'[k].runner = tasks[k].runner

\* ... and the thread neither begins nor ends to run, to wait for, or to
\* notify of a task, unless it goes to sleep on one in progress.
Bystands(p) ==
    /\ usage' = usage /\ Others(p)
    /\ p \in Executors =>
          \/ thread[p].at \in {"idle", "locking"} /\ thread'[p].at \in {"idle", "locking"}
          \/ /\ thread[p].at \notin {"idle", "locking", "notifying"}
             /\ thread'[p].at \notin {"idle", "locking", "notifying"}
             /\ thread'[p].task = thread[p].task
    /\ p \in Clients =>
          /\ thread[p].at \in OnWaitPlaces
               => thread'[p].at \in OnWaitPlaces /\ thread'[p].task = thread[p].task
          /\ thread'[p].at \in {"asleep", "drowsing"}
               => thread'[p].task \in Tasks /\ ~WaitIsOver(thread'[p].task)
          /\ thread[p].at \in {"syncLocking", "syncInferring"}
               => thread'[p].at \in {"syncLocking", "syncInferring"} \/ "full" \in usage
          /\ thread[p].at # "syncNotifying"

Neutral(p) == SameTasks /\ Bystands(p)

LEMMA NeutralKeeps == ASSUME Inv, WakeInv, NEW p \in Threads, Neutral(p) PROVE WakeInv'
<1> USE DEF WakeInv
<1>1. \A c \in Clients : thread[c].at \in {"asleep", "drowsing"} => thread[c].task \in Tasks
  BY TasksNamed DEF Waiting
<1>2. RunnerRuns'
  BY Names DEF RunnerRuns, Neutral, Bystands, SameTasks, Others
<1>3. PostponedRuns'
  BY Names DEF PostponedRuns, Neutral, Bystands, SameTasks, Others
<1>4. OnWaitIsWaited'
  BY Names DEF OnWaitIsWaited, Neutral, Bystands, SameTasks, Others
<1>5. SyncRuns'
  BY Names DEF SyncRuns, Neutral, Bystands, SameTasks, Others
<1>6. SleepersWillBeWoken'
  <2> SUFFICES ASSUME NEW c \in Clients, thread'[c].at \in {"asleep", "drowsing"}
               PROVE  \/ ~WaitIsOver(thread[c].task)'
                      \/ \E e \in Executors : At(e, "notifying")' /\ thread'[e].task = thread'[c].task
                      \/ thread'[c].task = Sync /\ \E d \in Clients : At(d, "syncNotifying")'
    BY DEF SleepersWillBeWoken
  <2>1. CASE c = p
    BY <2>1 DEF Neutral, Bystands, SameTasks, WaitIsOver
  <2>2. CASE c # p
    <3>1. thread'[c] = thread[c] /\ thread[c].task \in Tasks /\ c \in Threads
      BY <1>1, <2>2, Names DEF Neutral, Bystands, Others
    <3>2. WaitIsOver(thread[c].task)' <=> WaitIsOver(thread[c].task)
      BY <3>1 DEF Neutral, Bystands, SameTasks, WaitIsOver
    <3>3. \A e \in Executors : At(e, "notifying") => thread'[e] = thread[e]
      BY Names DEF Neutral, Bystands, Others, At
    <3>4. \A d \in Clients : At(d, "syncNotifying") => thread'[d] = thread[d]
      BY Names DEF Neutral, Bystands, Others, At
    <3> QED
      BY <3>1, <3>2, <3>3, <3>4 DEF SleepersWillBeWoken, At
  <2> QED
    BY <2>1, <2>2
<1> QED
  BY <1>2, <1>3, <1>4, <1>5, <1>6

LEMMA UnchangedTasks == ASSUME tasks' = tasks PROVE SameTasks
BY DEF SameTasks

LEMMA StageKeepsTasks ==
    ASSUME Inv, NEW k \in Tasks, NEW s \in 0..2, tasks' = [tasks EXCEPT ![k].stage = s]
    PROVE  SameTasks
BY StageSet, TypeParts DEF SameTasks, OnlyTask

\* An executor goes on with the run of its task.
LEMMA RunnerGoes ==
    ASSUME Inv, NEW e \in Executors, NEW place \in Places, GoTo(e, place),
           usage' = usage, SameTasks,
           thread[e].at \notin {"idle", "locking", "notifying"},
           place \notin {"idle", "locking", "notifying"}
    PROVE  Neutral(e)
BY GoToGoes, TypeParts, Names DEF Goes, Neutral, Bystands

\* A client goes on with a call in which it does not wait.
LEMMA ClientGoes ==
    ASSUME Inv, NEW c \in Clients, NEW place \in Places, GoTo(c, place),
           usage' = usage, SameTasks,
           thread[c].at \notin OnWaitPlaces \cup {"syncLocking", "syncInferring", "syncNotifying"},
           place \notin {"asleep", "drowsing"}
    PROVE  Neutral(c)
BY GoToGoes, TypeParts, Names DEF Goes, Neutral, Bystands, OnWaitPlaces

\* The stages of a task go down.
LEMMA StageDoneNeutral ==
    ASSUME Inv, NEW e \in Executors, NEW next \in Places \ {"idle", "locking", "notifying"},
           StageDone(e, next), usage' = usage,
           thread[e].at \notin {"idle", "locking", "copying", "notifying"}
    PROVE  Neutral(e)
<1> DEFINE k == thread[e].copy
<1>1. k \in Tasks /\ tasks[k] \in TaskStates
  BY RunnerIs, TasksNamed
<1>2. CASE tasks[k].stage = 0
  BY <1>2, RunnerGoes, UnchangedTasks, PlaceNames DEF StageDone, StageOf
<1>3. CASE tasks[k].stage # 0
  <2>1. /\ GoTo(e, next) /\ tasks' = [tasks EXCEPT ![k].stage = tasks[k].stage - 1]
        /\ tasks[k].stage - 1 \in 0..2
    BY <1>1, <1>3 DEF StageDone, StageOf, TaskStates
  <2>2. SameTasks
    BY <1>1, <2>1, StageKeepsTasks
  <2> QED
    BY <2>1, <2>2, RunnerGoes
<1> QED
  BY <1>2, <1>3

LEMMA ExecutorStepNeutral ==
    ASSUME Inv, NEW e \in Executors,
           \/ TakeTask(e) \/ CopyAsyncTask(e) \/ SwitchStage(e) \/ Infer(e) \/ InferStageDone(e)
           \/ Decide(e) \/ RequeueTask(e) \/ LowerFlag(e) \/ CallbackStageDone(e)
           \/ CallCallback(e) \/ CallbackReturns(e) \/ FailureLowersFlag(e) \/ HandleFailure(e)
    PROVE  Neutral(e)
<1> USE PlaceNames
<1>1. CASE TakeTask(e)
  BY <1>1, TypeParts, Names DEF TakeTask, Neutral, Bystands, SameTasks, ThreadsOK, ThreadStates, Others, At
<1>2. CASE CopyAsyncTask(e)
  BY <1>2, CopyAsyncTaskMoves, Names DEF Neutral, Bystands, SameTasks
<1>3. CASE SwitchStage(e)
  <2>1. StageOf(e) \in 0..2
    BY <1>3, RunnerIs, TasksNamed DEF SwitchStage, Move, At, StageOf, TaskStates
  <2> QED
    BY <1>3, <2>1, RunnerGoes, UnchangedTasks DEF SwitchStage, Move, At
<1>4. CASE Infer(e)
  BY <1>4, RunnerGoes, UnchangedTasks DEF Infer, Move, At
<1>5. CASE InferStageDone(e)
  BY <1>5, StageDoneNeutral DEF InferStageDone, At
<1>6. CASE Decide(e)
  BY <1>6, RunnerGoes, UnchangedTasks, StageDoneNeutral DEF Decide, At
<1>7. CASE CallbackStageDone(e)
  BY <1>7, StageDoneNeutral DEF CallbackStageDone, At
<1>8. CASE RequeueTask(e) \/ LowerFlag(e) \/ CallCallback(e) \/ FailureLowersFlag(e)
  BY <1>8, RunnerGoes, UnchangedTasks
     DEF RequeueTask, LowerFlag, CallCallback, FailureLowersFlag, Move, At
<1>9. CASE CallbackReturns(e)
  BY <1>9, RunnerGoes, UnchangedTasks DEF CallbackReturns, At
<1>10. CASE HandleFailure(e)
  <2>1. thread[e].at = "failed" /\ thread[e].copy \in Tasks
    BY <1>10, RunnerIs DEF HandleFailure, At
  <2>2. SameTasks
    BY <1>10, <2>1, StageKeepsTasks, UnchangedTasks DEF HandleFailure
  <2> QED
    BY <1>10, <2>1, <2>2, RunnerGoes DEF HandleFailure
<1> QED
  BY <1>1, <1>2, <1>3, <1>4, <1>5, <1>6, <1>7, <1>8, <1>9, <1>10

\* A start by a client or by the callback.
LEMMA StarterIsNeutral ==
    ASSUME Inv, NEW p \in Threads, NEW place \in Places \ {"asleep", "drowsing", "locking", "notifying"},
           p \in Clients \/ place # "idle",
           thread[p].at \in Starting \cup {"idle", "inInfer", "inCallback"},
           p \in Clients \/ thread[p].at # "idle",
           GoTo(p, place), usage' = usage, SameTasks
    PROVE  Neutral(p)
<1>1. CASE p \in Clients
  BY <1>1, ClientGoes DEF Starting, OnWaitPlaces
<1>2. CASE p \in Executors
  BY <1>2, RunnerGoes, Names DEF Starting
<1> QED
  BY <1>1, <1>2 DEF Threads

\* A step that makes a task BUSY: nobody sleeps on it in vain.
LEMMA BusyKeepsWake ==
    ASSUME Inv, WakeInv, NEW p \in Threads, NEW k \in Tasks, Bystands(p),
           tasks' = [tasks EXCEPT ![k].status = "BUSY"],
           k = Sync => \E c \in Clients : thread'[c].at = "syncLocking"
    PROVE  WakeInv'
<1> USE DEF WakeInv
<1>1. /\ \A c \in Clients : thread[c].at \in {"asleep", "drowsing"} => thread[c].task \in Tasks
      /\ OnlyTask(k) /\ tasks'[k].status = "BUSY"
      /\ tasks'[k].onWait = tasks[k].onWait /\ tasks'[k].runner = tasks[k].runner
  BY TasksNamed, StatusSet, StatusNames, TypeParts DEF Waiting
<1>2. RunnerRuns'
  BY <1>1, Names DEF RunnerRuns, Bystands, OnlyTask, Others
<1>3. PostponedRuns'
  BY <1>1, Names DEF PostponedRuns, Bystands, OnlyTask, Others
<1>4. OnWaitIsWaited'
  BY <1>1, Names DEF OnWaitIsWaited, Bystands, OnlyTask, Others
<1>5. SyncRuns'
  BY <1>1, Names DEF SyncRuns, Bystands, OnlyTask, Others
<1>6. SleepersWillBeWoken'
  <2> SUFFICES ASSUME NEW c \in Clients, thread'[c].at \in {"asleep", "drowsing"}
               PROVE  \/ ~WaitIsOver(thread[c].task)'
                      \/ \E e \in Executors : At(e, "notifying")' /\ thread'[e].task = thread'[c].task
                      \/ thread'[c].task = Sync /\ \E d \in Clients : At(d, "syncNotifying")'
    BY DEF SleepersWillBeWoken
  <2>1. CASE thread'[c].task = k
    BY <1>1, <2>1 DEF WaitIsOver, Final
  <2>2. CASE c = p /\ thread'[c].task # k
    BY <1>1, <2>2 DEF Bystands, OnlyTask, WaitIsOver
  <2>3. CASE c # p /\ thread'[c].task # k
    <3>1. thread'[c] = thread[c] /\ thread[c].task \in Tasks /\ c \in Threads
      BY <1>1, <2>3, Names DEF Bystands, Others
    <3>2. WaitIsOver(thread[c].task)' <=> WaitIsOver(thread[c].task)
      BY <1>1, <2>3, <3>1 DEF OnlyTask, WaitIsOver
    <3>3. \A e \in Executors : At(e, "notifying") => thread'[e] = thread[e]
      BY Names DEF Bystands, Others, At
    <3>4. \A d \in Clients : At(d, "syncNotifying") => thread'[d] = thread[d]
      BY Names DEF Bystands, Others, At
    <3> QED
      BY <3>1, <3>2, <3>3, <3>4 DEF SleepersWillBeWoken, At
  <2> QED
    BY <2>1, <2>2, <2>3
<1> QED
  BY <1>2, <1>3, <1>4, <1>5, <1>6

\* The steps of StartAsync().
LEMMA StartWakes ==
    ASSUME Inv, WakeInv, NEW p \in Threads, StartAsync(p) \/ StartStep(p)
    PROVE  WakeInv'
<1> USE PlaceNames
<1>0. p \in Clients \/ p \in Executors
  BY DEF Threads
<1>1. CASE StartAsync(p)
  <2>1. /\ thread[p].at \in {"idle", "inInfer", "inCallback"} /\ (p \in Clients \/ thread[p].at # "idle")
        /\ GoTo(p, "resetting") /\ usage' = usage /\ SameTasks
    BY <1>1, UnchangedTasks, Names DEF StartAsync, MayStart, At
  <2> QED
    BY <2>1, StarterIsNeutral, NeutralKeeps
<1>2. ASSUME thread[p].at \in Starting, StartThrows(p), usage' = usage, tasks' = tasks PROVE WakeInv'
  <2>1. /\ thread'[p].at = Back(p) /\ thread'[p].task = thread[p].task /\ Others(p)
    BY <1>2, TypeParts DEF StartThrows, ThreadsOK, ThreadStates, Others
  <2>2. Neutral(p)
    BY <1>0, <1>2, <2>1, UnchangedTasks, Names
       DEF Neutral, Bystands, Back, Starting, OnWaitPlaces
  <2> QED
    BY <2>2, NeutralKeeps
<1>3. CASE CheckBlobsThrows(p)
  BY <1>2, <1>3 DEF CheckBlobsThrows, At, Starting
<1>4. CASE ResetCallbackManager(p) \/ PickTask(p)
  <2>1. thread[p].at \in Starting /\ usage' = usage /\ SameTasks /\ (GoTo(p, "picking") \/ GoTo(p, "preparing"))
    BY <1>4, UnchangedTasks DEF ResetCallbackManager, PickTask, Move, At, Starting
  <2> QED
    BY <2>1, StarterIsNeutral, NeutralKeeps DEF Starting
<1>5. CASE PrepareTask(p)
  <2>1. thread[p].at = "preparing" /\ GoTo(p, "occupying") /\ usage' = usage
    BY <1>5 DEF PrepareTask, Move, At
  <2>2. request.async \in Tasks
    BY <2>1, Names DEF Inv, FlightInv, CurrentOK, At
  <2>3. SameTasks
    <3>1. tasks' = [tasks EXCEPT ![request.async].stage = 2]
      BY <1>5 DEF PrepareTask, Stages
    <3>2. 2 \in 0..2
      OBVIOUS
    <3> QED
      BY <2>2, <3>1, <3>2, StageKeepsTasks
  <2> QED
    BY <2>1, <2>3, StarterIsNeutral, NeutralKeeps DEF Starting
<1>6. CASE OccupyTask(p)
  <2>1. CASE tasks[request.current].status = "BUSY"
    BY <1>2, <1>6, <2>1 DEF OccupyTask, At, Starting
  <2>2. CASE tasks[request.current].status # "BUSY"
    <3>1. /\ thread[p].at = "occupying" /\ GoTo(p, "pushing") /\ usage' = usage
          /\ tasks' = [tasks EXCEPT ![request.current].status = "BUSY"]
      BY <1>6, <2>2 DEF OccupyTask, At
    <3>2. request.current \in Tasks /\ request.current # Sync
      BY <3>1, TasksNamed DEF Inv, FlightInv, CurrentOK
    <3>3. Bystands(p)
      BY <1>0, <3>1, GoToGoes, TypeParts, Names DEF Goes, Bystands, OnWaitPlaces
    <3> QED
      BY <3>1, <3>2, <3>3, BusyKeepsWake
  <2> QED
    BY <2>1, <2>2
<1>7. CASE PushTask(p)
  <2>1. /\ thread[p].at = "pushing" /\ usage' = usage /\ SameTasks
        /\ \E place \in {"mustWait", "idle", "calledBack"} :
              GoTo(p, place) /\ (p \in Clients \/ place # "idle")
    <3>1. p \in Executors => ~thread[p].inInfer
      BY Names DEF Inv, ClientInv, EnabledOK, Rq, Cb
    <3> QED
      BY <1>0, <1>7, <3>1, UnchangedTasks DEF PushTask, Move, At, Back
  <2> QED
    BY <2>1, StarterIsNeutral, NeutralKeeps DEF Starting
<1> QED
  BY <1>1, <1>3, <1>4, <1>5, <1>6, <1>7 DEF StartStep

\* An executor changes the status of the task that it runs, or ends its run.
LEMMA RunKeepsWake ==
    ASSUME Inv, WakeInv, NEW e \in Executors, NEW k \in Slots,
           thread[e].task = k, thread'[e].task = k, Others(e), OnlyTask(k), usage' = usage,
           thread[e].at # "notifying", thread'[e].at \notin {"idle", "locking"},
           tasks'[k].onWait = tasks[k].onWait, tasks'[k].runner = e,
           IF thread'[e].at = "notifying" THEN tasks'[k].status # "POSTPONED"
                                          ELSE tasks'[k].status \in {"BUSY", "POSTPONED"}
    PROVE  WakeInv'
<1> USE DEF WakeInv
<1>1. RunnerRuns'
  BY Names DEF RunnerRuns, OnlyTask, Others
<1>2. PostponedRuns'
  BY Names DEF PostponedRuns, OnlyTask, Others
<1>3. OnWaitIsWaited'
  BY Names DEF OnWaitIsWaited, OnlyTask, Others
<1>4. SyncRuns'
  BY Names DEF SyncRuns, OnlyTask, Others
<1>5. SleepersWillBeWoken'
  <2> SUFFICES ASSUME NEW c \in Clients, thread'[c].at \in {"asleep", "drowsing"}
               PROVE  \/ ~WaitIsOver(thread[c].task)'
                      \/ \E q \in Executors : At(q, "notifying")' /\ thread'[q].task = thread'[c].task
                      \/ thread'[c].task = Sync /\ \E d \in Clients : At(d, "syncNotifying")'
    BY DEF SleepersWillBeWoken
  <2>1. thread'[c] = thread[c] /\ thread[c].task \in Tasks
    BY Names, TasksNamed DEF Others, Waiting
  <2>2. CASE thread[c].task = k
    BY <2>1, <2>2 DEF WaitIsOver, Final, At
  <2>3. CASE thread[c].task # k
    <3>1. WaitIsOver(thread[c].task)' <=> WaitIsOver(thread[c].task)
      BY <2>1, <2>3 DEF OnlyTask, WaitIsOver
    <3>2. \A q \in Executors : At(q, "notifying") => thread'[q] = thread[q]
      BY Names DEF Others, At
    <3>3. \A d \in Clients : thread'[d] = thread[d]
      BY Names DEF Others
    <3> QED
      BY <2>1, <3>1, <3>2, <3>3 DEF SleepersWillBeWoken, At
  <2> QED
    BY <2>2, <2>3
<1> QED
  BY <1>1, <1>2, <1>3, <1>4, <1>5

LEMMA RunWakes ==
    ASSUME Inv, WakeInv, NEW e \in Executors,
           RunBegin(e) \/ ReoccupyTask(e) \/ RunThrows(e) \/ RunEnds(e) \/ RunSetsDone(e)
    PROVE  WakeInv'
<1> USE PlaceNames, StatusNames
<1> DEFINE k == thread[e].task
<1>1. CASE RunBegin(e)
  <2>1. /\ thread[e].at = "locking" /\ Goes(e, "copying") /\ k \in Slots /\ k \in Tasks
        /\ tasks'[k].runner = e /\ OnlyTask(k) /\ tasks'[k].status = "POSTPONED"
        /\ usage' = usage
    BY <1>1, RunBeginTask
  <2>2. tasks'[k].onWait = tasks[k].onWait
    BY <1>1, <2>1, TypeParts DEF RunBegin, TasksOK, TaskStates
  <2> QED
    BY <2>1, <2>2, RunKeepsWake DEF Goes
<1>2. CASE ReoccupyTask(e)
  <2>1. thread[e].at = "reoccupying" /\ k \in Slots /\ k \in Tasks /\ tasks[k].runner = e
        /\ thread[e].copy = k
    BY <1>2, RunnerIs DEF ReoccupyTask, At
  <2>2. CASE tasks[k].status = "BUSY"
    <3>1. GoTo(e, "ending") /\ UNCHANGED <<usage, tasks>>
      BY <1>2, <2>1, <2>2 DEF ReoccupyTask
    <3> QED
      BY <2>1, <3>1, RunnerGoes, UnchangedTasks, NeutralKeeps, Names
  <2>3. CASE tasks[k].status # "BUSY"
    <3>1. /\ GoTo(e, "requeuing") /\ tasks' = [tasks EXCEPT ![k].status = "BUSY"] /\ usage' = usage
      BY <1>2, <2>1, <2>3 DEF ReoccupyTask
    <3>2. Goes(e, "requeuing") /\ OnlyTask(k) /\ tasks'[k].status = "BUSY"
          /\ tasks'[k].onWait = tasks[k].onWait /\ tasks'[k].runner = e
      BY <2>1, <3>1, GoToGoes, StatusSet, TypeParts, Names, ZenonT(60)
    <3> QED
      BY <2>1, <3>1, <3>2, RunKeepsWake DEF Goes
  <2> QED
    BY <2>2, <2>3
<1>3. CASE RunThrows(e)
  <2>1. thread[e].at = "throwing" /\ k \in Slots /\ k \in Tasks /\ tasks[k].runner = e
        /\ GoTo(e, "notifying") /\ usage' = usage
    BY <1>3, RunnerIs DEF RunThrows, Move, At
  <2>2. OnlyTask(k) /\ tasks'[k].status = "ERROR" /\ tasks'[k].runner = e
        /\ tasks'[k].onWait = tasks[k].onWait
    BY <1>3, <2>1, TypeParts DEF RunThrows, TasksOK, TaskStates, OnlyTask
  <2> QED
    BY <2>1, <2>2, GoToGoes, TypeParts, Names, RunKeepsWake DEF Goes
<1>4. CASE RunSetsDone(e)
  <2>1. thread[e].at = "settling" /\ k \in Slots /\ k \in Tasks /\ tasks[k].runner = e
        /\ GoTo(e, "notifying") /\ usage' = usage
        /\ tasks' = [tasks EXCEPT ![k].status = "DONE"]
    BY <1>4, RunnerIs DEF RunSetsDone, Move, At
  <2>2. OnlyTask(k) /\ tasks'[k].status = "DONE" /\ tasks'[k].runner = e
        /\ tasks'[k].onWait = tasks[k].onWait
    BY <2>1, StatusSet, TypeParts
  <2> QED
    BY <2>1, <2>2, GoToGoes, TypeParts, Names, RunKeepsWake DEF Goes
<1>5. CASE RunEnds(e)
  <2>1. thread[e].at = "ending" /\ k \in Slots /\ k \in Tasks /\ tasks[k].runner = e
        /\ UNCHANGED <<usage, tasks>>
    BY <1>5, RunnerIs DEF RunEnds, Move, At
  <2>2. CASE tasks[k].stage = 0
    <3>1. GoTo(e, "settling")
      BY <1>5, <2>2 DEF RunEnds, Move
    <3> QED
      BY <2>1, <3>1, RunnerGoes, UnchangedTasks, NeutralKeeps, Names
  <2>3. CASE tasks[k].stage # 0
    <3>1. tasks[k].status = "BUSY"
      BY <2>1, <2>3, Names DEF Inv, FlightInv, RequestStatusOK, CallbackStatusOK, Is, Rq, Cb
    <3>2. Goes(e, "notifying")
      BY <1>5, <2>3, GoToGoes, TypeParts, Names DEF RunEnds, Move
    <3> QED
      BY <2>1, <3>1, <3>2, RunKeepsWake DEF Goes, OnlyTask
  <2> QED
    BY <2>2, <2>3
<1> QED
  BY <1>1, <1>2, <1>3, <1>4, <1>5

\* The end of a run wakes all who sleep on its task, unless the task is not
\* over; then it is in a queue or runs elsewhere.
LEMMA RunNotifiesWakes ==
    ASSUME Inv, WakeInv, NEW e \in Executors, RunNotifies(e)
    PROVE  WakeInv'
<1> USE DEF WakeInv
<1> DEFINE k == thread[e].task
<1>1. /\ thread[e].at = "notifying" /\ thread'[e].at = "idle"
      /\ \A q \in Threads : q # e =>
            /\ \/ thread'[q] = thread[q]
               \/ q \in Clients /\ thread[q].at = "asleep" /\ thread'[q].at = "waiting"
               \/ q \in Clients /\ thread[q].at = "drowsing" /\ thread'[q].at = "awaiting"
            /\ thread'[q].task = thread[q].task
      /\ k \in Slots /\ k \in Tasks /\ OnlyTask(k)
      /\ tasks'[k].runner = Nil /\ tasks'[k].status = tasks[k].status
      /\ usage' = usage
  <2>1. RunNotified(e)
    BY RunNotifiesMoves
  <2> QED
    BY <2>1 DEF RunNotified
<1>2. tasks'[k].onWait = tasks[k].onWait
  <2>1. RunNotified(e)
    BY RunNotifiesMoves
  <2> QED
    BY <2>1 DEF RunNotified
<1>3. tasks[k].status # "POSTPONED"
  BY <1>1 DEF PostponedRuns, Inv, FlightInv, RunnersOK
<1>4. \A c \in Clients : thread'[c].at \in {"asleep", "drowsing"} =>
         thread'[c] = thread[c] /\ thread[c].task \in Tasks /\ thread[c].task # k
  <2> SUFFICES ASSUME NEW c \in Clients, thread'[c].at \in {"asleep", "drowsing"}
               PROVE  thread'[c] = thread[c] /\ thread[c].task \in Tasks /\ thread[c].task # k
    OBVIOUS
  <2>1. thread'[c] = thread[c] /\ thread[c].task \in Tasks /\ c \in Threads /\ c # e
    BY <1>1, Names, TasksNamed DEF Waiting
  <2>2. ASSUME c \in Sleepers(k) PROVE FALSE
    <3> DEFINE A == Awakened(e, "idle", Sleepers(k))
    <3>1. thread' = [A EXCEPT ![e].task = Nil, ![e].copy = Nil]
      BY <1>3 DEF RunNotifies
    <3>2. thread'[c] = A[c]
      BY <2>1, <3>1 DEF Awakened
    <3>3. A[c] = [thread[c] EXCEPT !.at = IF thread[c].at = "asleep" THEN "waiting" ELSE "awaiting"]
      BY <2>1, <2>2 DEF Awakened
    <3>4. thread[c] \in ThreadStates
      BY <2>1, TypeParts DEF ThreadsOK
    <3>5. A[c].at \in {"waiting", "awaiting"}
      BY <3>3, <3>4 DEF ThreadStates
    <3> QED
      BY <3>2, <3>5
  <2> QED
    BY <2>1, <2>2 DEF Sleepers, At
<1>5. RunnerRuns'
  BY <1>1, Names DEF RunnerRuns, OnlyTask
<1>6. PostponedRuns'
  BY <1>1, <1>3, Names DEF PostponedRuns, OnlyTask
<1>7. OnWaitIsWaited'
  BY <1>1, <1>2, Names DEF OnWaitIsWaited, OnlyTask, OnWaitPlaces
<1>8. SyncRuns'
  BY <1>1, Names DEF SyncRuns, OnlyTask
<1>9. SleepersWillBeWoken'
  <2> SUFFICES ASSUME NEW c \in Clients, thread'[c].at \in {"asleep", "drowsing"}
               PROVE  \/ ~WaitIsOver(thread[c].task)'
                      \/ \E q \in Executors : At(q, "notifying")' /\ thread'[q].task = thread'[c].task
                      \/ thread'[c].task = Sync /\ \E d \in Clients : At(d, "syncNotifying")'
    BY DEF SleepersWillBeWoken
  <2>1. thread'[c] = thread[c] /\ thread[c].task \in Tasks /\ thread[c].task # k
    BY <1>4
  <2>2. WaitIsOver(thread[c].task)' <=> WaitIsOver(thread[c].task)
    BY <1>1, <2>1 DEF OnlyTask, WaitIsOver
  <2>3. \A q \in Executors : At(q, "notifying") /\ thread[q].task # k => thread'[q] = thread[q]
    BY <1>1, Names DEF At
  <2>4. \A d \in Clients : At(d, "syncNotifying") => thread'[d] = thread[d]
    BY <1>1, Names DEF At
  <2> QED
    BY <2>1, <2>2, <2>3, <2>4 DEF SleepersWillBeWoken, At
<1> QED
  BY <1>5, <1>6, <1>7, <1>8, <1>9

\* A client sets or clears _isOnWait of the task that it waits for.
LEMMA FlagKeepsWake ==
    ASSUME Inv, WakeInv, NEW c \in Clients, NEW k \in Tasks, NEW b \in BOOLEAN,
           tasks' = [tasks EXCEPT ![k].onWait = b], usage' = usage, Others(c),
           thread'[c].at \notin {"asleep", "drowsing"},
           thread[c].at \notin {"syncLocking", "syncInferring", "syncNotifying"},
           b => /\ thread[c].at \notin OnWaitPlaces
                /\ thread'[c].at \in OnWaitPlaces /\ thread'[c].task = k,
           ~b => thread[c].task = k
    PROVE  WakeInv'
<1> USE DEF WakeInv
<1>1. /\ OnlyTask(k) /\ tasks'[k].onWait = b /\ tasks'[k].status = tasks[k].status
      /\ tasks'[k].runner = tasks[k].runner
  BY OnWaitSet, TypeParts
<1>2. \A j \in Tasks : tasks'[j].status = tasks[j].status /\ tasks'[j].runner = tasks[j].runner
  BY <1>1 DEF OnlyTask
<1>3. RunnerRuns' /\ PostponedRuns'
  BY <1>2, Names DEF RunnerRuns, PostponedRuns, Others
<1>4. OnWaitIsWaited'
  <2> SUFFICES ASSUME NEW j \in Tasks, tasks'[j].onWait
               PROVE  \E d \in Clients : thread'[d].task = j /\ thread'[d].at \in OnWaitPlaces
    BY DEF OnWaitIsWaited
  <2>1. CASE j = k
    BY <1>1, <2>1
  <2>2. CASE j # k
    <3>1. tasks[j].onWait
      BY <1>1, <2>2 DEF OnlyTask
    <3>2. PICK d \in Clients : thread[d].task = j /\ thread[d].at \in OnWaitPlaces
      BY <3>1 DEF OnWaitIsWaited
    <3>3. d # c
      BY <2>2, <3>2
    <3> QED
      BY <3>2, <3>3, Names DEF Others
  <2> QED
    BY <2>1, <2>2
<1>5. SyncRuns'
  BY <1>2, Names DEF SyncRuns, Others
<1>6. SleepersWillBeWoken'
  <2> SUFFICES ASSUME NEW d \in Clients, thread'[d].at \in {"asleep", "drowsing"}
               PROVE  \/ ~WaitIsOver(thread[d].task)'
                      \/ \E q \in Executors : At(q, "notifying")' /\ thread'[q].task = thread'[d].task
                      \/ thread'[d].task = Sync /\ \E p \in Clients : At(p, "syncNotifying")'
    BY DEF SleepersWillBeWoken
  <2>1. d # c /\ thread'[d] = thread[d] /\ thread[d].task \in Tasks
    BY Names, TasksNamed DEF Others, Waiting
  <2>2. WaitIsOver(thread[d].task)' <=> WaitIsOver(thread[d].task)
    BY <1>2, <2>1 DEF WaitIsOver
  <2>3. /\ \A q \in Executors : thread'[q] = thread[q]
        /\ \A p \in Clients : At(p, "syncNotifying") => thread'[p] = thread[p]
    BY Names DEF Others, At
  <2> QED
    BY <2>1, <2>2, <2>3 DEF SleepersWillBeWoken, At
<1> QED
  BY <1>3, <1>4, <1>5, <1>6

\* The steps of Wait().
LEMMA WaitWakes ==
    ASSUME Inv, WakeInv, NEW c \in Clients,
           WaitStep(c) \/ (\E f \in BOOLEAN : WaitBegin(c, f)) \/ WaitTimeout(c)
    PROVE  WakeInv'
<1> USE PlaceNames
<1>0. c \in Threads
  BY Names
<1>1. ASSUME NEW f \in BOOLEAN, WaitBegin(c, f) PROVE WakeInv'
  <2>1. /\ Others(c) /\ thread'[c].at = "flagging" /\ UNCHANGED <<usage, tasks>>
        /\ thread[c].at \in {"mustWait", "idle"}
    BY <1>0, <1>1, TypeParts DEF WaitBegin, At, ThreadsOK, ThreadStates, Others
  <2>2. Neutral(c)
    BY <2>1, UnchangedTasks, Names DEF Neutral, Bystands, OnWaitPlaces
  <2> QED
    BY <1>0, <2>2, NeutralKeeps
<1>2. CASE WaitFlag(c)
  <2>1. /\ thread[c].at = "flagging" /\ thread[c].task \in Tasks /\ GoTo(c, "waiting")
        /\ tasks' = [tasks EXCEPT ![thread[c].task].onWait = TRUE] /\ usage' = usage
    BY <1>2, TasksNamed DEF WaitFlag, Move, At, Waiting
  <2>2. Goes(c, "waiting")
    BY <1>0, <2>1, GoToGoes, TypeParts
  <2> QED
    BY <2>1, <2>2, FlagKeepsWake DEF Goes, OnWaitPlaces
<1>3. CASE WaitTest(c)
  <2>1. /\ thread[c].at = "waiting" /\ thread[c].task \in Tasks /\ UNCHANGED <<usage, tasks>>
        /\ \/ GoTo(c, "returning")
           \/ GoTo(c, "asleep") /\ ~WaitIsOver(thread[c].task)
    BY <1>3, TasksNamed DEF WaitTest, Move, At, Waiting
  <2>2. Goes(c, "returning") \/ (Goes(c, "asleep") /\ ~WaitIsOver(thread[c].task))
    BY <1>0, <2>1, GoToGoes, TypeParts
  <2>3. Neutral(c)
    BY <2>1, <2>2, UnchangedTasks, Names DEF Goes, Neutral, Bystands, OnWaitPlaces
  <2> QED
    BY <1>0, <2>3, NeutralKeeps
<1>4. CASE WaitTimeout(c)
  <2>1. thread[c].at = "asleep" /\ GoTo(c, "returning") /\ UNCHANGED <<usage, tasks>>
    BY <1>4 DEF WaitTimeout, Move, At
  <2>2. Goes(c, "returning")
    BY <1>0, <2>1, GoToGoes, TypeParts
  <2>3. Neutral(c)
    BY <2>1, <2>2, UnchangedTasks, Names DEF Goes, Neutral, Bystands, OnWaitPlaces
  <2> QED
    BY <1>0, <2>3, NeutralKeeps
<1>5. CASE WaitReturn(c)
  <2>1. /\ thread[c].at = "returning" /\ thread[c].task \in Tasks /\ usage' = usage
        /\ tasks' = [tasks EXCEPT ![thread[c].task].onWait = FALSE]
    BY <1>5, TasksNamed DEF WaitReturn, At, Waiting
  <2>2. Others(c) /\ thread'[c].at = "releasing"
    BY <1>0, <1>5, TypeParts DEF WaitReturn, ThreadsOK, ThreadStates, Others
  <2> QED
    BY <2>1, <2>2, FlagKeepsWake
<1>6. CASE WaitRelease(c)
  <2>1. thread[c].at = "releasing" /\ GoTo(c, "checking") /\ usage' = usage /\ SameTasks
    BY <1>6, UnchangedTasks DEF WaitRelease, Move, At
  <2> QED
    BY <1>0, <2>1, ClientGoes, NeutralKeeps DEF OnWaitPlaces
<1>7. CASE WaitFinish(c)
  <2>1. /\ Others(c) /\ thread'[c].at = "idle" /\ UNCHANGED <<usage, tasks>>
        /\ thread[c].at = "checking"
    BY <1>0, <1>7, TypeParts DEF WaitFinish, At, ThreadsOK, ThreadStates, Others
  <2>2. Neutral(c)
    BY <2>1, UnchangedTasks, Names DEF Neutral, Bystands, OnWaitPlaces
  <2> QED
    BY <1>0, <2>2, NeutralKeeps
<1> QED
  BY <1>1, <1>2, <1>3, <1>4, <1>5, <1>6, <1>7 DEF WaitStep

\* The destructor.
LEMMA DestructionWakes ==
    ASSUME Inv, WakeInv, NEW c \in Clients, Destroy(c) \/ Sweep(c) \/ Await(c)
    PROVE  WakeInv'
<1> USE PlaceNames
<1>0. c \in Threads
  BY Names
<1>1. CASE Destroy(c)
  <2>1. thread[c].at = "idle" /\ GoTo(c, "sweeping") /\ usage' = usage /\ SameTasks
    BY <1>1, UnchangedTasks DEF Destroy, At
  <2> QED
    BY <1>0, <2>1, ClientGoes, NeutralKeeps DEF OnWaitPlaces
<1>2. CASE Sweep(c)
  <2>1. thread[c].at = "sweeping" /\ usage' = usage
    BY <1>2 DEF Sweep, At
  <2>2. CASE GoTo(c, "gone") /\ UNCHANGED tasks
    BY <1>0, <2>1, <2>2, UnchangedTasks, ClientGoes, NeutralKeeps DEF OnWaitPlaces
  <2>3. ASSUME NEW k \in Slots,
               thread' = [thread EXCEPT ![c].at = "awaiting", ![c].task = k],
               tasks' = [tasks EXCEPT ![k].onWait = TRUE]
        PROVE  WakeInv'
    <3>1. Others(c) /\ thread'[c].at = "awaiting" /\ thread'[c].task = k /\ k \in Tasks
      BY <1>0, <2>3, Names, TypeParts DEF ThreadsOK, ThreadStates, Others
    <3> QED
      BY <2>1, <2>3, <3>1, FlagKeepsWake DEF OnWaitPlaces
  <2> QED
    BY <1>2, <2>2, <2>3 DEF Sweep
<1>3. CASE Await(c)
  <2>1. thread[c].at = "awaiting" /\ thread[c].task \in Tasks /\ usage' = usage
    BY <1>3, TasksNamed DEF Await, At
  <2>2. CASE WaitIsOver(thread[c].task)
    <3>1. /\ tasks' = [tasks EXCEPT ![thread[c].task].onWait = FALSE]
          /\ Others(c) /\ thread'[c].at = "sweeping"
      BY <1>0, <1>3, <2>2, TypeParts DEF Await, ThreadsOK, ThreadStates, Others
    <3> QED
      BY <2>1, <3>1, FlagKeepsWake
  <2>3. CASE ~WaitIsOver(thread[c].task)
    <3>1. Goes(c, "drowsing") /\ tasks' = tasks
      BY <1>0, <1>3, <2>3, GoToGoes, TypeParts DEF Await
    <3>2. Neutral(c)
      BY <2>1, <2>3, <3>1, UnchangedTasks, Names DEF Goes, Neutral, Bystands, OnWaitPlaces
    <3> QED
      BY <1>0, <3>2, NeutralKeeps
  <2> QED
    BY <2>2, <2>3
<1> QED
  BY <1>1, <1>2, <1>3

\* Infer(), the default one and that of the plugins.
LEMMA InferWakes ==
    ASSUME Inv, WakeInv, NEW c \in Clients,
           SyncInfer(c) \/ SyncStep(c) \/ PluginInfer(c) \/ PluginInferBusy(c)
    PROVE  WakeInv'
<1> USE PlaceNames
<1>0. c \in Threads
  BY Names
<1>1. CASE SyncInfer(c) \/ SyncSelect(c) \/ SyncLower(c)
  <2>1. /\ thread[c].at \in {"idle", "syncSelecting", "syncLowering"} /\ usage' = usage /\ SameTasks
        /\ GoTo(c, "syncSelecting") \/ GoTo(c, "syncOccupying") \/ GoTo(c, "idle")
    BY <1>1, UnchangedTasks DEF SyncInfer, SyncSelect, SyncLower, Move, At
  <2> QED
    BY <1>0, <2>1, ClientGoes, NeutralKeeps DEF OnWaitPlaces
<1>2. CASE SyncOccupy(c)
  <2>1. thread[c].at = "syncOccupying" /\ usage' = usage
    BY <1>2 DEF SyncOccupy, At
  <2>2. CASE tasks[Sync].status = "BUSY"
    BY <1>0, <1>2, <2>1, <2>2, UnchangedTasks, ClientGoes, NeutralKeeps DEF SyncOccupy, OnWaitPlaces
  <2>3. CASE tasks[Sync].status # "BUSY"
    <3>1. Goes(c, "syncLocking") /\ tasks' = [tasks EXCEPT ![Sync].status = "BUSY"]
      BY <1>0, <1>2, <2>3, GoToGoes, TypeParts DEF SyncOccupy
    <3>2. Bystands(c)
      BY <2>1, <3>1, Names DEF Goes, Bystands, OnWaitPlaces
    <3> QED
      BY <1>0, <3>1, <3>2, BusyKeepsWake, Names DEF Goes
  <2> QED
    BY <2>2, <2>3
<1>3. CASE SyncLock(c)
  <2>1. /\ thread[c].at = "syncLocking" /\ UNCHANGED <<usage, tasks>>
        /\ Goes(c, "syncInferring") \/ (Goes(c, "syncLowering") /\ "full" \in usage)
    BY <1>0, <1>3, GoToGoes, TypeParts DEF SyncLock, Move, At
  <2>2. Neutral(c)
    BY <2>1, UnchangedTasks, Names DEF Goes, Neutral, Bystands, OnWaitPlaces
  <2> QED
    BY <1>0, <2>2, NeutralKeeps
<1>4. CASE SyncRun(c)
  <2> USE DEF WakeInv
  <2>1. thread[c].at = "syncInferring" /\ Goes(c, "syncNotifying") /\ usage' = usage
    BY <1>0, <1>4, GoToGoes, TypeParts DEF SyncRun, Move, At
  <2>2. PICK outcome \in Outcomes :
           tasks' = [tasks EXCEPT ![Sync].failed = (outcome = "ERROR"),
                                  ![Sync].status = IF outcome = "OK" THEN "DONE" ELSE "ERROR"]
    BY <1>4 DEF SyncRun
  <2>3. /\ OnlyTask(Sync) /\ tasks'[Sync].status \in Final
        /\ tasks'[Sync].onWait = tasks[Sync].onWait /\ tasks'[Sync].runner = tasks[Sync].runner
    BY <2>2, Names, TypeParts DEF TasksOK, TaskStates, OnlyTask, Final
  <2>4. RunnerRuns'
    BY <2>1, <2>3, Names DEF RunnerRuns, OnlyTask, Goes, Others
  <2>5. PostponedRuns'
    BY <2>1, <2>3, Names DEF PostponedRuns, OnlyTask, Goes, Others, Final
  <2>6. OnWaitIsWaited'
    BY <2>1, <2>3, Names DEF OnWaitIsWaited, OnlyTask, Goes, Others, OnWaitPlaces
  <2>7. SyncRuns'
    BY <2>3 DEF SyncRuns, Final
  <2>8. SleepersWillBeWoken'
    <3> SUFFICES ASSUME NEW d \in Clients, thread'[d].at \in {"asleep", "drowsing"}
                 PROVE  \/ ~WaitIsOver(thread[d].task)'
                        \/ \E q \in Executors : At(q, "notifying")' /\ thread'[q].task = thread'[d].task
                        \/ thread'[d].task = Sync /\ \E p \in Clients : At(p, "syncNotifying")'
      BY DEF SleepersWillBeWoken
    <3>1. thread'[d] = thread[d] /\ thread[d].task \in Tasks
      BY <2>1, Names, TasksNamed DEF Goes, Others, Waiting
    <3>2. CASE thread[d].task = Sync
      BY <2>1, <3>1, <3>2 DEF Goes, At
    <3>3. CASE thread[d].task # Sync
      <4>1. WaitIsOver(thread[d].task)' <=> WaitIsOver(thread[d].task)
        BY <2>3, <3>1, <3>3 DEF OnlyTask, WaitIsOver
      <4>2. \A q \in Executors : thread'[q] = thread[q]
        BY <2>1, Names DEF Goes, Others
      <4> QED
        BY <3>1, <3>3, <4>1, <4>2 DEF SleepersWillBeWoken, At
    <3> QED
      BY <3>2, <3>3
  <2> QED
    BY <2>4, <2>5, <2>6, <2>7, <2>8
<1>5. CASE SyncNotify(c)
  <2> USE DEF WakeInv
  <2>1. thread[c].at = "syncNotifying" /\ UNCHANGED <<usage, tasks>>
    BY <1>5 DEF SyncNotify, At
  <2>2. \A d \in Clients : ~At(d, "asleep") /\ ~At(d, "drowsing")
    <3> SUFFICES ASSUME NEW d \in Clients, At(d, "asleep") \/ At(d, "drowsing") PROVE FALSE
      OBVIOUS
    <3>1. Begins(c) /\ c \in Threads
      BY <2>1, Names DEF Begins, Syncing
    <3>2. ~At(d, "drowsing")
      BY <3>1 DEF SomeBegins, Inv, ClientInv, ListOK, Destroying, At
    <3>3. d \in Users /\ IsOneClient /\ d # c
      BY <2>1, <3>2 DEF Inv, ClientInv, PlacesOK, Waiting, At
    <3> QED
      BY <3>1, <3>3, OneUser
  <2>3. Goes(c, "syncLowering")
    <3>1. Sleepers(Sync) = {}
      BY <2>2 DEF Sleepers
    <3> QED
      BY <1>0, <1>5, <3>1, TypeParts DEF SyncNotify, Awakened, ThreadsOK, ThreadStates, Goes, Others
  <2>4. SleepersWillBeWoken'
    BY <2>2, <2>3, Names DEF SleepersWillBeWoken, Goes, Others, At
  <2>5. RunnerRuns' /\ PostponedRuns'
    BY <2>1, <2>3, Names DEF RunnerRuns, PostponedRuns, Goes, Others
  <2>6. OnWaitIsWaited'
    BY <2>1, <2>3, Names DEF OnWaitIsWaited, Goes, Others, OnWaitPlaces
  <2>7. SyncRuns'
    BY <2>1, <2>3, Names DEF SyncRuns, Goes, Others
  <2> QED
    BY <2>4, <2>5, <2>6, <2>7
<1>6. CASE PluginInfer(c) \/ PluginInferBusy(c)
  <2>1. /\ thread[c].at \in {"idle", "inInfer"} /\ UNCHANGED <<usage, tasks>>
        /\ Others(c) /\ thread'[c].at \in {"idle", "inInfer"}
    BY <1>0, <1>6, TypeParts DEF PluginInfer, PluginInferBusy, At, ThreadsOK, ThreadStates, Others
  <2>2. Neutral(c)
    BY <2>1, UnchangedTasks, Names DEF Neutral, Bystands, OnWaitPlaces
  <2> QED
    BY <1>0, <2>2, NeutralKeeps
<1> QED
  BY <1>1, <1>2, <1>3, <1>4, <1>5, <1>6 DEF SyncStep

LEMMA InitWakes == ASSUME ServedUsages PROVE Init => WakeInv
<1> SUFFICES ASSUME Init PROVE WakeInv
  OBVIOUS
<1>1. /\ \A p \in Threads : thread[p].at = "idle"
      /\ \A k \in Tasks : /\ tasks[k].status = "INITIAL" /\ ~tasks[k].onWait
                          /\ tasks[k].runner = Nil
  BY DEF Init
<1> QED
  BY <1>1, Names DEF WakeInv, RunnerRuns, PostponedRuns, OnWaitIsWaited, SyncRuns, SleepersWillBeWoken

LEMMA NextWakes == Inv /\ WakeInv /\ [Next]_vars => WakeInv'
<1> SUFFICES ASSUME Inv, WakeInv, [Next]_vars PROVE WakeInv'
  OBVIOUS
<1>1. CASE \E p \in Threads : StartAsync(p) \/ StartStep(p)
  BY <1>1, StartWakes
<1>2. ASSUME NEW e \in Executors, ExecutorStep(e) PROVE WakeInv'
  <2>1. CASE RunBegin(e) \/ ReoccupyTask(e) \/ RunThrows(e) \/ RunEnds(e) \/ RunSetsDone(e)
    BY <2>1, RunWakes
  <2>2. CASE RunNotifies(e)
    BY <2>2, RunNotifiesWakes
  <2>3. CASE \/ TakeTask(e) \/ CopyAsyncTask(e) \/ SwitchStage(e) \/ Infer(e) \/ InferStageDone(e)
             \/ Decide(e) \/ RequeueTask(e) \/ LowerFlag(e) \/ CallbackStageDone(e)
             \/ CallCallback(e) \/ CallbackReturns(e) \/ FailureLowersFlag(e) \/ HandleFailure(e)
    BY <2>3, ExecutorStepNeutral, NeutralKeeps, Names
  <2> QED
    BY <1>2, <2>1, <2>2, <2>3 DEF ExecutorStep
<1>3. ASSUME NEW c \in Clients,
             \/ ClientStep(c) \/ (\E f \in BOOLEAN : WaitBegin(c, f)) \/ WaitTimeout(c)
             \/ SyncInfer(c) \/ PluginInfer(c) \/ Destroy(c)
      PROVE  WakeInv'
  BY <1>3, WaitWakes, DestructionWakes, InferWakes DEF ClientStep
<1>4. CASE UNCHANGED vars
  BY <1>4 DEF vars, WakeInv, RunnerRuns, PostponedRuns, OnWaitIsWaited, SyncRuns, SleepersWillBeWoken,
     WaitIsOver, At
<1> QED
  BY <1>1, <1>2, <1>3, <1>4 DEF Next

LEMMA WakesAlways == ASSUME ServedUsages PROVE Spec => []WakeInv
<1>1. Init => WakeInv
  BY InitWakes
<1> QED
  BY <1>1, Invariant, NextWakes, PTL DEF Spec

\* A thread sleeps in Task::wait(), for its own Wait() or in the destructor,
\* only until the status of the task is final, and then only while the thread
\* that set it has yet to call notify_all.
THEOREM RequestLosesNoWakeup == ASSUME ServedUsages PROVE Spec => []SleepersWillBeWoken
<1>1. WakeInv => SleepersWillBeWoken
  BY DEF WakeInv
<1> QED
  BY <1>1, WakesAlways, PTL

\* When no thread can go on, the executors are at rest and have nothing to do, ...
LEMMA StuckExecutors ==
    ASSUME Inv, WakeInv, \A p \in Threads : ~CanGoOn(p)
    PROVE  \A e \in Executors : At(e, "idle") /\ queue[e] = <<>>
<1>1. \A e \in Executors : thread[e].at \in {"idle", "locking"}
  BY Names DEF CanGoOn, Inv, ClientInv, PlacesOK, RequestPlaces, CallbackPlaces, CalledBack, Starting,
     Failing, Rq, Cb
<1>2. ASSUME NEW e \in Executors, At(e, "locking") PROVE FALSE
  <2>1. tasks[thread[e].task].runner # Nil /\ thread[e].task \in Tasks /\ thread[e].task \in Slots
    BY <1>2, Names, TasksNamed DEF CanGoOn, At
  <2>2. tasks[thread[e].task].runner \in Executors
    BY <2>1, TypeParts DEF TasksOK, TaskStates
  <2> QED
    BY <1>1, <2>1, <2>2 DEF WakeInv, RunnerRuns
<1> QED
  BY <1>1, <1>2, Names DEF CanGoOn, At

\* ... so that nothing is in flight and no task is between its stages, ...
LEMMA StuckTasks ==
    ASSUME Inv, WakeInv, \A p \in Threads : ~CanGoOn(p)
    PROVE  /\ \A c \in Clients : thread[c].at \in {"idle", "asleep", "drowsing", "gone", "sweeping"}
           /\ \A k \in Slots : WaitIsOver(k)
           /\ "full" \notin usage => WaitIsOver(Sync)
<1>1. \A c \in Clients : thread[c].at \in {"idle", "asleep", "drowsing", "gone", "sweeping"}
  BY Names DEF CanGoOn, Inv, ClientInv, PlacesOK, ClientPlaces, Starting, Syncing, Waiting, Destroying
<1>2. ~Flight /\ \A p \in Threads : ~At(p, "pushing")
  BY <1>1, StuckExecutors, Names DEF Flight, RequestFlies, CallbackFlies, Rq, Cb, At
<1>3. \A k \in Tasks : tasks[k].status # "POSTPONED"
  BY StuckExecutors, Names DEF WakeInv, PostponedRuns, At
<1>4. \A k \in Slots : tasks[k].status # "BUSY"
  BY <1>2 DEF Inv, FlightInv, StatusOK
<1>5. "full" \notin usage => tasks[Sync].status # "BUSY"
  BY <1>1 DEF WakeInv, SyncRuns
<1>6. \A k \in Tasks : tasks[k].status \in Statuses
  BY TypeParts DEF TasksOK, TaskStates
<1> QED
  BY <1>1, <1>3, <1>4, <1>5, <1>6, Names DEF WaitIsOver, Statuses, Final

\* ... and nobody waits.
LEMMA NobodyIsStuck == ASSUME Inv, WakeInv PROVE SomebodyGoesOn
<1> SUFFICES ASSUME \A p \in Threads : ~CanGoOn(p)
             PROVE  /\ \A c \in Clients : thread[c].at \in {"idle", "gone"} \/ Forsaken(c)
                    /\ \A e \in Executors : At(e, "idle") /\ queue[e] = <<>>
  BY DEF SomebodyGoesOn
<1>1. \A e \in Executors : At(e, "idle") /\ queue[e] = <<>>
  BY StuckExecutors
<1>2. ASSUME NEW c \in Clients, thread[c].at \in {"asleep", "drowsing"} PROVE Forsaken(c)
  <2>1. ~WaitIsOver(thread[c].task)
    BY <1>1, <1>2, StuckTasks DEF WakeInv, SleepersWillBeWoken, At
  <2>2. thread[c].task = Sync /\ "full" \in usage
    BY <1>2, <2>1, StuckTasks, TasksNamed, Names DEF Waiting
  <2> QED
    BY <1>2, <2>2, TasksNamed, Names DEF Forsaken, At
<1>3. ASSUME NEW c \in Clients, At(c, "sweeping") PROVE FALSE
  <2>1. /\ c \in Threads /\ \E k \in request.list : KeptInList(k)
        /\ \A k \in request.list : KeptInList(k) => tasks[k].onWait
    BY <1>3, Names DEF CanGoOn
  <2>2. PICK k \in request.list : tasks[k].onWait
    BY <2>1
  <2>3. k \in Tasks
    BY <2>2, Names DEF Inv, TypeOK, Requests
  <2>4. PICK d \in Clients : thread[d].task = k /\ thread[d].at \in OnWaitPlaces
    BY <2>2, <2>3 DEF WakeInv, OnWaitIsWaited
  <2> QED
    BY <1>3, <2>4 DEF Inv, ClientInv, ListOK, Destroying, At, OnWaitPlaces
<1> QED
  BY <1>1, <1>2, <1>3, StuckTasks DEF At

\* Never does everybody wait for everybody: while a client is in a call or in
\* the destructor, or an executor has something to do, some thread can go on;
\* only who waits for an Infer() that the synchronizer has refused does not.
THEOREM RequestDoesNotDeadlock == ASSUME ServedUsages PROVE Spec => []SomebodyGoesOn
<1>1. Inv /\ WakeInv => SomebodyGoesOn
  BY NobodyIsStuck
<1> QED
  BY <1>1, Invariant, WakesAlways, PTL
=============================================================================
