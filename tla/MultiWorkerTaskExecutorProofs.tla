-------------------- MODULE MultiWorkerTaskExecutorProofs --------------------
(***************************************************************************)
(* Proofs about MultiWorkerTaskExecutor for every number of streams,       *)
(* clients and tasks: type correctness, no stream sleeps while a task      *)
(* needs it, tasks run on loaded graphs, the waiting counter, no two       *)
(* streams run the same task, the destructor loses nothing, no wake-up is  *)
(* lost and nobody waits for everybody.                                    *)
(*                                                                         *)
(* The argument about sleeping: a worker goes to sleep only when the queue *)
(* is empty; from then on every push wakes one more sleeper, which is a    *)
(* worker because the destructor has not begun while a client is in        *)
(* startTask(); and a worker that takes a task leaves both the queue and   *)
(* the set of awake workers.                                               *)
(***************************************************************************)
EXTENDS MultiWorkerTaskExecutor, FiniteSetTheorems, TLAPS

WaitingWorkers     == {w \in Workers : pc[w] = "waiting"}
TakenWorkers       == {w \in Workers : pc[w] = "taken"}
InitialisedWorkers == {w \in Workers : pc[w] \notin {"initialising", "counting"}}
StartingClients    == {c \in Clients : startingTask[c] # None}

\* Which places belong to workers and which to the owner.
PlacesOK == /\ \A w \in Workers : pc[w] \in WorkerPcs
            /\ pc[Owner] \in OwnerPcs

\* A client is in startTask() only while the executor is loaded ...
StartsOnlyWhenLoaded == pc[Owner] # "loaded" => StartingClients = {}

\* ... and a worker holds a task exactly while it is to run it.
HoldersHaveTasks == \A w \in Workers : w \in Holding <=> currentTask[w] # None

\* _initCount is the number of workers that have counted themselves, ...
InitCountIsExact == initCount = Cardinality(InitialisedWorkers)

\* ... and these have loaded a graph, or failed to.
GraphAfterInitialise == \A w \in Workers : pc[w] # "initialising" <=> graph[w] # "none"

\* Once the executor is loaded, and as long as there is something to run,
\* every graph is loaded.
GraphsLoaded == (pc[Owner] = "loaded" \/ taskQueue # <<>> \/ Holding # {})
                    => \A w \in Workers : graph[w] = "loaded"

\* Each task on its way to a worker is one of the counted starts.
PendingWithinStarts ==
    Len(taskQueue) + Cardinality(TakenWorkers) + Cardinality(StartingClients) <= starts

ControlInv == TypeOK /\ PlacesOK /\ StartsOnlyWhenLoaded /\ HoldersHaveTasks /\ InitCountIsExact

-----------------------------------------------------------------------------
(* Facts about the sets of threads and the condition variable.             *)

\* The sets that are counted are finite.
LEMMA CountedSetsFinite ==
    ASSUME NEW S, S \in SUBSET Workers \/ S \in SUBSET Clients
    PROVE  IsFiniteSet(S) /\ Cardinality(S) \in Nat
<1>1. IsFiniteSet(S)
  BY StreamsAssumption, FS_Subset
<1> QED
  BY <1>1, FS_CardinalityType

\* A set that grows by one thread, or shrinks by one.
LEMMA OneMore ==
    ASSUME NEW S, NEW x, IsFiniteSet(S), x \notin S
    PROVE  Cardinality(S \cup {x}) = Cardinality(S) + 1
BY FS_AddElement

LEMMA OneLess ==
    ASSUME NEW S, NEW x, IsFiniteSet(S), x \in S
    PROVE  Cardinality(S \ {x}) = Cardinality(S) - 1
BY FS_RemoveElement

\* A set without two different elements.
LEMMA AtMostOne ==
    ASSUME NEW S, \A x, y \in S : x = y
    PROVE  Cardinality(S) = IF S = {} THEN 0 ELSE 1
<1>1. CASE S = {}
  BY <1>1, FS_EmptySet
<1>2. ASSUME NEW x \in S PROVE Cardinality(S) = 1
  <2>1. S = {x}
    BY <1>2
  <2> QED
    BY <2>1, FS_Singleton
<1> QED
  BY <1>1, <1>2

\* A notification moves some sleeping threads and no other.
LEMMA Notified ==
    ASSUME NEW woken, woken \in NotifyAll(Sleepers) \/ woken \in NotifyOne(Sleepers),
           NEW t \in Threads
    PROVE  /\ Awake(pc, woken)[t] = IF t \in woken THEN "waiting" ELSE pc[t]
           /\ t \in woken => pc[t] = "asleep"
           /\ woken \subseteq Threads
BY DEF NotifyAll, NotifyOne, Sleepers, Awake

-----------------------------------------------------------------------------
(* The places of the threads, the tasks they hold and the types.           *)

LEMMA ControlInvInit == Init => ControlInv
<1> SUFFICES ASSUME Init PROVE ControlInv
  OBVIOUS
<1>1. InitialisedWorkers = {} /\ StartingClients = {}
  BY StreamsAssumption DEF Init, InitialisedWorkers, StartingClients, Threads
<1>2. Cardinality(InitialisedWorkers) = 0 /\ Cardinality(Workers) \in Nat
  BY <1>1, CountedSetsFinite, FS_EmptySet
<1>3. TypeOK
  <2>1. pc \in [Threads -> WorkerPcs \cup OwnerPcs]
    BY DEF Init, WorkerPcs, OwnerPcs
  <2>2. /\ initCount \in 0..Cardinality(Workers)
        /\ waitingCounter \in 0..CounterModulus - 1
        /\ elsewhere \in 0..MaxElsewhere
        /\ starts \in 0..MaxStarts
    BY <1>2, StreamsAssumption DEF Init
  <2>3. isStopped \in BOOLEAN
    BY Zenon DEF Init
  <2>4. /\ status \in [Tasks -> Statuses]
        /\ taskQueue \in Seq(Tasks)
        /\ graph \in [Workers -> {"none", "loaded", "failed"}]
        /\ currentTask \in [Workers -> Tasks \cup {None}]
        /\ isQueueEmpty \in [Workers -> BOOLEAN]
        /\ startingTask \in [Clients -> Tasks \cup {None}]
    BY DEF Init, Statuses
  <2> QED
    BY <2>1, <2>2, <2>3, <2>4 DEF TypeOK
<1>4. PlacesOK /\ HoldersHaveTasks
  BY StreamsAssumption
     DEF Init, PlacesOK, HoldersHaveTasks, Holding, Threads, WorkerPcs, OwnerPcs
<1>5. initCount = 0
  BY DEF Init
<1> QED
  BY <1>1, <1>2, <1>3, <1>4, <1>5 DEF ControlInv, StartsOnlyWhenLoaded, InitCountIsExact

LEMMA ControlInvNext == ControlInv /\ [Next]_vars => ControlInv'
<1> SUFFICES ASSUME ControlInv, [Next]_vars PROVE ControlInv'
  OBVIOUS
<1> USE StreamsAssumption DEF ControlInv
<1> DEFINE Rest == TypeOK /\ PlacesOK /\ StartsOnlyWhenLoaded /\ HoldersHaveTasks
<1>1. ASSUME NEW w \in Workers,
             Initialise(w) \/ WorkerTest(w) \/ WorkerTake(w) \/ WorkerSleep(w)
               \/ WorkerBegin(w) \/ WorkerRun(w) \/ WorkerEnds(w)
      PROVE  ControlInv'
  <2>1. Rest'
    <3>1. CASE WorkerTake(w)
      BY <3>1
         DEF WorkerTake, FrontPopped,
             TypeOK, PlacesOK, StartsOnlyWhenLoaded, HoldersHaveTasks, Holding,
             StartingClients, Threads, WorkerPcs, OwnerPcs, localVars, clientVars
    <3>2. CASE WorkerBegin(w)
      BY <3>2
         DEF WorkerBegin, Lowered,
             TypeOK, PlacesOK, StartsOnlyWhenLoaded, HoldersHaveTasks, Holding,
             StartingClients, Threads, WorkerPcs, OwnerPcs, localVars, clientVars
    <3>3. CASE WorkerRun(w)
      BY <3>3
         DEF WorkerRun, Finished, Statuses,
             TypeOK, PlacesOK, StartsOnlyWhenLoaded, HoldersHaveTasks, Holding,
             StartingClients, Threads, WorkerPcs, OwnerPcs, localVars, clientVars
    <3>4. CASE WorkerEnds(w)
      BY <3>4
         DEF WorkerEnds,
             TypeOK, PlacesOK, StartsOnlyWhenLoaded, HoldersHaveTasks, Holding,
             StartingClients, Threads, WorkerPcs, OwnerPcs, localVars, clientVars
    <3>5. CASE Initialise(w)
      BY <3>5
         DEF Initialise,
             TypeOK, PlacesOK, StartsOnlyWhenLoaded, HoldersHaveTasks, Holding,
             StartingClients, Threads, WorkerPcs, OwnerPcs, localVars, clientVars
    <3>6. CASE WorkerTest(w) \/ WorkerSleep(w)
      BY <3>6, SMTT(60)
         DEF WorkerTest, WorkerSleep,
             TypeOK, PlacesOK, StartsOnlyWhenLoaded, HoldersHaveTasks, Holding,
             StartingClients, Threads, WorkerPcs, OwnerPcs, localVars, clientVars
    <3> QED
      BY <1>1, <3>1, <3>2, <3>3, <3>4, <3>5, <3>6
  <2>2. InitialisedWorkers' = InitialisedWorkers /\ initCount' = initCount
    BY <1>1
       DEF Initialise, WorkerTest, WorkerTake, WorkerSleep, WorkerBegin, WorkerRun,
           WorkerEnds, TypeOK, PlacesOK, Threads, OwnerPcs, WorkerPcs, InitialisedWorkers
  <2> QED
    BY <2>1, <2>2 DEF InitCountIsExact
<1>2. CASE ConstructorReturns \/ DtorBegin \/ DtorSleep \/ DtorJoin
  <2>1. Rest'
    BY <1>2, SMTT(60)
       DEF ConstructorReturns, DtorBegin, DtorSleep, DtorJoin,
           TypeOK, PlacesOK, StartsOnlyWhenLoaded, HoldersHaveTasks, Holding,
           StartingClients, Threads, WorkerPcs, OwnerPcs, localVars, clientVars
  <2>2. InitialisedWorkers' = InitialisedWorkers /\ initCount' = initCount
    BY <1>2
       DEF ConstructorReturns, DtorBegin, DtorSleep, DtorJoin, TypeOK, PlacesOK, Threads,
           OwnerPcs, WorkerPcs, InitialisedWorkers
  <2> QED
    BY <2>1, <2>2 DEF InitCountIsExact
<1>3. ASSUME NEW t \in Threads, SpuriousWakeup(t) PROVE ControlInv'
  <2>1. Rest'
    BY <1>3
       DEF SpuriousWakeup,
           TypeOK, PlacesOK, StartsOnlyWhenLoaded, HoldersHaveTasks, Holding,
           StartingClients, Threads, WorkerPcs, OwnerPcs, localVars, clientVars
  <2>2. InitialisedWorkers' = InitialisedWorkers /\ initCount' = initCount
    BY <1>3
       DEF SpuriousWakeup, TypeOK, PlacesOK, Threads, OwnerPcs, WorkerPcs,
           InitialisedWorkers
  <2> QED
    BY <2>1, <2>2 DEF InitCountIsExact
<1>4. ASSUME NEW c \in Clients, NEW k \in Tasks, Occupy(c, k) PROVE ControlInv'
  <2>1. Rest'
    BY <1>4
       DEF Occupy, Statuses,
           TypeOK, PlacesOK, StartsOnlyWhenLoaded, HoldersHaveTasks, Holding,
           StartingClients, Threads, WorkerPcs, OwnerPcs, localVars, clientVars
  <2>2. InitialisedWorkers' = InitialisedWorkers /\ initCount' = initCount
    BY <1>4
       DEF Occupy, Statuses, TypeOK, PlacesOK, Threads, OwnerPcs, WorkerPcs,
           InitialisedWorkers
  <2> QED
    BY <2>1, <2>2 DEF InitCountIsExact
<1>5. ASSUME NEW c \in Clients, Push(c) PROVE ControlInv'
  <2>1. PICK woken \in NotifyOne(Sleepers) :
          pc' = Awake(pc, woken)
    BY <1>5 DEF Push, WokenByPush
  <2>2. pc' \in [Threads -> WorkerPcs \cup OwnerPcs]
    BY <2>1, <1>5 DEF TypeOK, Threads, WorkerPcs, OwnerPcs, Awake
  <2>3. \A t \in Threads :
          /\ pc'[t] = IF t \in woken THEN "waiting" ELSE pc[t]
          /\ t \in woken => pc[t] = "asleep"
    BY <2>1, <1>5, Notified DEF Threads, TypeOK, Awake, WokenByPush
  <2>4. waitingCounter' \in 0..CounterModulus - 1
    BY <1>5 DEF Push, Raised, TypeOK
  <2>5. Rest'
    <3>1. TypeOK'
      BY <1>5, <2>2, <2>3, <2>4 DEF Push, PushBack, TypeOK, localVars, clientVars
    <3>2. PlacesOK'
      BY <1>5, <2>2, <2>3, <2>4 DEF Push, PushBack, PlacesOK, Threads, WorkerPcs, OwnerPcs
    <3>3. StartsOnlyWhenLoaded'
      BY <1>5, <2>2, <2>3, <2>4 DEF Push, PushBack, TypeOK, StartsOnlyWhenLoaded, StartingClients, Threads, localVars, clientVars
    <3>4. HoldersHaveTasks'
      BY <1>5, <2>2, <2>3, <2>4 DEF Push, PushBack, HoldersHaveTasks, Holding, Threads, localVars, clientVars
    <3> QED
      BY <3>1, <3>2, <3>3, <3>4
  <2>6. InitialisedWorkers' = InitialisedWorkers /\ initCount' = initCount
    BY <1>5, <2>2, <2>3 DEF Push, TypeOK, PlacesOK, Threads, OwnerPcs, InitialisedWorkers
  <2> QED
    BY <2>5, <2>6 DEF InitCountIsExact
<1>6. ASSUME NEW w \in Workers, WorkerNotify(w) PROVE ControlInv'
  <2>1. PICK woken \in NotifyAll(Sleepers) :
          pc' = [Awake(pc, woken) EXCEPT ![w] = "testing"]
    BY <1>6 DEF WorkerNotify, WokenAfterLast
  <2>2. pc' \in [Threads -> WorkerPcs \cup OwnerPcs]
    BY <2>1, <1>6 DEF TypeOK, Threads, WorkerPcs, OwnerPcs, Awake
  <2>3. \A t \in Threads :
          /\ pc'[t] = IF t = w THEN "testing" ELSE IF t \in woken THEN "waiting" ELSE pc[t]
          /\ t \in woken => pc[t] = "asleep"
    BY <2>1, <1>6, Notified DEF Threads, TypeOK, Awake, WokenAfterLast
  <2>4. Rest'
    <3>1. TypeOK'
      BY <1>6, <2>2, <2>3 DEF WorkerNotify, TypeOK, localVars, clientVars
    <3>2. PlacesOK'
      BY <1>6, <2>2, <2>3 DEF WorkerNotify, PlacesOK, Threads, WorkerPcs, OwnerPcs
    <3>3. StartsOnlyWhenLoaded'
      BY <1>6, <2>2, <2>3 DEF WorkerNotify, TypeOK, StartsOnlyWhenLoaded, StartingClients, Threads, localVars, clientVars
    <3>4. HoldersHaveTasks'
      BY <1>6, <2>2, <2>3 DEF WorkerNotify, HoldersHaveTasks, Holding, Threads, localVars, clientVars
    <3> QED
      BY <3>1, <3>2, <3>3, <3>4
  <2>5. InitialisedWorkers' = InitialisedWorkers /\ initCount' = initCount
    BY <1>6, <2>2, <2>3 DEF WorkerNotify, TypeOK, PlacesOK, Threads, OwnerPcs, InitialisedWorkers
  <2> QED
    BY <2>4, <2>5 DEF InitCountIsExact
<1>7. CASE DtorStop
  <2>1. PICK woken \in NotifyAll(Sleepers) :
          pc' = [Awake(pc, woken) EXCEPT ![Owner] = "joining"]
    BY <1>7 DEF DtorStop
  <2>2. pc' \in [Threads -> WorkerPcs \cup OwnerPcs]
    BY <2>1, <1>7 DEF TypeOK, Threads, WorkerPcs, OwnerPcs, Awake
  <2>3. \A t \in Threads :
          /\ pc'[t] = IF t = Owner THEN "joining" ELSE IF t \in woken THEN "waiting" ELSE pc[t]
          /\ t \in woken => pc[t] = "asleep"
    BY <2>1, <1>7, Notified DEF Threads, TypeOK, Awake
  <2>4. Rest'
    <3>1. TypeOK'
      BY <1>7, <2>2, <2>3 DEF DtorStop, TypeOK, localVars, clientVars
    <3>2. PlacesOK'
      BY <1>7, <2>2, <2>3 DEF DtorStop, PlacesOK, Threads, WorkerPcs, OwnerPcs
    <3>3. StartsOnlyWhenLoaded'
      BY <1>7, <2>2, <2>3 DEF DtorStop, TypeOK, StartsOnlyWhenLoaded, StartingClients, Threads, localVars, clientVars
    <3>4. HoldersHaveTasks'
      BY <1>7, <2>2, <2>3 DEF DtorStop, HoldersHaveTasks, Holding, Threads, localVars, clientVars
    <3> QED
      BY <3>1, <3>2, <3>3, <3>4
  <2>5. InitialisedWorkers' = InitialisedWorkers /\ initCount' = initCount
    BY <1>7, <2>2, <2>3 DEF DtorStop, TypeOK, PlacesOK, Threads, OwnerPcs, InitialisedWorkers
  <2> QED
    BY <2>4, <2>5 DEF InitCountIsExact
<1>8. ASSUME NEW w \in Workers, CountInitialised(w) PROVE ControlInv'
  <2>1. /\ w \notin InitialisedWorkers
        /\ InitialisedWorkers' = InitialisedWorkers \cup {w}
        /\ InitialisedWorkers \subseteq Workers /\ InitialisedWorkers' \subseteq Workers
    BY <1>8 DEF CountInitialised, TypeOK, PlacesOK, Threads, InitialisedWorkers
  <2>2. /\ Cardinality(InitialisedWorkers') = initCount + 1
        /\ Cardinality(InitialisedWorkers') <= Cardinality(Workers)
        /\ Cardinality(Workers) \in Nat
    BY <2>1, OneMore, CountedSetsFinite, FS_Subset DEF InitCountIsExact
  <2>3. initCount' = Cardinality(InitialisedWorkers') /\ initCount' \in 0..Cardinality(Workers)
    BY <1>8, <2>2 DEF CountInitialised, TypeOK
  <2>4. Rest'
    BY <1>8, <2>3
       DEF CountInitialised,
           TypeOK, PlacesOK, StartsOnlyWhenLoaded, HoldersHaveTasks, Holding,
           StartingClients, Threads, WorkerPcs, OwnerPcs, localVars, clientVars
  <2> QED
    BY <2>3, <2>4 DEF InitCountIsExact
<1>9. CASE UNCHANGED vars
  BY <1>9
     DEF vars, TypeOK, PlacesOK, StartsOnlyWhenLoaded, HoldersHaveTasks, Holding,
         StartingClients, InitCountIsExact, InitialisedWorkers
<1>10. CASE OthersPush \/ OthersBegin
  <2>1. waitingCounter' \in 0..CounterModulus - 1 /\ elsewhere' \in 0..MaxElsewhere
    BY <1>10 DEF OthersPush, OthersBegin, Raised, Lowered, TypeOK
  <2>2. UNCHANGED othersVars
    BY <1>10 DEF OthersPush, OthersBegin
  <2> QED
    BY <2>1, <2>2
       DEF othersVars, localVars, TypeOK, PlacesOK, StartsOnlyWhenLoaded, HoldersHaveTasks,
           Holding, StartingClients, InitCountIsExact, InitialisedWorkers
<1> QED
  BY <1>1, <1>2, <1>3, <1>4, <1>5, <1>6, <1>7, <1>8, <1>9, <1>10
     DEF Next, WorkerStep, OwnerStep

-----------------------------------------------------------------------------
(* No stream sleeps while a task needs it.                                 *)

LEMMA SleepInvNext ==
    ControlInv /\ SleepingWorkersNotNeeded /\ [Next]_vars => SleepingWorkersNotNeeded'
<1> SUFFICES ASSUME ControlInv, SleepingWorkersNotNeeded, [Next]_vars,
                    NEW s \in Workers, pc'[s] = "asleep"
             PROVE  Len(taskQueue') <= Cardinality(WaitingWorkers')
  BY DEF SleepingWorkersNotNeeded, WaitingWorkers
<1> USE StreamsAssumption DEF ControlInv
<1>1. /\ taskQueue \in Seq(Tasks)
      /\ IsFiniteSet(WaitingWorkers) /\ Cardinality(WaitingWorkers) \in Nat
      /\ IsFiniteSet(WaitingWorkers') /\ Cardinality(WaitingWorkers') \in Nat
  BY CountedSetsFinite DEF WaitingWorkers, TypeOK
\* A step that leaves the queue alone and puts nobody to sleep.
<1>2. ASSUME WaitingWorkers \subseteq WaitingWorkers', taskQueue' = taskQueue, pc[s] = "asleep"
      PROVE  Len(taskQueue') <= Cardinality(WaitingWorkers')
  <2>1. Len(taskQueue) <= Cardinality(WaitingWorkers)
    BY <1>2 DEF SleepingWorkersNotNeeded, WaitingWorkers
  <2>2. Cardinality(WaitingWorkers) <= Cardinality(WaitingWorkers')
    BY <1>1, <1>2, FS_Subset
  <2> QED
    BY <1>1, <1>2, <2>1, <2>2
<1>3. ASSUME NEW w \in Workers,
             Initialise(w) \/ CountInitialised(w) \/ WorkerTest(w)
               \/ WorkerBegin(w) \/ WorkerRun(w) \/ WorkerEnds(w)
      PROVE  Len(taskQueue') <= Cardinality(WaitingWorkers')
  BY <1>2, <1>3
     DEF Initialise, CountInitialised, WorkerTest, WorkerBegin, WorkerRun, WorkerEnds,
         WaitingWorkers, TypeOK, Threads
<1>4. CASE ConstructorReturns \/ DtorSleep \/ DtorJoin \/ DtorBegin
  BY <1>2, <1>4
     DEF ConstructorReturns, DtorSleep, DtorJoin, DtorBegin, WaitingWorkers, TypeOK, Threads
<1>5. ASSUME NEW t \in Threads, SpuriousWakeup(t)
      PROVE  Len(taskQueue') <= Cardinality(WaitingWorkers')
  BY <1>2, <1>5 DEF SpuriousWakeup, WaitingWorkers, TypeOK, Threads
<1>6. ASSUME NEW c \in Clients, NEW k \in Tasks, Occupy(c, k)
      PROVE  Len(taskQueue') <= Cardinality(WaitingWorkers')
  BY <1>2, <1>6 DEF Occupy, WaitingWorkers
<1>7. CASE UNCHANGED vars
  BY <1>2, <1>7 DEF vars, WaitingWorkers
<1>8. ASSUME NEW w \in Workers, WorkerSleep(w)
      PROVE  Len(taskQueue') <= Cardinality(WaitingWorkers')
  BY <1>1, <1>8 DEF WorkerSleep
<1>9. ASSUME NEW w \in Workers, WorkerTake(w)
      PROVE  Len(taskQueue') <= Cardinality(WaitingWorkers')
  <2>1. /\ w \in WaitingWorkers
        /\ WaitingWorkers' = WaitingWorkers \ {w}
        /\ pc[s] = "asleep"
    BY <1>9 DEF WorkerTake, WaitingWorkers, TypeOK, Threads
  <2>2. Len(taskQueue) <= Cardinality(WaitingWorkers)
    BY <2>1 DEF SleepingWorkersNotNeeded, WaitingWorkers
  <2>3. Len(taskQueue') = Len(taskQueue) - 1
    BY <1>1, <1>9 DEF WorkerTake, FrontPopped
  <2> QED
    BY <1>1, <2>1, <2>2, <2>3, OneLess
<1>10. ASSUME NEW c \in Clients, Push(c)
       PROVE  Len(taskQueue') <= Cardinality(WaitingWorkers')
  <2>1. PICK woken \in NotifyOne(Sleepers) : pc' = Awake(pc, woken)
    BY <1>10 DEF Push, WokenByPush
  <2>2. pc[Owner] = "loaded"
    BY <1>10 DEF Push, StartsOnlyWhenLoaded, StartingClients
  <2>3. pc[s] = "asleep"
    BY <2>1 DEF Awake, Threads
  <2>4. PICK t \in Sleepers : woken = {t}
    BY <2>1, <2>3 DEF NotifyOne, Sleepers, Threads
  <2>5. t \in Workers /\ pc[t] = "asleep"
    BY <2>2, <2>4 DEF Sleepers, Threads
  <2>6. t \notin WaitingWorkers /\ WaitingWorkers' = WaitingWorkers \cup {t}
    BY <2>1, <2>4, <2>5 DEF WaitingWorkers, Awake, Threads
  <2>7. Len(taskQueue) <= Cardinality(WaitingWorkers)
    BY <2>3 DEF SleepingWorkersNotNeeded, WaitingWorkers
  <2>8. Len(taskQueue') = Len(taskQueue) + 1
    BY <1>1, <1>10 DEF Push, PushBack, TypeOK
  <2> QED
    BY <1>1, <2>6, <2>7, <2>8, OneMore
\* notify_all leaves nobody asleep.
<1>11. CASE (\E w \in Workers : WorkerNotify(w)) \/ DtorStop
  <2>1. PICK t \in Threads, v \in {"testing", "joining"} :
          pc' = [Awake(pc, Sleepers) EXCEPT ![t] = v]
    BY <1>11 DEF WorkerNotify, DtorStop, WokenAfterLast, NotifyAll, Threads
  <2> QED
    BY <2>1 DEF Awake, Sleepers, Threads
<1>12. CASE OthersPush \/ OthersBegin
  BY <1>2, <1>12 DEF OthersPush, OthersBegin, othersVars, WaitingWorkers
<1> QED
  BY <1>3, <1>4, <1>5, <1>6, <1>7, <1>8, <1>9, <1>10, <1>11, <1>12 DEF Next, WorkerStep, OwnerStep

-----------------------------------------------------------------------------
(* Tasks run on loaded graphs.                                             *)

\* When the constructor returns, every worker has run its initialization.
LEMMA ConstructorSawAll ==
    ASSUME ControlInv, GraphAfterInitialise, AllInitialised
    PROVE  \A w \in Workers : graph[w] # "none"
<1>1. InitialisedWorkers \subseteq Workers /\ IsFiniteSet(Workers)
  BY StreamsAssumption DEF InitialisedWorkers
<1>2. Cardinality(InitialisedWorkers) = Cardinality(Workers)
  BY DEF ControlInv, InitCountIsExact, AllInitialised
<1>3. InitialisedWorkers = Workers
  BY <1>1, <1>2, FS_Subset
<1> QED
  BY <1>3 DEF InitialisedWorkers, GraphAfterInitialise

GraphInv == GraphAfterInitialise /\ GraphsLoaded

LEMMA GraphInvNext == ControlInv /\ GraphInv /\ [Next]_vars => GraphInv'
<1> SUFFICES ASSUME ControlInv, GraphInv, [Next]_vars PROVE GraphInv'
  OBVIOUS
<1> USE StreamsAssumption DEF ControlInv, GraphInv
<1>1. ASSUME NEW w \in Workers, Initialise(w) PROVE GraphInv'
  <2>1. graph[w] # "loaded"
    BY <1>1 DEF Initialise, GraphAfterInitialise
  <2>2. pc[Owner] # "loaded" /\ taskQueue = <<>> /\ Holding = {}
    BY <2>1 DEF GraphsLoaded
  <2> QED
    BY <1>1, <2>2
       DEF Initialise, GraphAfterInitialise, GraphsLoaded, Holding, TypeOK, Threads
<1>2. ASSUME NEW w \in Workers, WorkerTake(w) PROVE GraphInv'
  BY <1>2 DEF WorkerTake, GraphAfterInitialise, GraphsLoaded, Holding, TypeOK, Threads
<1>3. ASSUME NEW w \in Workers,
             CountInitialised(w) \/ WorkerTest(w) \/ WorkerSleep(w)
               \/ WorkerBegin(w) \/ WorkerRun(w) \/ WorkerEnds(w)
      PROVE  GraphInv'
  BY <1>3
     DEF CountInitialised, WorkerTest, WorkerSleep, WorkerBegin, WorkerRun, WorkerEnds,
         localVars, GraphAfterInitialise, GraphsLoaded, Holding, TypeOK, Threads
<1>4. CASE ConstructorReturns
  <2>1. \A w \in Workers : graph[w] \in {"loaded", "failed"}
    BY <1>4, ConstructorSawAll DEF ConstructorReturns, TypeOK
  <2> QED
    BY <1>4, <2>1
       DEF ConstructorReturns, localVars, GraphAfterInitialise, GraphsLoaded, Holding,
           TypeOK, Threads
<1>5. CASE DtorBegin \/ DtorSleep \/ DtorJoin
  BY <1>5
     DEF DtorBegin, DtorSleep, DtorJoin, localVars, GraphAfterInitialise, GraphsLoaded,
         Holding, TypeOK, Threads
<1>6. ASSUME NEW t \in Threads, SpuriousWakeup(t) PROVE GraphInv'
  BY <1>6
     DEF SpuriousWakeup, localVars, GraphAfterInitialise, GraphsLoaded, Holding, TypeOK,
         PlacesOK, OwnerPcs, Threads
<1>7. ASSUME NEW c \in Clients, NEW k \in Tasks, Occupy(c, k) PROVE GraphInv'
  BY <1>7 DEF Occupy, localVars, GraphAfterInitialise, GraphsLoaded, Holding
<1>8. ASSUME NEW c \in Clients, Push(c) PROVE GraphInv'
  <2>1. PICK woken \in NotifyOne(Sleepers) : pc' = Awake(pc, woken)
    BY <1>8 DEF Push, WokenByPush
  <2>2. pc[Owner] = "loaded"
    BY <1>8 DEF Push, StartsOnlyWhenLoaded, StartingClients
  <2> QED
    BY <1>8, <2>1, <2>2, Notified
       DEF Push, localVars, GraphAfterInitialise, GraphsLoaded, Threads
<1>9. ASSUME NEW w \in Workers, WorkerNotify(w) PROVE GraphInv'
  <2>1. PICK woken \in NotifyAll(Sleepers) :
          pc' = [Awake(pc, woken) EXCEPT ![w] = "testing"]
    BY <1>9 DEF WorkerNotify, WokenAfterLast
  <2>2. \A t \in Threads :
          /\ pc'[t] = IF t = w THEN "testing" ELSE IF t \in woken THEN "waiting" ELSE pc[t]
          /\ t \in woken => pc[t] = "asleep"
    BY <2>1, <1>9, Notified DEF Threads, Awake
  <2> QED
    BY <1>9, <2>2
       DEF WorkerNotify, localVars, GraphAfterInitialise, GraphsLoaded, Holding, Threads
<1>10. CASE DtorStop
  <2>1. PICK woken \in NotifyAll(Sleepers) :
          pc' = [Awake(pc, woken) EXCEPT ![Owner] = "joining"]
    BY <1>10 DEF DtorStop
  <2>2. \A t \in Threads :
          /\ pc'[t] = IF t = Owner THEN "joining" ELSE IF t \in woken THEN "waiting" ELSE pc[t]
          /\ t \in woken => pc[t] = "asleep"
    BY <2>1, <1>10, Notified DEF Threads, Awake
  <2> QED
    BY <1>10, <2>2
       DEF DtorStop, localVars, GraphAfterInitialise, GraphsLoaded, Holding, Threads
<1>11. CASE UNCHANGED vars
  BY <1>11 DEF vars, GraphAfterInitialise, GraphsLoaded, Holding
<1>12. CASE OthersPush \/ OthersBegin
  BY <1>12
     DEF OthersPush, OthersBegin, othersVars, localVars, GraphAfterInitialise, GraphsLoaded,
         Holding
<1> QED
  BY <1>1, <1>2, <1>3, <1>4, <1>5, <1>6, <1>7, <1>8, <1>9, <1>10, <1>11, <1>12
     DEF Next, WorkerStep, OwnerStep

-----------------------------------------------------------------------------
(* The waiting counter.                                                    *)

CounterInv == PendingWithinStarts /\ WaitingCounterIsExact

LEMMA CounterInvNext == ControlInv /\ CounterInv /\ [Next]_vars => CounterInv'
<1> SUFFICES ASSUME ControlInv, CounterInv, [Next]_vars PROVE CounterInv'
  OBVIOUS
<1> USE StreamsAssumption DEF ControlInv
<1> DEFINE taken    == Cardinality(TakenWorkers)
           starting == Cardinality(StartingClients)
           n        == Len(taskQueue)
<1>1. /\ n \in Nat /\ taken \in Nat /\ starting \in Nat
      /\ IsFiniteSet(TakenWorkers) /\ IsFiniteSet(StartingClients)
      /\ starts \in 0..MaxStarts /\ elsewhere \in 0..MaxElsewhere
  BY CountedSetsFinite DEF TakenWorkers, StartingClients, TypeOK
<1>2. n + taken + starting <= starts /\ waitingCounter = n + taken + elsewhere
  BY DEF CounterInv, PendingWithinStarts, WaitingCounterIsExact, TakenWorkers
<1>3. ASSUME n' + taken' + starting' <= starts', waitingCounter' = n' + taken' + elsewhere'
      PROVE  CounterInv'
  BY <1>3 DEF CounterInv, PendingWithinStarts, WaitingCounterIsExact, TakenWorkers
\* A step that moves no task.
<1>4. ASSUME TakenWorkers' = TakenWorkers,
             UNCHANGED <<taskQueue, startingTask, starts, elsewhere, waitingCounter>>
      PROVE  CounterInv'
  BY <1>2, <1>3, <1>4 DEF StartingClients
<1>5. ASSUME NEW w \in Workers,
             Initialise(w) \/ CountInitialised(w) \/ WorkerTest(w) \/ WorkerSleep(w)
               \/ WorkerRun(w) \/ WorkerEnds(w)
      PROVE  CounterInv'
  BY <1>4, <1>5
     DEF Initialise, CountInitialised, WorkerTest, WorkerSleep, WorkerRun, WorkerEnds,
         localVars, clientVars, TakenWorkers, TypeOK, Threads
<1>6. CASE ConstructorReturns \/ DtorBegin \/ DtorSleep \/ DtorJoin
  BY <1>4, <1>6
     DEF ConstructorReturns, DtorBegin, DtorSleep, DtorJoin, localVars, clientVars,
         TakenWorkers, TypeOK, Threads
<1>7. ASSUME NEW t \in Threads, SpuriousWakeup(t) PROVE CounterInv'
  BY <1>4, <1>7 DEF SpuriousWakeup, localVars, clientVars, TakenWorkers, TypeOK, Threads
<1>8. CASE UNCHANGED vars
  BY <1>4, <1>8 DEF vars, TakenWorkers
<1>9. ASSUME NEW w \in Workers, WorkerNotify(w) PROVE CounterInv'
  <2>1. PICK woken \in NotifyAll(Sleepers) :
          pc' = [Awake(pc, woken) EXCEPT ![w] = "testing"]
    BY <1>9 DEF WorkerNotify, WokenAfterLast
  <2>2. \A t \in Threads :
          /\ pc'[t] = IF t = w THEN "testing" ELSE IF t \in woken THEN "waiting" ELSE pc[t]
          /\ t \in woken => pc[t] = "asleep"
    BY <2>1, <1>9, Notified DEF Threads, Awake
  <2> QED
    BY <1>4, <1>9, <2>2 DEF WorkerNotify, localVars, clientVars, TakenWorkers, Threads
<1>10. CASE DtorStop
  <2>1. PICK woken \in NotifyAll(Sleepers) :
          pc' = [Awake(pc, woken) EXCEPT ![Owner] = "joining"]
    BY <1>10 DEF DtorStop
  <2>2. \A t \in Threads :
          /\ pc'[t] = IF t = Owner THEN "joining" ELSE IF t \in woken THEN "waiting" ELSE pc[t]
          /\ t \in woken => pc[t] = "asleep"
    BY <2>1, <1>10, Notified DEF Threads, Awake
  <2> QED
    BY <1>4, <1>10, <2>2 DEF DtorStop, localVars, clientVars, TakenWorkers, Threads
<1>11. ASSUME NEW c \in Clients, NEW k \in Tasks, Occupy(c, k) PROVE CounterInv'
  <2>1. /\ c \notin StartingClients
        /\ StartingClients' = StartingClients \cup {c}
        /\ TakenWorkers' = TakenWorkers
        /\ UNCHANGED <<taskQueue, waitingCounter, elsewhere>> /\ starts' = starts + 1
    BY <1>11 DEF Occupy, StartingClients, TakenWorkers, TypeOK
  <2>2. starting' = starting + 1
    BY <1>1, <2>1, OneMore
  <2> QED
    BY <1>1, <1>2, <1>3, <2>1, <2>2
<1>12. ASSUME NEW c \in Clients, Push(c) PROVE CounterInv'
  <2>1. PICK woken \in NotifyOne(Sleepers) : pc' = Awake(pc, woken)
    BY <1>12 DEF Push, WokenByPush
  <2>2. TakenWorkers' = TakenWorkers
    BY <2>1, Notified DEF TakenWorkers, Threads
  <2>3. c \in StartingClients /\ StartingClients' = StartingClients \ {c}
    BY <1>12 DEF Push, StartingClients, TypeOK
  <2>4. starting >= 1 /\ starting' = starting - 1
    BY <1>1, <2>3, OneLess, FS_EmptySet
  <2>5. n' = n + 1
    BY <1>12 DEF Push, PushBack, TypeOK
  <2>6. waitingCounter' = waitingCounter + 1
    BY <1>1, <1>2, <1>12, <2>4, SMTT(60) DEF Push, Raised
  <2>7. starts' = starts /\ elsewhere' = elsewhere
    BY <1>12 DEF Push
  <2> QED
    BY <1>1, <1>2, <1>3, <2>2, <2>4, <2>5, <2>6, <2>7, SMTT(60)
<1>13. ASSUME NEW w \in Workers, WorkerTake(w) PROVE CounterInv'
  <2>1. /\ w \notin TakenWorkers
        /\ TakenWorkers' = TakenWorkers \cup {w}
        /\ UNCHANGED <<startingTask, waitingCounter, starts, elsewhere>>
    BY <1>13 DEF WorkerTake, clientVars, TakenWorkers, TypeOK, Threads
  <2>2. taken' = taken + 1
    BY <1>1, <2>1, OneMore
  <2>3. n' = n - 1
    BY <1>13 DEF WorkerTake, FrontPopped, TypeOK
  <2>4. starting' = starting
    BY <2>1 DEF StartingClients
  <2> QED
    BY <1>1, <1>2, <1>3, <2>1, <2>2, <2>3, <2>4, SMTT(60)
<1>14. ASSUME NEW w \in Workers, WorkerBegin(w) PROVE CounterInv'
  <2>1. /\ w \in TakenWorkers
        /\ TakenWorkers' = TakenWorkers \ {w}
        /\ UNCHANGED <<taskQueue, startingTask, starts, elsewhere>>
    BY <1>14 DEF WorkerBegin, clientVars, TakenWorkers, TypeOK, Threads
  <2>2. taken >= 1 /\ taken' = taken - 1
    BY <1>1, <2>1, OneLess, FS_EmptySet
  <2>3. waitingCounter' = waitingCounter - 1
    BY <1>1, <1>2, <1>14, <2>2 DEF WorkerBegin, Lowered
  <2>4. n' = n /\ starting' = starting /\ starts' = starts /\ elsewhere' = elsewhere
    BY <2>1 DEF StartingClients
  <2> QED
    BY <1>1, <1>2, <1>3, <2>2, <2>3, <2>4
\* The other executors raise the counter before they lower it.
<1>15. CASE OthersPush
  <2>1. n' = n /\ taken' = taken /\ starting' = starting /\ starts' = starts
    BY <1>15 DEF OthersPush, othersVars, TakenWorkers, StartingClients
  <2>2. elsewhere' = elsewhere + 1 /\ waitingCounter' = waitingCounter + 1
    BY <1>1, <1>2, <1>15, SMTT(60) DEF OthersPush, Raised
  <2> QED
    BY <1>1, <1>2, <1>3, <2>1, <2>2
<1>16. CASE OthersBegin
  <2>1. n' = n /\ taken' = taken /\ starting' = starting /\ starts' = starts
    BY <1>16 DEF OthersBegin, othersVars, TakenWorkers, StartingClients
  <2>2. elsewhere' = elsewhere - 1 /\ waitingCounter' = waitingCounter - 1
    BY <1>1, <1>2, <1>16, SMTT(60) DEF OthersBegin, Lowered
  <2> QED
    BY <1>1, <1>2, <1>3, <2>1, <2>2
<1> QED
  BY <1>5, <1>6, <1>7, <1>8, <1>9, <1>10, <1>11, <1>12, <1>13, <1>14, <1>15, <1>16
     DEF Next, WorkerStep, OwnerStep

-----------------------------------------------------------------------------
(* BUSY means one start pending.                                           *)

\* What is on its way is BUSY, ...
PendingIsBusy ==
    /\ \A c \in Clients : startingTask[c] # None => status[startingTask[c]] = "BUSY"
    /\ \A i \in 1..Len(taskQueue) : status[taskQueue[i]] = "BUSY"
    /\ \A w \in Workers : currentTask[w] # None => status[currentTask[w]] = "BUSY"

\* ... what is BUSY is on its way, ...
BusyIsPending ==
    \A k \in Tasks : status[k] = "BUSY" =>
        \/ \E c \in Clients : startingTask[c] = k
        \/ \E i \in 1..Len(taskQueue) : taskQueue[i] = k
        \/ \E w \in Workers : currentTask[w] = k

\* ... and is so in one place only.
PendingOnce ==
    /\ \A c, d \in Clients :
          startingTask[c] # None /\ startingTask[c] = startingTask[d] => c = d
    /\ \A i, j \in 1..Len(taskQueue) : taskQueue[i] = taskQueue[j] => i = j
    /\ \A v, w \in Workers :
          currentTask[v] # None /\ currentTask[v] = currentTask[w] => v = w
    /\ \A c \in Clients, i \in 1..Len(taskQueue) : startingTask[c] # taskQueue[i]
    /\ \A c \in Clients, w \in Workers :
          startingTask[c] # None => startingTask[c] # currentTask[w]
    /\ \A i \in 1..Len(taskQueue), w \in Workers : taskQueue[i] # currentTask[w]

BusyInv == PendingIsBusy /\ BusyIsPending /\ PendingOnce

LEMMA BusyInvNext == ControlInv /\ BusyInv /\ [Next]_vars => BusyInv'
<1> SUFFICES ASSUME ControlInv, BusyInv, [Next]_vars PROVE BusyInv'
  OBVIOUS
<1> USE StreamsAssumption DEF ControlInv, BusyInv
<1>1. ASSUME UNCHANGED <<status, startingTask, taskQueue, currentTask>> PROVE BusyInv'
  BY <1>1 DEF PendingIsBusy, BusyIsPending, PendingOnce
<1>2. ASSUME NEW w \in Workers,
             Initialise(w) \/ CountInitialised(w) \/ WorkerTest(w) \/ WorkerSleep(w)
               \/ WorkerBegin(w) \/ WorkerEnds(w) \/ WorkerNotify(w)
      PROVE  BusyInv'
  BY <1>1, <1>2
     DEF Initialise, CountInitialised, WorkerTest, WorkerSleep, WorkerBegin, WorkerEnds,
         WorkerNotify, localVars, clientVars
<1>3. CASE OwnerStep \/ DtorBegin \/ UNCHANGED vars
  BY <1>1, <1>3
     DEF OwnerStep, ConstructorReturns, DtorBegin, DtorStop, DtorSleep, DtorJoin, vars,
         localVars, clientVars
<1>4. ASSUME NEW t \in Threads, SpuriousWakeup(t) PROVE BusyInv'
  BY <1>1, <1>4 DEF SpuriousWakeup, localVars, clientVars
<1>5. ASSUME NEW c \in Clients, NEW k \in Tasks, Occupy(c, k) PROVE BusyInv'
  <2>1. /\ status' = [status EXCEPT ![k] = "BUSY"] /\ status[k] # "BUSY"
        /\ startingTask[c] = None /\ startingTask' = [startingTask EXCEPT ![c] = k]
        /\ UNCHANGED <<taskQueue, currentTask>>
    BY <1>5 DEF Occupy, localVars
  <2>2. /\ status \in [Tasks -> Statuses] /\ startingTask \in [Clients -> Tasks \cup {None}]
        /\ currentTask \in [Workers -> Tasks \cup {None}]
        /\ \A i \in 1..Len(taskQueue) : taskQueue[i] \in Tasks
    BY DEF TypeOK
  <2>3. PendingIsBusy'
    BY <2>1, <2>2 DEF PendingIsBusy
  <2>4. BusyIsPending'
    BY <2>1, <2>2 DEF BusyIsPending
  <2>5. PendingOnce'
    BY <2>1, <2>2 DEF PendingOnce, PendingIsBusy
  <2> QED
    BY <2>3, <2>4, <2>5
<1>6. ASSUME NEW c \in Clients, Push(c) PROVE BusyInv'
  <2> DEFINE k == startingTask[c]
             n == Len(taskQueue)
  <2>1. /\ k \in Tasks /\ n \in Nat
        /\ Len(taskQueue') = n + 1 /\ taskQueue'[n + 1] = k
        /\ \A i \in 1..n : taskQueue'[i] = taskQueue[i]
        /\ \A i \in 1..n : taskQueue[i] \in Tasks
        /\ startingTask' = [startingTask EXCEPT ![c] = None]
        /\ UNCHANGED <<status, currentTask>>
    BY <1>6 DEF Push, PushBack, TypeOK, localVars
  <2>2. /\ startingTask \in [Clients -> Tasks \cup {None}]
        /\ currentTask \in [Workers -> Tasks \cup {None}]
    BY DEF TypeOK
  <2>3. PendingIsBusy'
    BY <2>1, <2>2 DEF PendingIsBusy
  <2>4. BusyIsPending'
    BY <2>1, <2>2 DEF BusyIsPending
  <2>5. PendingOnce'
    BY <2>1, <2>2 DEF PendingOnce
  <2> QED
    BY <2>3, <2>4, <2>5
<1>7. ASSUME NEW w \in Workers, WorkerTake(w) PROVE BusyInv'
  <2> DEFINE n == Len(taskQueue)
  <2>1. /\ n \in Nat /\ n >= 1
        /\ Len(taskQueue') = n - 1
        /\ \A i \in 1..n - 1 : taskQueue'[i] = taskQueue[i + 1]
        /\ \A i \in 1..n : taskQueue[i] \in Tasks
        /\ currentTask' = [currentTask EXCEPT ![w] = taskQueue[1]]
        /\ UNCHANGED <<status, startingTask>>
    BY <1>7 DEF WorkerTake, FrontPopped, TypeOK, clientVars
  <2>2. /\ startingTask \in [Clients -> Tasks \cup {None}]
        /\ currentTask \in [Workers -> Tasks \cup {None}]
        /\ currentTask[w] = None
    BY <1>7 DEF TypeOK, WorkerTake, HoldersHaveTasks, Holding
  <2>3. PendingIsBusy'
    BY <2>1, <2>2 DEF PendingIsBusy
  <2>4. BusyIsPending'
    <3> SUFFICES ASSUME NEW k \in Tasks, status[k] = "BUSY",
                        ~ \E c \in Clients : startingTask[c] = k,
                        ~ \E v \in Workers : currentTask'[v] = k
                 PROVE  \E i \in 1..n - 1 : taskQueue'[i] = k
      BY <2>1 DEF BusyIsPending
    <3>1. PICK i \in 1..n : taskQueue[i] = k
      BY <2>1, <2>2 DEF BusyIsPending
    <3>2. i # 1
      BY <2>1, <2>2, <3>1
    <3>3. i - 1 \in 1..n - 1 /\ taskQueue'[i - 1] = k
      BY <2>1, <3>1, <3>2
    <3> QED
      BY <3>3
  <2>5. PendingOnce'
    BY <2>1, <2>2, SMTT(60) DEF PendingOnce
  <2> QED
    BY <2>3, <2>4, <2>5
<1>8. ASSUME NEW w \in Workers, WorkerRun(w) PROVE BusyInv'
  <2>1. PICK outcome \in Finished : status' = [status EXCEPT ![currentTask[w]] = outcome]
    BY <1>8 DEF WorkerRun
  <2>2. /\ currentTask[w] # None
        /\ currentTask' = [currentTask EXCEPT ![w] = None]
        /\ UNCHANGED <<taskQueue, startingTask>>
    BY <1>8 DEF WorkerRun, HoldersHaveTasks, Holding, clientVars
  <2>3. /\ status \in [Tasks -> Statuses] /\ startingTask \in [Clients -> Tasks \cup {None}]
        /\ currentTask \in [Workers -> Tasks \cup {None}]
        /\ \A i \in 1..Len(taskQueue) : taskQueue[i] \in Tasks
        /\ outcome # "BUSY"
    BY <2>1 DEF TypeOK, Finished
  <2>4. PendingIsBusy'
    BY <2>1, <2>2, <2>3 DEF PendingIsBusy, PendingOnce
  <2>5. BusyIsPending'
    BY <2>1, <2>2, <2>3 DEF BusyIsPending
  <2>6. PendingOnce'
    BY <2>2, <2>3 DEF PendingOnce
  <2> QED
    BY <2>4, <2>5, <2>6
<1>9. CASE OthersPush \/ OthersBegin
  BY <1>1, <1>9 DEF OthersPush, OthersBegin, othersVars, localVars
<1> QED
  BY <1>2, <1>3, <1>4, <1>5, <1>6, <1>7, <1>8, <1>9 DEF Next, WorkerStep

-----------------------------------------------------------------------------
(* The end of the executor.                                                *)

DestructionInv == /\ pc[Owner] \in {"joining", "done"} => taskQueue = <<>>
                  /\ pc[Owner] = "done" => \A w \in Workers : pc[w] = "exited"

LEMMA DestructionInvNext == ControlInv /\ DestructionInv /\ [Next]_vars => DestructionInv'
<1> SUFFICES ASSUME ControlInv, DestructionInv, [Next]_vars PROVE DestructionInv'
  OBVIOUS
<1> USE StreamsAssumption DEF ControlInv
<1>1. ASSUME NEW w \in Workers,
             Initialise(w) \/ CountInitialised(w) \/ WorkerTest(w) \/ WorkerTake(w)
               \/ WorkerSleep(w) \/ WorkerBegin(w) \/ WorkerRun(w) \/ WorkerEnds(w)
      PROVE  DestructionInv'
  BY <1>1
     DEF Initialise, CountInitialised, WorkerTest, WorkerTake, WorkerSleep, WorkerBegin,
         WorkerRun, WorkerEnds, DestructionInv, TypeOK, Threads
<1>2. ASSUME NEW w \in Workers, WorkerNotify(w) PROVE DestructionInv'
  <2>1. PICK woken \in NotifyAll(Sleepers) :
          pc' = [Awake(pc, woken) EXCEPT ![w] = "testing"]
    BY <1>2 DEF WorkerNotify, WokenAfterLast
  <2>2. pc[Owner] # "done" /\ taskQueue' = taskQueue
    BY <1>2 DEF WorkerNotify, DestructionInv
  <2>3. pc'[Owner] = IF Owner \in woken THEN "waiting" ELSE pc[Owner]
    BY <2>1, <1>2, Notified DEF Threads, Awake
  <2> QED
    BY <2>2, <2>3 DEF DestructionInv
<1>3. ASSUME NEW c \in Clients, Push(c) PROVE DestructionInv'
  <2>1. PICK woken \in NotifyOne(Sleepers) : pc' = Awake(pc, woken)
    BY <1>3 DEF Push, WokenByPush
  <2>2. pc[Owner] = "loaded"
    BY <1>3 DEF Push, StartsOnlyWhenLoaded, StartingClients
  <2>3. pc'[Owner] \in {"loaded", "waiting"}
    BY <2>1, <2>2, Notified DEF Threads
  <2> QED
    BY <2>3 DEF DestructionInv
<1>4. CASE DtorStop
  <2>1. pc'[Owner] = "joining" /\ taskQueue' = <<>>
    BY <1>4 DEF DtorStop, DtorMayStop, Awake, Threads
  <2> QED
    BY <2>1 DEF DestructionInv
<1>5. CASE ConstructorReturns \/ DtorBegin \/ DtorSleep \/ DtorJoin
  BY <1>5
     DEF ConstructorReturns, DtorBegin, DtorSleep, DtorJoin, DestructionInv, TypeOK, Threads
<1>6. ASSUME NEW t \in Threads, SpuriousWakeup(t) PROVE DestructionInv'
  BY <1>6 DEF SpuriousWakeup, DestructionInv, TypeOK, Threads
<1>7. ASSUME NEW c \in Clients, NEW k \in Tasks, Occupy(c, k) PROVE DestructionInv'
  BY <1>7 DEF Occupy, DestructionInv
<1>8. CASE UNCHANGED vars
  BY <1>8 DEF vars, DestructionInv
<1>9. CASE OthersPush \/ OthersBegin
  BY <1>9 DEF OthersPush, OthersBegin, othersVars, DestructionInv
<1> QED
  BY <1>1, <1>2, <1>3, <1>4, <1>5, <1>6, <1>7, <1>8, <1>9 DEF Next, WorkerStep, OwnerStep

-----------------------------------------------------------------------------
(* The inductive invariant.                                                *)

IInv == /\ ControlInv
        /\ SleepingWorkersNotNeeded
        /\ GraphInv
        /\ CounterInv
        /\ BusyInv
        /\ DestructionInv

LEMMA InitEstablishesInvariant == Init => IInv
<1> SUFFICES ASSUME Init PROVE IInv
  OBVIOUS
<1>1. ControlInv
  BY ControlInvInit
<1>2. /\ \A t \in Threads : pc[t] \in {"constructing", "initialising"}
      /\ pc[Owner] = "constructing"
      /\ \A w \in Workers : pc[w] = "initialising" /\ graph[w] = "none" /\ currentTask[w] = None
      /\ \A c \in Clients : startingTask[c] = None
      /\ \A k \in Tasks : status[k] = "INITIAL"
      /\ taskQueue = <<>> /\ waitingCounter = 0 /\ elsewhere = 0 /\ starts = 0
  BY StreamsAssumption DEF Init, Threads
<1>3. SleepingWorkersNotNeeded /\ GraphInv /\ DestructionInv
  BY <1>2
     DEF SleepingWorkersNotNeeded, GraphInv, GraphAfterInitialise, GraphsLoaded, Holding,
         DestructionInv, Threads
<1>4. BusyInv
  BY <1>2 DEF BusyInv, PendingIsBusy, BusyIsPending, PendingOnce
<1>5. TakenWorkers = {} /\ StartingClients = {}
  BY <1>2 DEF TakenWorkers, StartingClients
<1>6. CounterInv
  <2>1. Cardinality(TakenWorkers) = 0 /\ Cardinality(StartingClients) = 0 /\ Len(taskQueue) = 0
    BY <1>2, <1>5, FS_EmptySet
  <2> QED
    BY <1>2, <2>1 DEF CounterInv, PendingWithinStarts, WaitingCounterIsExact, TakenWorkers
<1> QED
  BY <1>1, <1>3, <1>4, <1>6 DEF IInv

LEMMA NextKeepsInvariant == IInv /\ [Next]_vars => IInv'
BY ControlInvNext, SleepInvNext, GraphInvNext, CounterInvNext, BusyInvNext,
   DestructionInvNext DEF IInv

LEMMA InvariantHolds == Spec => []IInv
BY InitEstablishesInvariant, NextKeepsInvariant, PTL DEF Spec

-----------------------------------------------------------------------------
(* Type correctness; in particular the queue never holds an empty task     *)
(* pointer, and _initCount never exceeds the number of workers.            *)
THEOREM TypeCorrect == Spec => []TypeOK
<1>1. IInv => TypeOK
  BY DEF IInv, ControlInv
<1> QED
  BY <1>1, InvariantHolds, PTL

(* As long as a worker sleeps in _queueCondVar.wait there is an awake one  *)
(* for each task in the queue: the notify_one of startTask() is enough.    *)
THEOREM NoStreamSleepsWhenNeeded == Spec => []SleepingWorkersNotNeeded
<1>1. IInv => SleepingWorkersNotNeeded
  BY DEF IInv
<1> QED
  BY <1>1, InvariantHolds, PTL

(* No inference runs on a worker whose initialization task has not run or  *)
(* has failed.                                                             *)
THEOREM LoadedBeforeRunning == Spec => []TasksRunOnLoadedGraphs
<1>1. IInv => TasksRunOnLoadedGraphs
  BY DEF IInv, GraphInv, GraphsLoaded, TasksRunOnLoadedGraphs, Holding
<1> QED
  BY <1>1, InvariantHolds, PTL

(* The static waitingCounter is exact up to the workers about to lower it, *)
(* whatever the other executors of the process do with it, as long as they *)
(* raise before they lower: it is never lowered below zero.                *)
THEOREM CounterNeverWraps == Spec => []WaitingCounterIsExact
<1>1. IInv => WaitingCounterIsExact
  BY DEF IInv, CounterInv
<1> QED
  BY <1>1, InvariantHolds, PTL

(* A BUSY task is with exactly one client, place of the queue or worker,   *)
(* so two streams never run the same task.                                 *)
THEOREM BusyTaskPendingOnce == Spec => []BusyMeansOneStartPending
<1>1. IInv => BusyMeansOneStartPending
  <2> SUFFICES ASSUME IInv, NEW k \in Tasks
               PROVE  LET C == {c \in Clients : startingTask[c] = k}
                          Q == {i \in 1..Len(taskQueue) : taskQueue[i] = k}
                          W == {w \in Workers : currentTask[w] = k}
                      IN  Cardinality(C) + Cardinality(Q) + Cardinality(W)
                            = IF status[k] = "BUSY" THEN 1 ELSE 0
    BY DEF BusyMeansOneStartPending
  <2> DEFINE C == {c \in Clients : startingTask[c] = k}
             Q == {i \in 1..Len(taskQueue) : taskQueue[i] = k}
             W == {w \in Workers : currentTask[w] = k}
  <2>1. k # None
    BY StreamsAssumption
  <2>2. /\ \A c, d \in C : c = d
        /\ \A i, j \in Q : i = j
        /\ \A v, w \in W : v = w
    BY <2>1 DEF IInv, BusyInv, PendingOnce
  <2>3. /\ C # {} => Q = {} /\ W = {}
        /\ Q # {} => W = {}
    BY <2>1 DEF IInv, BusyInv, PendingOnce
  <2>4. status[k] = "BUSY" <=> C # {} \/ Q # {} \/ W # {}
    BY <2>1 DEF IInv, BusyInv, BusyIsPending, PendingIsBusy
  <2>5. /\ Cardinality(C) = IF C = {} THEN 0 ELSE 1
        /\ Cardinality(Q) = IF Q = {} THEN 0 ELSE 1
        /\ Cardinality(W) = IF W = {} THEN 0 ELSE 1
    BY <2>2, AtMostOne
  <2> QED
    BY <2>3, <2>4, <2>5
<1> QED
  BY <1>1, InvariantHolds, PTL

(* The destructor returns only when every accepted start has been run.     *)
THEOREM DestructorLosesNothing == Spec => []NothingLostAtDestruction
<1>1. IInv => NothingLostAtDestruction
  <2> SUFFICES ASSUME IInv PROVE NothingLostAtDestruction
    OBVIOUS
  <2>1. pc[Owner] \in {"joining", "done"} => taskQueue = <<>>
    BY DEF IInv, DestructionInv
  <2>2. ASSUME pc[Owner] = "done", NEW k \in Tasks, status[k] = "BUSY" PROVE FALSE
    <3>1. /\ taskQueue = <<>>
          /\ \A w \in Workers : pc[w] = "exited"
          /\ \A c \in Clients : startingTask[c] = None
      BY <2>2 DEF IInv, DestructionInv, ControlInv, StartsOnlyWhenLoaded, StartingClients
    <3>2. \A w \in Workers : currentTask[w] = None
      BY <3>1 DEF IInv, ControlInv, HoldersHaveTasks, Holding
    <3> QED
      BY <2>2, <3>1, <3>2, StreamsAssumption DEF IInv, BusyInv, BusyIsPending
  <2> QED
    BY <2>1, <2>2 DEF NothingLostAtDestruction
<1> QED
  BY <1>1, InvariantHolds, PTL

-----------------------------------------------------------------------------
(* No wake-up is lost.                                                     *)

\* The executor is stopped exactly when its destructor joins the workers,
\* and a worker leaves only then.
StopInv ==
    /\ isStopped <=> pc[Owner] \in {"joining", "done"}
    /\ \A w \in Workers : pc[w] = "exited" => isStopped

WakeInv == StopInv /\ SleepersWillBeWoken

LEMMA WakeInvNext == ControlInv /\ DestructionInv /\ WakeInv /\ [Next]_vars => WakeInv'
<1> SUFFICES ASSUME ControlInv, DestructionInv, WakeInv, [Next]_vars PROVE WakeInv'
  OBVIOUS
<1> USE StreamsAssumption DEF ControlInv
<1>0. /\ pc \in [Threads -> WorkerPcs \cup OwnerPcs] /\ isQueueEmpty \in [Workers -> BOOLEAN]
      /\ \A w \in Workers : w \in Threads /\ w # Owner
      /\ Owner \in Threads
      /\ pc[Owner] \in {"joining", "done"} => taskQueue = <<>>
  BY DEF TypeOK, Threads, DestructionInv
\* The destructor's tasks: what it sleeps for is in the queue or announced.
<1>1. ASSUME NEW w \in Workers,
             Initialise(w) \/ CountInitialised(w) \/ WorkerTest(w) \/ WorkerSleep(w)
               \/ WorkerBegin(w) \/ WorkerRun(w)
      PROVE  WakeInv'
  BY <1>0, <1>1
     DEF Initialise, CountInitialised, WorkerTest, WorkerSleep, WorkerBegin, WorkerRun,
         localVars, WakeInv, StopInv, SleepersWillBeWoken, WillAnnounce
<1>2. ASSUME NEW w \in Workers, WorkerTake(w) PROVE WakeInv'
  BY <1>0, <1>2
     DEF WorkerTake, FrontPopped, WakeInv, StopInv, SleepersWillBeWoken, WillAnnounce
<1>3. ASSUME NEW w \in Workers, WorkerEnds(w) PROVE WakeInv'
  BY <1>0, <1>3
     DEF WorkerEnds, WakeInv, StopInv, SleepersWillBeWoken, WillAnnounce
\* notify_all leaves nobody asleep.
<1>4. ASSUME NEW w \in Workers, WorkerNotify(w) PROVE WakeInv'
  <2>1. pc' = [Awake(pc, Sleepers) EXCEPT ![w] = "testing"]
    BY <1>4 DEF WorkerNotify, WokenAfterLast, NotifyAll
  <2>2. \A t \in Threads : pc'[t] = IF t = w THEN "testing"
                                    ELSE IF pc[t] = "asleep" THEN "waiting" ELSE pc[t]
    BY <2>1 DEF Awake, Sleepers
  <2> QED
    BY <1>0, <1>4, <2>2 DEF WorkerNotify, WakeInv, StopInv, SleepersWillBeWoken
<1>5. CASE DtorStop
  <2>1. pc' = [Awake(pc, Sleepers) EXCEPT ![Owner] = "joining"]
    BY <1>5 DEF DtorStop, NotifyAll
  <2>2. \A t \in Threads : pc'[t] = IF t = Owner THEN "joining"
                                    ELSE IF pc[t] = "asleep" THEN "waiting" ELSE pc[t]
    BY <2>1 DEF Awake, Sleepers
  <2> QED
    BY <1>0, <1>5, <2>2 DEF DtorStop, WakeInv, StopInv, SleepersWillBeWoken
<1>6. CASE ConstructorReturns \/ DtorBegin \/ DtorSleep \/ DtorJoin
  BY <1>0, <1>6
     DEF ConstructorReturns, DtorBegin, DtorSleep, DtorMayStop, DtorJoin, localVars, WakeInv,
         StopInv, SleepersWillBeWoken, WillAnnounce
<1>7. ASSUME NEW t \in Threads, SpuriousWakeup(t) PROVE WakeInv'
  BY <1>0, <1>7
     DEF SpuriousWakeup, localVars, WakeInv, StopInv, SleepersWillBeWoken, WillAnnounce
<1>8. ASSUME NEW c \in Clients, NEW k \in Tasks, Occupy(c, k) PROVE WakeInv'
  BY <1>8 DEF Occupy, localVars, WakeInv, StopInv, SleepersWillBeWoken, WillAnnounce
\* push() comes before the destructor.
<1>9. ASSUME NEW c \in Clients, Push(c) PROVE WakeInv'
  <2>1. PICK woken \in NotifyOne(Sleepers) : pc' = Awake(pc, woken)
    BY <1>9 DEF Push, WokenByPush
  <2>2. pc[Owner] = "loaded"
    BY <1>9 DEF Push, StartsOnlyWhenLoaded, StartingClients
  <2>3. \A t \in Threads : pc'[t] = IF t \in woken THEN "waiting" ELSE pc[t]
    BY <2>1, Notified
  <2>4. pc'[Owner] = "loaded" /\ ~isStopped /\ isStopped' = isStopped
    BY <1>0, <1>9, <2>1, <2>2, <2>3, Notified DEF Push, WakeInv, StopInv
  <2> QED
    BY <1>0, <2>3, <2>4 DEF WakeInv, StopInv, SleepersWillBeWoken
<1>10. CASE UNCHANGED vars
  BY <1>10 DEF vars, WakeInv, StopInv, SleepersWillBeWoken, WillAnnounce
<1>11. CASE OthersPush \/ OthersBegin
  BY <1>11
     DEF OthersPush, OthersBegin, othersVars, localVars, WakeInv, StopInv,
         SleepersWillBeWoken, WillAnnounce
<1> QED
  BY <1>1, <1>2, <1>3, <1>4, <1>5, <1>6, <1>7, <1>8, <1>9, <1>10, <1>11
     DEF Next, WorkerStep, OwnerStep

LEMMA WakeInvHolds == Spec => []WakeInv
<1>1. Init => WakeInv
  <2> SUFFICES ASSUME Init PROVE WakeInv
    OBVIOUS
  <2>1. /\ pc[Owner] = "constructing" /\ ~isStopped
        /\ \A w \in Workers : pc[w] = "initialising"
    BY StreamsAssumption DEF Init, Threads
  <2> QED
    BY <2>1 DEF WakeInv, StopInv, SleepersWillBeWoken
<1>2. IInv /\ WakeInv /\ [Next]_vars => WakeInv'
  BY WakeInvNext DEF IInv
<1> QED
  BY <1>1, <1>2, InvariantHolds, PTL DEF Spec

\* The one condition variable of the workers and the destructor loses no
\* wake-up, though startTask() notifies one thread only and a worker decides
\* before it runs a task whether it will notify after it.
THEOREM StreamsLoseNoWakeup == Spec => []SleepersWillBeWoken
<1>1. WakeInv => SleepersWillBeWoken
  BY DEF WakeInv
<1> QED
  BY <1>1, WakeInvHolds, PTL

\* What DestructorReturns rests on: the threads of the executor and its owner
\* are never all asleep or gone with something left to do.
THEOREM StreamsDoNotDeadlock == Spec => []SomebodyGoesOn
<1>1. IInv /\ WakeInv => SomebodyGoesOn
  <2> SUFFICES ASSUME IInv, WakeInv, \A w \in Workers : pc[w] \in {"asleep", "exited"},
                      pc[Owner] \notin {"loaded", "done"} \/ taskQueue # <<>>
               PROVE  \/ pc[Owner] = "constructing" /\ AllInitialised
                      \/ pc[Owner] = "waiting"
                      \/ pc[Owner] = "joining" /\ \A w \in Workers : pc[w] = "exited"
    BY DEF SomebodyGoesOn
  <2> USE DEF IInv, ControlInv
  <2>1. taskQueue \in Seq(Tasks) /\ pc[Owner] \in OwnerPcs
    BY DEF TypeOK, PlacesOK
  <2>2. AllInitialised
    <3>1. InitialisedWorkers = Workers
      BY DEF InitialisedWorkers
    <3> QED
      BY <3>1 DEF InitCountIsExact, AllInitialised
  <2>3. taskQueue = <<>>
    <3>1. CASE \E w \in Workers : pc[w] = "asleep"
      <4>1. WaitingWorkers = {}
        BY DEF WaitingWorkers
      <4>2. Cardinality(WaitingWorkers) = 0
        BY <4>1, FS_EmptySet
      <4>3. Len(taskQueue) <= 0
        BY <3>1, <4>2 DEF SleepingWorkersNotNeeded, WaitingWorkers
      <4> QED
        BY <2>1, <4>3
    <3>2. CASE \A w \in Workers : pc[w] = "exited"
      BY <3>2, StreamsAssumption DEF WakeInv, StopInv, DestructionInv
    <3> QED
      BY <3>1, <3>2
  <2>4. pc[Owner] # "asleep"
    BY <2>3 DEF WakeInv, SleepersWillBeWoken, WillAnnounce
  <2>5. pc[Owner] = "joining" => \A w \in Workers : pc[w] = "exited"
    BY DEF WakeInv, StopInv, SleepersWillBeWoken
  <2> QED
    BY <2>1, <2>2, <2>3, <2>4, <2>5 DEF OwnerPcs
<1> QED
  BY <1>1, InvariantHolds, WakeInvHolds, PTL

-----------------------------------------------------------------------------
(* The executor implements TaskQueue.                                      *)

Active == {currentTask[w] : w \in Holding}
Closed == pc[Owner] = "done"

\* What is active depends on currentTask alone.
ActiveFollows == Active = {k \in Tasks : \E w \in Workers : currentTask[w] = k}

LEMMA ActiveIs == ControlInv => ActiveFollows
BY StreamsAssumption DEF ControlInv, TypeOK, HoldersHaveTasks, Active, Holding, ActiveFollows

LEMMA ActiveIsNext == ControlInv' => ActiveFollows'
BY ActiveIs, PTL

\* A worker without a task leaves room for one more.
LEMMA RoomForOne ==
    ASSUME ControlInv, NEW w \in Workers, w \notin Holding
    PROVE  Cardinality(Active) < Cardinality(Workers)
<1> DEFINE others == Workers \ {w}
           f == [v \in Holding |-> currentTask[v]]
<1>1. Holding \in SUBSET Workers /\ Holding \subseteq others
  BY DEF Holding
<1>2. /\ IsFiniteSet(others) /\ Cardinality(others) \in Nat
      /\ IsFiniteSet(Holding) /\ Cardinality(Holding) \in Nat
  BY <1>1, CountedSetsFinite
<1>3. Cardinality(Holding) <= Cardinality(others)
  BY <1>1, <1>2, FS_Subset
<1>4. Cardinality(others) = Cardinality(Workers) - 1
  BY OneLess, StreamsAssumption
<1>5. f \in Surjection(Holding, Active)
  BY DEF Surjection, Active
<1>6. IsFiniteSet(Active) /\ Cardinality(Active) <= Cardinality(Holding)
  BY <1>2, <1>5, FS_Surjection
<1>7. Cardinality(Active) \in Nat /\ Cardinality(Workers) \in Nat
  BY <1>6, FS_CardinalityType, CountedSetsFinite
<1> QED
  BY <1>2, <1>3, <1>4, <1>6, <1>7

\* The steps of which TaskQueue sees nothing.
LEMMA UnseenStutters ==
    ASSUME ControlInv, ControlInv', UNCHANGED <<taskQueue, currentTask, Closed>>
    PROVE  UNCHANGED Abstract!queueVars
<1>1. Active' = Active
  BY ActiveIs, ActiveIsNext DEF ActiveFollows
<1> QED
  BY <1>1 DEF Abstract!queueVars, Active, Closed

\* A notification never reaches a destructor that has returned, and ends none.
LEMMA NotificationKeepsClosed ==
    ASSUME ControlInv, NEW woken,
           woken \in NotifyAll(Sleepers) \/ woken \in NotifyOne(Sleepers)
    PROVE  Awake(pc, woken)[Owner] = "done" <=> pc[Owner] = "done"
BY Notified DEF Threads

LEMMA StepIsAbstract == IInv /\ IInv' /\ [Next]_vars => [Abstract!Next]_(Abstract!queueVars)
<1> SUFFICES ASSUME IInv, IInv', [Next]_vars
             PROVE  Abstract!Next \/ UNCHANGED Abstract!queueVars
  OBVIOUS
<1>1. ControlInv /\ ControlInv' /\ TypeOK /\ Owner \in Threads /\ Owner \notin Workers
      /\ Workers \subseteq Threads
  BY StreamsAssumption DEF IInv, ControlInv, Threads
<1>2. ASSUME NEW c \in Clients, Push(c) PROVE Abstract!Next
  <2>1. PICK k \in Tasks : /\ k = startingTask[c] /\ k # None
                           /\ taskQueue' = Append(taskQueue, k) /\ currentTask' = currentTask
    BY <1>1, <1>2 DEF Push, PushBack, localVars, TypeOK
  <2>2. ~Closed /\ ~Closed'
    <3>1. pc[Owner] # "done"
      BY <1>1, <1>2 DEF Push, ControlInv, StartsOnlyWhenLoaded, StartingClients
    <3> QED
      BY <1>1, <1>2, <3>1, NotificationKeepsClosed DEF Push, WokenByPush, Closed
  <2>3. \A i \in 1..Len(taskQueue) : taskQueue[i] # k
    BY <2>1 DEF IInv, BusyInv, PendingOnce
  <2>4. k \notin Active /\ Active' = Active
    <3>1. \A w \in Workers : currentTask[w] # k
      BY <2>1 DEF IInv, BusyInv, PendingOnce
    <3> QED
      BY <1>1, <2>1, <3>1, ActiveIs, ActiveIsNext DEF ActiveFollows
  <2>5. Abstract!Accept(k)
    BY <2>1, <2>2, <2>3, <2>4 DEF Abstract!Accept, Abstract!Waiting, Active, Closed
  <2> QED
    BY <2>1, <2>5 DEF Abstract!Next
<1>3. ASSUME NEW w \in Workers, WorkerTake(w) PROVE Abstract!Next
  <2>1. /\ currentTask' = [currentTask EXCEPT ![w] = Head(taskQueue)]
        /\ taskQueue # <<>> /\ taskQueue' = Tail(taskQueue) /\ Head(taskQueue) \in Tasks
        /\ pc[w] = "waiting" /\ pc' = [pc EXCEPT ![w] = "taken"]
    BY <1>1, <1>3 DEF WorkerTake, FrontPopped, TypeOK
  <2>2. w \notin Holding /\ currentTask[w] = None
    BY <1>1, <2>1 DEF Holding, ControlInv, HoldersHaveTasks
  <2>3. Active' = Active \cup {Head(taskQueue)}
    <3>1. \A k \in Tasks : (\E v \in Workers : currentTask'[v] = k)
                             <=> (\E v \in Workers : currentTask[v] = k) \/ k = Head(taskQueue)
      BY <1>1, <2>1, <2>2, StreamsAssumption DEF TypeOK
    <3> QED
      BY <1>1, <2>1, <3>1, ActiveIs, ActiveIsNext DEF ActiveFollows
  <2>4. UNCHANGED Closed
    BY <1>1, <2>1 DEF Closed, TypeOK
  <2>5. Cardinality(Active) < Cardinality(Workers)
    BY <1>1, <2>2, RoomForOne
  <2>6. Abstract!Begin
    <3>1. Abstract!Cardinality(Active) = Cardinality(Active)
      BY DEF Abstract!Cardinality, Cardinality
    <3>2. Abstract!Cardinality(Active) < Cardinality(Workers)
      BY ONLY <2>5, <3>1
    <3> QED
      BY <2>1, <2>3, <2>4, <3>2, Zenon DEF Abstract!Begin, Active, Closed
  <2> QED
    BY <2>6 DEF Abstract!Next
<1>4. ASSUME NEW w \in Workers, WorkerRun(w) PROVE Abstract!Next
  <2>1. /\ currentTask' = [currentTask EXCEPT ![w] = None] /\ taskQueue' = taskQueue
        /\ pc[w] = "running" /\ pc' = [pc EXCEPT ![w] = "ended"]
    BY <1>4 DEF WorkerRun
  <2>2. PICK k \in Tasks : k = currentTask[w] /\ k # None
    BY <1>1, <2>1 DEF Holding, ControlInv, HoldersHaveTasks, TypeOK
  <2>3. k \in Active /\ Active' = Active \ {k}
    <3>1. \A j \in Tasks : (\E v \in Workers : currentTask'[v] = j)
                             <=> (\E v \in Workers : currentTask[v] = j) /\ j # k
      <4>1. \A v \in Workers : currentTask[v] = k => v = w
        BY <2>2 DEF IInv, BusyInv, PendingOnce
      <4> QED
        BY <1>1, <2>1, <2>2, <4>1, StreamsAssumption DEF TypeOK
    <3> QED
      BY <1>1, <2>2, <3>1, ActiveIs, ActiveIsNext DEF ActiveFollows
  <2>4. UNCHANGED Closed
    BY <1>1, <2>1 DEF Closed, TypeOK
  <2>5. Abstract!Finish(k)
    BY <2>1, <2>3, <2>4 DEF Abstract!Finish, Active, Closed
  <2> QED
    BY <2>2, <2>5 DEF Abstract!Next
<1>5. CASE DtorJoin
  <2>1. /\ pc[Owner] = "joining" /\ pc'[Owner] = "done" /\ UNCHANGED <<taskQueue, currentTask>>
        /\ \A w \in Workers : pc[w] = "exited"
    BY <1>1, <1>5 DEF DtorJoin, localVars, TypeOK
  <2>2. taskQueue = <<>>
    BY <2>1 DEF IInv, DestructionInv
  <2>3. Active = {} /\ Active' = {}
    <3>1. Active = {}
      BY <2>1 DEF Active, Holding
    <3> QED
      BY <1>1, <2>1, <3>1, ActiveIs, ActiveIsNext DEF ActiveFollows
  <2>4. Abstract!Close
    BY <2>1, <2>2, <2>3 DEF Abstract!Close, Active, Closed
  <2> QED
    BY <2>4 DEF Abstract!Next
<1>6. ASSUME NEW w \in Workers,
             Initialise(w) \/ CountInitialised(w) \/ WorkerTest(w) \/ WorkerSleep(w)
               \/ WorkerBegin(w) \/ WorkerEnds(w)
      PROVE  UNCHANGED <<taskQueue, currentTask, Closed>>
  BY <1>1, <1>6 DEF Initialise, CountInitialised, WorkerTest, WorkerSleep, WorkerBegin, WorkerEnds,
     localVars, Closed, TypeOK
<1>7. ASSUME NEW w \in Workers, WorkerNotify(w)
      PROVE  UNCHANGED <<taskQueue, currentTask, Closed>>
  <2>1. PICK woken \in NotifyAll(Sleepers) : pc' = [Awake(pc, woken) EXCEPT ![w] = "testing"]
    BY <1>7 DEF WorkerNotify, WokenAfterLast
  <2>2. pc'[Owner] = Awake(pc, woken)[Owner]
    BY <1>1, <2>1 DEF Awake
  <2> QED
    BY <1>1, <1>7, <2>2, NotificationKeepsClosed DEF WorkerNotify, localVars, Closed
<1>8. CASE ConstructorReturns \/ DtorBegin \/ DtorSleep \/ DtorStop
  <2>1. pc[Owner] # "done" /\ pc'[Owner] # "done"
    BY <1>1, <1>8 DEF ConstructorReturns, DtorBegin, DtorSleep, DtorStop, Awake, TypeOK
  <2>2. UNCHANGED <<taskQueue, currentTask>>
    BY <1>8 DEF ConstructorReturns, DtorBegin, DtorSleep, DtorStop, localVars
  <2>3. UNCHANGED <<taskQueue, currentTask, Closed>>
    BY <2>1, <2>2 DEF Closed
  <2> QED
    BY <1>1, <2>3, UnseenStutters
<1>9. ASSUME NEW t \in Threads, SpuriousWakeup(t)
      PROVE  UNCHANGED <<taskQueue, currentTask, Closed>>
  BY <1>1, <1>9 DEF SpuriousWakeup, localVars, Closed, TypeOK
<1>10. ASSUME NEW c \in Clients, NEW k \in Tasks, Occupy(c, k)
       PROVE  UNCHANGED <<taskQueue, currentTask, Closed>>
  BY <1>10 DEF Occupy, localVars, Closed
<1>11. UNCHANGED vars => UNCHANGED <<taskQueue, currentTask, Closed>>
  BY DEF vars, Closed
<1>12. CASE OthersPush \/ OthersBegin
  <2>1. UNCHANGED <<taskQueue, currentTask, Closed>>
    BY <1>12 DEF OthersPush, OthersBegin, othersVars, localVars, Closed
  <2> QED
    BY <1>1, <2>1, UnseenStutters
<1> QED
  BY <1>1, <1>2, <1>3, <1>4, <1>5, <1>6, <1>7, <1>8, <1>9, <1>10, <1>11, <1>12, UnseenStutters
     DEF Next, WorkerStep, OwnerStep

(* The streams implement the queue of TaskQueue, but for the fairness: no  *)
(* task is accepted twice, tasks begin in order and at most one on each    *)
(* stream, and the executor closes when all have been run.                 *)
THEOREM StreamsAreATaskQueue == Spec => Abstract!Init /\ [][Abstract!Next]_(Abstract!queueVars)
<1>1. Init => Abstract!Init
  BY StreamsAssumption DEF Init, Abstract!Init, Holding, Threads
<1> QED
  BY <1>1, StepIsAbstract, InvariantHolds, PTL DEF Spec
=============================================================================
