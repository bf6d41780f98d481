------------------------- MODULE TaskExecutorProofs -------------------------
(***************************************************************************)
(* Proofs about TaskExecutor for every number of tasks, clients and        *)
(* starts: the status BUSY stands for one pending run, the destructor      *)
(* loses nothing, no wake-up is lost and nobody waits for everybody.       *)
(*                                                                         *)
(* The argument: a task on its way, between occupy() and push() or in the  *)
(* queue and not run, is BUSY, so occupy() refuses it and it is there      *)
(* once.  The front of the queue leaves the queue after its status is      *)
(* final; Unfinished is the queue without such a front.  No client is in   *)
(* startTask() once the destructor has begun, so the queue that it has     *)
(* found empty stays empty.                                                *)
(***************************************************************************)
EXTENDS TaskExecutor, FiniteSetTheorems, TLAPS

IsPushing(c) == clientPc[c] = "pushing"

\* Who pushes has a task, and the worker leaves its task at the front.
ControlInv ==
    /\ TypeOK
    /\ \A c \in Clients : IsPushing(c) => clientTask[c] \in Tasks
    /\ worker \in {"running", "notifying", "popping"} => taskQueue # <<>>

PendingIsBusy ==
    /\ \A c \in Clients : IsPushing(c) => status[clientTask[c]] = "BUSY"
    /\ \A i \in 1..Len(Unfinished) : status[Unfinished[i]] = "BUSY"

BusyIsPending ==
    \A k \in Tasks : status[k] = "BUSY" =>
        \/ \E c \in Clients : IsPushing(c) /\ clientTask[c] = k
        \/ \E i \in 1..Len(Unfinished) : Unfinished[i] = k

PendingOnce ==
    /\ \A c, d \in Clients : IsPushing(c) /\ IsPushing(d) /\ clientTask[c] = clientTask[d] => c = d
    /\ \A i, j \in 1..Len(Unfinished) : Unfinished[i] = Unfinished[j] => i = j
    /\ \A c \in Clients, i \in 1..Len(Unfinished) : IsPushing(c) => Unfinished[i] # clientTask[c]

BusyInv == PendingIsBusy /\ BusyIsPending /\ PendingOnce

DtorInv ==
    /\ dtor # "none" => \A c \in Clients : ~IsPushing(c)
    /\ dtor \in {"joining", "done"} => taskQueue = <<>>
    /\ dtor = "done" => worker = "exited"

IInv == ControlInv /\ BusyInv /\ DtorInv

-----------------------------------------------------------------------------
(* Control                                                                 *)

LEMMA ControlNext == ControlInv /\ [Next]_vars => ControlInv'
<1> SUFFICES ASSUME ControlInv, [Next]_vars PROVE ControlInv'
  OBVIOUS
<1> USE ExecutorAssumption DEF ControlInv, TypeOK, IsPushing, Statuses, Finished, WorkerPcs,
        ClientPcs, DtorPcs
<1>1. CASE UNCHANGED vars
  BY <1>1 DEF vars
<1>2. CASE WorkerTest
  BY <1>2 DEF WorkerTest, taskVars, clientVars
<1>3. CASE WorkerTake
  BY <1>3 DEF WorkerTake, taskVars, clientVars
<1>4. CASE WorkerRun
  BY <1>4 DEF WorkerRun, clientVars
<1>5. CASE WorkerNotify
  BY <1>5 DEF WorkerNotify, WokenWaiters, taskVars
<1>6. CASE WorkerPop
  <2>1. Tail(taskQueue) \in Seq(Tasks)
    BY <1>6 DEF WorkerPop
  <2> QED
    BY <1>6, <2>1 DEF WorkerPop, DtorWoken, taskVars, clientVars
<1>7. CASE DtorBegin \/ DtorStop \/ DtorJoin \/ SpuriousWakeup
  BY <1>7 DEF DtorBegin, DtorStop, DtorMayStop, DtorJoin, SpuriousWakeup, taskVars, clientVars
<1>8. ASSUME NEW c \in Clients, Push(c) PROVE ControlInv'
  <2>1. clientTask[c] \in Tasks
    BY <1>8 DEF Push
  <2>2. Append(taskQueue, clientTask[c]) \in Seq(Tasks)
        /\ Append(taskQueue, clientTask[c]) # <<>>
    BY <2>1
  <2> QED
    BY <1>8, <2>2 DEF Push, PushBack, taskVars
<1>9. ASSUME NEW c \in Clients, WaitTest(c) \/ WaitReturn(c) \/ WaitInterrupted(c) PROVE ControlInv'
  BY <1>9 DEF WaitTest, WaitReturn, WaitInterrupted, taskVars
<1>10. ASSUME NEW c \in Clients, NEW k \in Tasks, Occupy(c, k) PROVE ControlInv'
  BY <1>10 DEF Occupy, CanOccupy
<1>11. ASSUME NEW c \in Clients, NEW k \in Tasks, NEW f \in BOOLEAN, WaitBegin(c, k, f) PROVE ControlInv'
  BY <1>11 DEF WaitBegin
<1> QED
  BY <1>1, <1>2, <1>3, <1>4, <1>5, <1>6, <1>7, <1>8, <1>9, <1>10, <1>11
     DEF Next, WorkerStep, DtorStep, WaitStep

-----------------------------------------------------------------------------
(* What is accepted and not run yet                                        *)

\* Without the front that has been run, it is a sequence of tasks.
LEMMA UnfinishedType ==
    ASSUME ControlInv
    PROVE  Unfinished \in Seq(Tasks)
BY DEF ControlInv, TypeOK, Unfinished, Executed

\* push() appends to it, whether or not the front has been run.
LEMMA UnfinishedGrows ==
    ASSUME ControlInv, NEW c \in Clients, Push(c)
    PROVE  Unfinished' = Append(Unfinished, clientTask[c])
<1> DEFINE q == taskQueue
           k == clientTask[c]
<1>1. /\ q \in Seq(Tasks) /\ k \in Tasks /\ taskQueue' = Append(q, k)
      /\ Executed => q # <<>>
      /\ Executed' <=> Executed
  BY DEF ControlInv, TypeOK, Executed, Push, PushBack, IsPushing
<1>2. q # <<>> => Tail(Append(q, k)) = Append(Tail(q), k)
  BY <1>1
<1> QED
  BY <1>1, <1>2 DEF Unfinished

\* The steps that are about other things leave it, and who pushes, alone.
LEMMA BusyKept ==
    ASSUME BusyInv, UNCHANGED status, Unfinished' = Unfinished,
           \A c \in Clients : /\ IsPushing(c)' <=> IsPushing(c)
                              /\ IsPushing(c) => clientTask'[c] = clientTask[c]
    PROVE  BusyInv'
<1>1. PendingIsBusy'
  BY DEF BusyInv, PendingIsBusy
<1>2. BusyIsPending'
  BY DEF BusyInv, BusyIsPending
<1>3. PendingOnce'
  BY DEF BusyInv, PendingOnce
<1> QED
  BY <1>1, <1>2, <1>3 DEF BusyInv
LEMMA BusyNext == ControlInv /\ BusyInv /\ [Next]_vars => BusyInv'
<1> SUFFICES ASSUME ControlInv, BusyInv, [Next]_vars PROVE BusyInv'
  OBVIOUS
<1> DEFINE U == Unfinished
<1>0. U \in Seq(Tasks)
  BY UnfinishedType
<1>1. CASE UNCHANGED vars
  BY <1>1, BusyKept DEF vars, Unfinished, Executed, IsPushing
<1>2. CASE WorkerTest \/ WorkerTake
  BY <1>2, BusyKept DEF WorkerTest, WorkerTake, taskVars, clientVars, Unfinished, Executed, IsPushing
<1>3. CASE WorkerNotify
  BY <1>3, BusyKept DEF WorkerNotify, WokenWaiters, taskVars, Unfinished, Executed, IsPushing
<1>4. CASE WorkerPop
  BY <1>4, BusyKept DEF WorkerPop, taskVars, clientVars, Unfinished, Executed, IsPushing
<1>5. CASE DtorBegin \/ DtorStop \/ DtorJoin \/ SpuriousWakeup
  BY <1>5, BusyKept DEF DtorBegin, DtorStop, DtorJoin, SpuriousWakeup, taskVars, clientVars,
                        Unfinished, Executed, IsPushing
<1>6. ASSUME NEW c \in Clients, WaitTest(c) \/ WaitReturn(c) \/ WaitInterrupted(c) PROVE BusyInv'
  BY <1>6, BusyKept DEF WaitTest, WaitReturn, WaitInterrupted, taskVars, Unfinished, Executed,
                        IsPushing, ControlInv, TypeOK
<1>7. ASSUME NEW c \in Clients, NEW k \in Tasks, NEW f \in BOOLEAN, WaitBegin(c, k, f) PROVE BusyInv'
  BY <1>7, BusyKept DEF WaitBegin, Unfinished, Executed, IsPushing, ControlInv, TypeOK
<1>8. ASSUME NEW c \in Clients, NEW k \in Tasks, Occupy(c, k) PROVE BusyInv'
  <2>1. /\ status[k] # "BUSY" /\ ~IsPushing(c) /\ status' = [status EXCEPT ![k] = "BUSY"]
        /\ status \in [Tasks -> Statuses]
        /\ U' = U
        /\ IsPushing(c)' /\ clientTask'[c] = k
        /\ \A d \in Clients \ {c} : /\ IsPushing(d)' <=> IsPushing(d)
                                    /\ clientTask'[d] = clientTask[d]
        /\ \A d \in Clients : IsPushing(d) => clientTask[d] \in Tasks
    BY <1>8 DEF Occupy, CanOccupy, IsPushing, ControlInv, TypeOK, Unfinished, Executed
  <2>2. /\ \A d \in Clients : IsPushing(d) => clientTask[d] # k
        /\ \A i \in 1..Len(U) : U[i] \in Tasks /\ U[i] # k
    BY <1>0, <2>1 DEF BusyInv, PendingIsBusy
  <2> HIDE DEF U
  <2>3. PendingIsBusy'
    BY <2>1, <2>2 DEF BusyInv, PendingIsBusy, U
  <2>4. BusyIsPending'
    BY <2>1, <2>2 DEF BusyInv, BusyIsPending, U
  <2>5. PendingOnce'
    BY <2>1, <2>2 DEF BusyInv, PendingOnce, U
  <2> QED
    BY <2>3, <2>4, <2>5 DEF BusyInv
<1>9. ASSUME NEW c \in Clients, Push(c) PROVE BusyInv'
  <2> DEFINE k == clientTask[c]
  <2>1. /\ IsPushing(c) /\ k \in Tasks /\ status' = status
        /\ ~IsPushing(c)'
        /\ \A d \in Clients \ {c} : /\ IsPushing(d)' <=> IsPushing(d)
                                    /\ clientTask'[d] = clientTask[d]
    BY <1>9 DEF Push, IsPushing, ControlInv, TypeOK, taskVars
  <2>2. U' = Append(U, k)
    BY <1>9, UnfinishedGrows
  <2>3. /\ Len(U') = Len(U) + 1 /\ U'[Len(U) + 1] = k /\ Len(U) \in Nat
        /\ \A i \in 1..Len(U) : U'[i] = U[i]
    BY <1>0, <2>1, <2>2
  <2>4. \A i \in 1..Len(U') : i \in 1..Len(U) \/ i = Len(U) + 1
    BY <2>3
  <2>5. \A i \in 1..Len(U) : i # Len(U) + 1 /\ i \in 1..Len(U')
    BY <2>3
  <2>6. Len(U) + 1 \in 1..Len(U')
    BY <2>3
  <2> DEFINE n == Len(U) + 1
  <2> HIDE DEF U, n
  <2>7. PendingIsBusy'
    BY <2>1, <2>3, <2>4 DEF BusyInv, PendingIsBusy, U, n
  <2>8. BusyIsPending'
    <3> SUFFICES ASSUME NEW b \in Tasks, status[b] = "BUSY"
                 PROVE  \/ \E d \in Clients : IsPushing(d)' /\ clientTask'[d] = b
                        \/ \E i \in 1..Len(U') : U'[i] = b
      BY <2>1 DEF BusyIsPending, U
    <3>1. CASE b = k
      BY <2>3, <2>6, <3>1
    <3>2. CASE b # k
      <4>1. \/ \E d \in Clients : IsPushing(d) /\ clientTask[d] = b
            \/ \E i \in 1..Len(U) : U[i] = b
        BY DEF BusyInv, BusyIsPending, U
      <4> QED
        BY <2>1, <2>3, <2>5, <3>2, <4>1
    <3> QED
      BY <3>1, <3>2
  <2>9. PendingOnce'
    <3>1. \A d, e \in Clients : IsPushing(d)' /\ IsPushing(e)' /\ clientTask'[d] = clientTask'[e] => d = e
      BY <2>1 DEF BusyInv, PendingOnce
    <3>2. \A i, j \in 1..Len(U') : U'[i] = U'[j] => i = j
      BY <2>1, <2>3, <2>4 DEF BusyInv, PendingOnce, U
    <3>3. \A d \in Clients, i \in 1..Len(U') : IsPushing(d)' => U'[i] # clientTask'[d]
      BY <2>1, <2>3, <2>4 DEF BusyInv, PendingOnce, U
    <3> QED
      BY <3>1, <3>2, <3>3 DEF PendingOnce, U
  <2> QED
    BY <2>7, <2>8, <2>9 DEF BusyInv
<1>10. CASE WorkerRun
  <2> PICK outcome \in Finished : status' = [status EXCEPT ![Head(taskQueue)] = outcome]
    BY <1>10 DEF WorkerRun
  <2>1. /\ taskQueue \in Seq(Tasks) /\ taskQueue # <<>>
        /\ U = taskQueue /\ U' = Tail(taskQueue)
        /\ status \in [Tasks -> Statuses]
        /\ \A d \in Clients : /\ IsPushing(d)' <=> IsPushing(d)
                              /\ clientTask'[d] = clientTask[d]
                              /\ IsPushing(d) => clientTask[d] \in Tasks
    BY <1>10 DEF WorkerRun, clientVars, ControlInv, TypeOK, Unfinished, Executed, IsPushing
  <2> DEFINE h == Head(taskQueue)
  <2>2. /\ Len(U) \in Nat /\ 1 \in 1..Len(U) /\ U[1] = h /\ Len(U') = Len(U) - 1
        /\ \A i \in 1..Len(U') : U'[i] = U[i + 1] /\ i + 1 \in 1..Len(U) /\ i + 1 # 1
        /\ \A i \in 1..Len(U) : U[i] \in Tasks
    BY <2>1
  <2>3. \A i \in 1..Len(U) : i # 1 => i - 1 \in 1..Len(U') /\ U'[i - 1] = U[i]
    BY <2>1
  <2>4. /\ h \in Tasks /\ status'[h] # "BUSY"
        /\ \A b \in Tasks : b # h => status'[b] = status[b]
    BY <2>1, <2>2 DEF Finished
  <2> HIDE DEF U, h
  <2>5. \A i \in 1..Len(U') : U'[i] # h
    BY <2>2 DEF BusyInv, PendingOnce, U
  <2>6. \A d \in Clients : IsPushing(d) => clientTask[d] # h
    BY <2>2 DEF BusyInv, PendingOnce, U
  <2>7. PendingIsBusy'
    <3>1. \A d \in Clients : IsPushing(d)' => status'[clientTask'[d]] = "BUSY"
      BY <2>1, <2>4, <2>6 DEF BusyInv, PendingIsBusy
    <3>2. \A i \in 1..Len(U') : status'[U'[i]] = "BUSY"
      <4> SUFFICES ASSUME NEW i \in 1..Len(U') PROVE status'[U'[i]] = "BUSY"
        OBVIOUS
      <4>1. i + 1 \in 1..Len(U) /\ U'[i] = U[i + 1]
        BY <2>2
      <4>2. U'[i] \in Tasks /\ status[U'[i]] = "BUSY"
        BY <2>2, <4>1 DEF BusyInv, PendingIsBusy, U
      <4> QED
        BY <2>4, <2>5, <4>2
    <3> QED
      BY <3>1, <3>2 DEF PendingIsBusy, U
  <2>8. BusyIsPending'
    <3> SUFFICES ASSUME NEW b \in Tasks, status'[b] = "BUSY"
                 PROVE  \/ \E d \in Clients : IsPushing(d)' /\ clientTask'[d] = b
                        \/ \E i \in 1..Len(U') : U'[i] = b
      BY DEF BusyIsPending, U
    <3>1. b # h /\ status[b] = "BUSY"
      BY <2>4
    <3>2. \/ \E d \in Clients : IsPushing(d) /\ clientTask[d] = b
          \/ \E i \in 1..Len(U) : U[i] = b
      BY <3>1 DEF BusyInv, BusyIsPending, U
    <3>3. CASE \E d \in Clients : IsPushing(d) /\ clientTask[d] = b
      BY <2>1, <3>3
    <3>4. CASE \E i \in 1..Len(U) : U[i] = b
      <4> PICK i \in 1..Len(U) : U[i] = b
        BY <3>4
      <4>1. i # 1
        BY <2>2, <3>1
      <4>2. i - 1 \in 1..Len(U') /\ U'[i - 1] = b
        BY <2>3, <4>1
      <4> QED
        BY <4>2
    <3> QED
      BY <3>2, <3>3, <3>4
  <2>9. PendingOnce'
    <3>1. \A d, e \in Clients : IsPushing(d)' /\ IsPushing(e)' /\ clientTask'[d] = clientTask'[e] => d = e
      BY <2>1 DEF BusyInv, PendingOnce
    <3>2. ASSUME NEW i \in 1..Len(U'), NEW j \in 1..Len(U'), U'[i] = U'[j] PROVE i = j
      <4>1. i + 1 = j + 1
        BY <2>2, <3>2 DEF BusyInv, PendingOnce, U
      <4> QED
        BY <4>1
    <3>3. \A d \in Clients, i \in 1..Len(U') : IsPushing(d)' => U'[i] # clientTask'[d]
      BY <2>1, <2>2 DEF BusyInv, PendingOnce, U
    <3> QED
      BY <3>1, <3>2, <3>3 DEF PendingOnce, U
  <2> QED
    BY <2>7, <2>8, <2>9 DEF BusyInv
<1> QED
  BY <1>1, <1>2, <1>3, <1>4, <1>5, <1>6, <1>7, <1>8, <1>9, <1>10
     DEF Next, WorkerStep, DtorStep, WaitStep

-----------------------------------------------------------------------------
(* The destructor                                                          *)

LEMMA DtorNext == ControlInv /\ DtorInv /\ [Next]_vars => DtorInv'
<1> SUFFICES ASSUME ControlInv, DtorInv, [Next]_vars PROVE DtorInv'
  OBVIOUS
<1> USE DEF ControlInv, TypeOK, DtorInv, IsPushing
<1>1. CASE UNCHANGED vars
  BY <1>1 DEF vars
<1>2. CASE WorkerTest \/ WorkerTake
  BY <1>2 DEF WorkerTest, WorkerTake, taskVars, clientVars
<1>3. CASE WorkerRun \/ WorkerNotify
  BY <1>3 DEF WorkerRun, WorkerNotify, WokenWaiters, taskVars, clientVars
<1>4. CASE WorkerPop
  BY <1>4 DEF WorkerPop, DtorWoken, taskVars, clientVars
<1>5. CASE DtorBegin \/ DtorStop \/ DtorJoin \/ SpuriousWakeup
  BY <1>5 DEF DtorBegin, DtorStop, DtorMayStop, DtorJoin, SpuriousWakeup, taskVars, clientVars
<1>6. ASSUME NEW c \in Clients, Push(c) PROVE DtorInv'
  BY <1>6 DEF Push, taskVars, DtorPcs
<1>7. ASSUME NEW c \in Clients, WaitTest(c) \/ WaitReturn(c) \/ WaitInterrupted(c) PROVE DtorInv'
  BY <1>7 DEF WaitTest, WaitReturn, WaitInterrupted, taskVars
<1>8. ASSUME NEW c \in Clients, NEW k \in Tasks, Occupy(c, k) PROVE DtorInv'
  BY <1>8 DEF Occupy
<1>9. ASSUME NEW c \in Clients, NEW k \in Tasks, NEW f \in BOOLEAN, WaitBegin(c, k, f) PROVE DtorInv'
  BY <1>9 DEF WaitBegin
<1> QED
  BY <1>1, <1>2, <1>3, <1>4, <1>5, <1>6, <1>7, <1>8, <1>9
     DEF Next, WorkerStep, DtorStep, WaitStep

-----------------------------------------------------------------------------
LEMMA InitIInv == Init => IInv
<1> SUFFICES ASSUME Init PROVE IInv
  OBVIOUS
<1>1. ControlInv
  <2>1. status \in [Tasks -> Statuses] /\ clientPc \in [Clients -> ClientPcs]
    BY DEF Init, Statuses, ClientPcs
  <2>2. taskQueue \in Seq(Tasks)
    BY DEF Init
  <2>3. TypeOK
    BY <2>1, <2>2 DEF Init, TypeOK, WorkerPcs, DtorPcs
  <2> QED
    BY <2>3 DEF Init, ControlInv, IsPushing
<1>2. Unfinished = <<>>
  BY DEF Init, Unfinished, Executed
<1>3. BusyInv
  BY <1>2 DEF Init, BusyInv, PendingIsBusy, BusyIsPending, PendingOnce, IsPushing
<1>4. DtorInv
  BY DEF Init, DtorInv, IsPushing
<1> QED
  BY <1>1, <1>3, <1>4 DEF IInv

\* The inductive invariant of the executor, from which the theorems below follow.
THEOREM ExecutorInvariant == Spec => []IInv
<1>1. IInv /\ [Next]_vars => IInv'
  BY ControlNext, BusyNext, DtorNext DEF IInv
<1> QED
  BY <1>1, InitIInv, PTL DEF Spec

\* The types of all variables: no place of the queue is ever empty.
THEOREM ExecutorTypeCorrect == Spec => []TypeOK
<1>1. IInv => TypeOK
  BY DEF IInv, ControlInv
<1> QED
  BY <1>1, ExecutorInvariant, PTL

\* The status BUSY, on which startTask() relies, means one pending run.
THEOREM ExecutorBusyPendingOnce == Spec => []BusyMeansOneStartPending
<1>1. IInv => BusyMeansOneStartPending
  <2> SUFFICES ASSUME IInv, NEW k \in Tasks
               PROVE  Cardinality({c \in Clients : clientPc[c] = "pushing" /\ clientTask[c] = k})
                        + Cardinality({i \in 1..Len(Unfinished) : Unfinished[i] = k})
                      = IF status[k] = "BUSY" THEN 1 ELSE 0
    BY DEF BusyMeansOneStartPending
  <2> DEFINE P == {c \in Clients : clientPc[c] = "pushing" /\ clientTask[c] = k}
             Q == {i \in 1..Len(Unfinished) : Unfinished[i] = k}
  <2> SUFFICES Cardinality(P) + Cardinality(Q) = IF status[k] = "BUSY" THEN 1 ELSE 0
    OBVIOUS
  <2>2. CASE status[k] # "BUSY"
    <3>1. P = {} /\ Q = {}
      BY <2>2 DEF IInv, BusyInv, PendingIsBusy, IsPushing
    <3>2. Cardinality(P) = 0 /\ Cardinality(Q) = 0
      BY <3>1, FS_EmptySet
    <3> HIDE DEF P, Q
    <3> QED
      BY <2>2, <3>2
  <2>3. CASE status[k] = "BUSY"
    <3>1. ASSUME NEW c \in Clients, IsPushing(c), clientTask[c] = k
          PROVE  Cardinality(P) + Cardinality(Q) = 1
      <4>1. P = {c} /\ Q = {}
        BY <3>1 DEF IInv, BusyInv, PendingOnce, IsPushing
      <4>2. Cardinality(P) = 1 /\ Cardinality(Q) = 0
        BY <4>1, FS_EmptySet, FS_Singleton
      <4> HIDE DEF P, Q
      <4> QED
        BY <4>2
    <3>2. ASSUME NEW i \in 1..Len(Unfinished), Unfinished[i] = k
          PROVE  Cardinality(P) + Cardinality(Q) = 1
      <4>1. P = {} /\ Q = {i}
        BY <3>2 DEF IInv, BusyInv, PendingOnce, IsPushing
      <4>2. Cardinality(P) = 0 /\ Cardinality(Q) = 1
        BY <4>1, FS_EmptySet, FS_Singleton
      <4> HIDE DEF P, Q
      <4> QED
        BY <4>2
    <3> HIDE DEF P, Q
    <3> QED
      BY <2>3, <3>1, <3>2 DEF IInv, BusyInv, BusyIsPending
  <2> QED
    BY <2>2, <2>3
<1> QED
  BY <1>1, ExecutorInvariant, PTL

\* When the destructor has seen the queue empty, everything that was started
\* has been run, and when it returns its thread has gone.
THEOREM ExecutorDestructorLosesNothing == Spec => []NothingLostAtDestruction
<1>1. IInv => NothingLostAtDestruction
  <2> SUFFICES ASSUME IInv, dtor \in {"joining", "done"}
               PROVE  /\ taskQueue = <<>>
                      /\ \A k \in Tasks : status[k] # "BUSY"
                      /\ dtor = "done" => worker = "exited"
    BY DEF NothingLostAtDestruction
  <2>1. /\ taskQueue = <<>> /\ \A c \in Clients : ~IsPushing(c)
        /\ dtor = "done" => worker = "exited"
    BY DEF IInv, DtorInv
  <2>2. Unfinished = <<>>
    BY <2>1 DEF IInv, ControlInv, Unfinished, Executed
  <2> QED
    BY <2>1, <2>2 DEF IInv, BusyInv, BusyIsPending
<1> QED
  BY <1>1, ExecutorInvariant, PTL

-----------------------------------------------------------------------------
(* No wake-up is lost                                                      *)

\* Who is in a call has a task, the executor is stopped exactly when its
\* destructor joins the thread, and the thread leaves only then.
StopInv ==
    /\ \A c \in Clients : clientPc[c] # "idle" => clientTask[c] \in Tasks
    /\ isStopped <=> dtor \in {"joining", "done"}
    /\ worker = "exited" => isStopped

WakeInv == StopInv /\ SleepersWillBeWoken

\* push() leaves the front of the queue where it is.
LEMMA FrontKept ==
    ASSUME NEW q \in Seq(Tasks), NEW k \in Tasks
    PROVE  Append(q, k) # <<>> /\ (q # <<>> => Head(Append(q, k)) = Head(q))
<1>1. /\ Append(q, k) \in Seq(Tasks) /\ Len(Append(q, k)) = Len(q) + 1 /\ Len(q) \in Nat
      /\ \A i \in 1..Len(q) : Append(q, k)[i] = q[i]
  OBVIOUS
<1>2. Append(q, k) # <<>>
  BY <1>1
<1>3. ASSUME q # <<>> PROVE Head(Append(q, k)) = Head(q)
  <2>1. Len(q) > 0 /\ Head(q) = q[1] /\ 1 \in 1..Len(q)
    BY <1>3
  <2>2. Head(Append(q, k)) = Append(q, k)[1]
    BY <1>1, <1>2
  <2> QED
    BY <1>1, <2>1, <2>2
<1> QED
  BY <1>2, <1>3

LEMMA StopNext == ControlInv /\ StopInv /\ [Next]_vars => StopInv'
<1> SUFFICES ASSUME ControlInv, StopInv, [Next]_vars PROVE StopInv'
  OBVIOUS
<1> USE DEF ControlInv, TypeOK, StopInv
<1>1. CASE UNCHANGED vars
  BY <1>1 DEF vars
<1>2. CASE WorkerTest \/ WorkerTake
  BY <1>2 DEF WorkerTest, WorkerTake, taskVars, clientVars
<1>3. CASE WorkerRun \/ WorkerNotify
  BY <1>3 DEF WorkerRun, WorkerNotify, WokenWaiters, taskVars, clientVars
<1>4. CASE WorkerPop
  BY <1>4 DEF WorkerPop, DtorWoken, taskVars, clientVars
<1>5. CASE DtorBegin \/ DtorStop \/ DtorJoin \/ SpuriousWakeup
  BY <1>5 DEF DtorBegin, DtorStop, DtorMayStop, DtorJoin, SpuriousWakeup, taskVars, clientVars
<1>6. ASSUME NEW c \in Clients, Push(c) PROVE StopInv'
  BY <1>6 DEF Push, taskVars
<1>7. ASSUME NEW c \in Clients, WaitTest(c) PROVE StopInv'
  BY <1>7 DEF WaitTest, taskVars
<1>10. ASSUME NEW c \in Clients, WaitReturn(c) PROVE StopInv'
  BY <1>10 DEF WaitReturn
<1>11. ASSUME NEW c \in Clients, WaitInterrupted(c) PROVE StopInv'
  BY <1>11 DEF WaitInterrupted, taskVars
<1>8. ASSUME NEW c \in Clients, NEW k \in Tasks, Occupy(c, k) PROVE StopInv'
  BY <1>8 DEF Occupy
<1>9. ASSUME NEW c \in Clients, NEW k \in Tasks, NEW f \in BOOLEAN, WaitBegin(c, k, f) PROVE StopInv'
  BY <1>9 DEF WaitBegin
<1> QED
  BY <1>1, <1>2, <1>3, <1>4, <1>5, <1>6, <1>7, <1>8, <1>9, <1>10, <1>11
     DEF Next, WorkerStep, DtorStep, WaitStep

LEMMA SleepersNext == IInv /\ WakeInv /\ [Next]_vars => SleepersWillBeWoken'
<1> SUFFICES ASSUME IInv, WakeInv, [Next]_vars PROVE SleepersWillBeWoken'
  OBVIOUS
<1>0. /\ status \in [Tasks -> Statuses] /\ taskQueue \in Seq(Tasks)
      /\ clientPc \in [Clients -> ClientPcs] /\ clientTask \in [Clients -> Tasks \cup {None}]
      /\ \A c \in Clients : clientPc[c] # "idle" => clientTask[c] \in Tasks
      /\ isStopped <=> dtor \in {"joining", "done"}
      /\ dtor \in {"joining", "done"} => taskQueue = <<>>
      /\ dtor # "none" => \A c \in Clients : clientPc[c] # "pushing"
      /\ worker \in {"running", "notifying", "popping"} => taskQueue # <<>>
  BY DEF IInv, ControlInv, TypeOK, DtorInv, IsPushing, WakeInv, StopInv
<1> USE <1>0 DEF WakeInv, SleepersWillBeWoken
<1>1. CASE UNCHANGED vars
  BY <1>1 DEF vars
<1>2. CASE WorkerTest \/ WorkerTake
  BY <1>2 DEF WorkerTest, WorkerTake, taskVars, clientVars
<1>3. CASE WorkerRun
  BY <1>3 DEF WorkerRun, clientVars
<1>4. CASE WorkerNotify
  BY <1>4 DEF WorkerNotify, WokenWaiters, taskVars
<1>5. CASE WorkerPop
  BY <1>5 DEF WorkerPop, DtorWoken, taskVars, clientVars
<1>6. CASE DtorBegin \/ DtorStop \/ DtorJoin \/ SpuriousWakeup
  BY <1>6 DEF DtorBegin, DtorStop, DtorMayStop, DtorJoin, SpuriousWakeup, taskVars, clientVars
<1>7. ASSUME NEW c \in Clients, Push(c) PROVE SleepersWillBeWoken'
  <2>1. clientTask[c] \in Tasks /\ taskQueue \in Seq(Tasks)
    BY <1>7 DEF Push
  <2>2. /\ Append(taskQueue, clientTask[c]) # <<>>
        /\ taskQueue # <<>> => Head(Append(taskQueue, clientTask[c])) = Head(taskQueue)
    BY <2>1, FrontKept
  <2> QED
    BY <1>7, <2>2 DEF Push, PushBack, taskVars
<1>8. ASSUME NEW c \in Clients, WaitTest(c) \/ WaitReturn(c) \/ WaitInterrupted(c)
      PROVE  SleepersWillBeWoken'
  BY <1>8 DEF WaitTest, WaitReturn, WaitInterrupted, taskVars
<1>9. ASSUME NEW c \in Clients, NEW k \in Tasks, Occupy(c, k) PROVE SleepersWillBeWoken'
  BY <1>9 DEF Occupy
<1>10. ASSUME NEW c \in Clients, NEW k \in Tasks, NEW f \in BOOLEAN, WaitBegin(c, k, f)
       PROVE  SleepersWillBeWoken'
  BY <1>10 DEF WaitBegin
<1> QED
  BY <1>1, <1>2, <1>3, <1>4, <1>5, <1>6, <1>7, <1>8, <1>9, <1>10
     DEF Next, WorkerStep, DtorStep, WaitStep

\* The condition variables of the executor and of its tasks lose no wake-up:
\* who is asleep has something to wait for that is still to be announced.
THEOREM ExecutorLosesNoWakeup == Spec => []SleepersWillBeWoken
<1>1. Init => WakeInv
  BY DEF Init, WakeInv, StopInv, SleepersWillBeWoken
<1>2. IInv /\ WakeInv /\ [Next]_vars => WakeInv'
  BY StopNext, SleepersNext DEF IInv, WakeInv
<1>3. WakeInv => SleepersWillBeWoken
  BY DEF WakeInv
<1> QED
  BY <1>1, <1>2, <1>3, ExecutorInvariant, PTL DEF Spec

\* What the three liveness properties rest on: nobody is ever in a call, or
\* destroying the executor, or queued, with every thread asleep or gone.
THEOREM ExecutorDoesNotDeadlock == Spec => []SomebodyGoesOn
<1>1. Init => WakeInv
  BY DEF Init, WakeInv, StopInv, SleepersWillBeWoken
<1>2. IInv /\ WakeInv /\ [Next]_vars => WakeInv'
  BY StopNext, SleepersNext DEF IInv, WakeInv
<1>3. IInv /\ WakeInv => SomebodyGoesOn
  <2> SUFFICES ASSUME IInv, WakeInv PROVE SomebodyGoesOn
    OBVIOUS
  <2> SUFFICES ASSUME worker \in {"asleep", "exited"},
                      \A c \in Clients : clientPc[c] \in {"idle", "asleep"}
               PROVE  SomebodyGoesOn
    <3>1. \A c \in Clients : clientPc[c] \in ClientPcs
      BY DEF IInv, ControlInv, TypeOK
    <3> QED
      BY <3>1 DEF SomebodyGoesOn, ClientPcs
  <2>1. taskQueue = <<>> /\ Unfinished = <<>>
    BY DEF IInv, DtorInv, WakeInv, StopInv, SleepersWillBeWoken, Unfinished, Executed
  <2>2. \A k \in Tasks : status[k] # "BUSY"
    BY <2>1 DEF IInv, BusyInv, BusyIsPending, IsPushing
  <2>3. \A c \in Clients : clientPc[c] = "idle"
    BY <2>2 DEF WakeInv, StopInv, SleepersWillBeWoken
  <2>4. dtor \notin {"waiting", "asleep", "joining"} \/ dtor = "waiting"
        \/ (dtor = "joining" /\ worker = "exited")
    BY <2>1 DEF WakeInv, StopInv, SleepersWillBeWoken
  <2> QED
    BY <2>1, <2>3, <2>4 DEF SomebodyGoesOn
<1> QED
  BY <1>1, <1>2, <1>3, ExecutorInvariant, PTL DEF Spec

-----------------------------------------------------------------------------
(* The abstract queue                                                      *)

Todo == IF worker = "running" THEN Tail(taskQueue) ELSE Unfinished

Active == IF worker = "running" THEN {Head(taskQueue)} ELSE {}

\* A step that the queue of TaskQueue does not see.
Unseen == Todo' = Todo /\ Active' = Active /\ (dtor' = "done" <=> dtor = "done")

LEMMA UnseenStutters == Unseen => UNCHANGED Abstract!queueVars
BY DEF Unseen, Todo, Active, Abstract!queueVars

LEMMA StepIsAbstract == IInv /\ [Next]_vars => [Abstract!Next]_(Abstract!queueVars)
<1> SUFFICES ASSUME IInv, [Next]_vars PROVE Abstract!Next \/ UNCHANGED Abstract!queueVars
  OBVIOUS
<1> USE DEF Todo, Active
<1>0. /\ taskQueue \in Seq(Tasks)
      /\ worker \in {"running", "notifying", "popping"} => taskQueue # <<>>
  BY DEF IInv, ControlInv, TypeOK
<1>1. CASE UNCHANGED vars
  <2>1. Unseen
    BY <1>1 DEF vars, Unseen, Unfinished, Executed
  <2> QED
    BY <2>1, UnseenStutters
<1>2. CASE WorkerTest \/ WorkerNotify \/ WorkerPop
  <2>1. Unseen
    BY <1>2 DEF WorkerTest, WorkerNotify, WorkerPop, DtorWoken, taskVars, clientVars, Unseen,
                Unfinished, Executed
  <2> QED
    BY <2>1, UnseenStutters
<1>3. CASE DtorBegin \/ DtorStop \/ SpuriousWakeup
  <2>1. Unseen
    BY <1>3 DEF DtorBegin, DtorStop, SpuriousWakeup, taskVars, clientVars, Unseen, Unfinished, Executed
  <2> QED
    BY <2>1, UnseenStutters
<1>4. ASSUME NEW c \in Clients, WaitTest(c) \/ WaitReturn(c) \/ WaitInterrupted(c) PROVE Unseen
  BY <1>4 DEF WaitTest, WaitReturn, WaitInterrupted, taskVars, Unseen, Unfinished, Executed
<1>5. ASSUME NEW c \in Clients, NEW k \in Tasks, NEW f \in BOOLEAN,
             Occupy(c, k) \/ WaitBegin(c, k, f)
      PROVE  Unseen
  BY <1>5 DEF Occupy, WaitBegin, Unseen, Unfinished, Executed
<1>6. ASSUME NEW c \in Clients, Push(c) PROVE Abstract!Next
  <2> DEFINE k == clientTask[c]
  <2>1. /\ IsPushing(c) /\ k \in Tasks /\ dtor = "none" /\ dtor' = dtor
        /\ taskQueue' = Append(taskQueue, k)
        /\ worker' = "running" <=> worker = "running"
    BY <1>6 DEF Push, PushBack, IInv, ControlInv, DtorInv, IsPushing, TypeOK, DtorPcs
  <2>2. Unfinished' = Append(Unfinished, k) /\ Unfinished \in Seq(Tasks)
    BY <1>6, UnfinishedGrows, UnfinishedType DEF IInv
  <2>3. \A i \in 1..Len(Unfinished) : Unfinished[i] # k
    BY <2>1 DEF IInv, BusyInv, PendingOnce
  <2>4. CASE worker = "running"
    <3>1. /\ taskQueue # <<>> /\ Unfinished = taskQueue
          /\ Head(taskQueue) = taskQueue[1] /\ 1 \in 1..Len(taskQueue)
      BY <1>0, <2>4 DEF Executed, Unfinished
    <3>2. /\ Todo = Tail(taskQueue) /\ Todo' = Append(Tail(taskQueue), k)
          /\ Active = {Head(taskQueue)} /\ Active' = Active
      BY <1>0, <2>1, <2>4, <3>1
    <3>3. k \notin Active
      BY <2>3, <3>1, <3>2
    <3>4. ASSUME NEW i \in 1..Len(Todo) PROVE Todo[i] # k
      <4>1. Todo[i] = taskQueue[i + 1] /\ i + 1 \in 1..Len(taskQueue)
        BY <1>0, <3>1, <3>2
      <4> QED
        BY <2>3, <3>1, <4>1
    <3>5. Abstract!Accept(k)
      BY <2>1, <3>2, <3>3, <3>4 DEF Abstract!Accept, Abstract!Waiting
    <3> QED
      BY <2>1, <3>5 DEF Abstract!Next
  <2>5. CASE worker # "running"
    <3>1. Todo = Unfinished /\ Todo' = Append(Unfinished, k) /\ Active = {} /\ Active' = {}
      BY <2>1, <2>2, <2>5
    <3>2. Abstract!Accept(k)
      BY <2>1, <2>3, <3>1 DEF Abstract!Accept, Abstract!Waiting
    <3> QED
      BY <2>1, <3>2 DEF Abstract!Next
  <2> QED
    BY <2>4, <2>5
<1>7. CASE WorkerTake
  <2>1. CASE taskQueue = <<>>
    <3>1. Unseen
      BY <1>7, <2>1 DEF WorkerTake, taskVars, clientVars, Unseen, Unfinished, Executed
    <3> QED
      BY <3>1, UnseenStutters
  <2>2. CASE taskQueue # <<>>
    <3>1. /\ Todo = taskQueue /\ Todo' = Tail(taskQueue) /\ dtor' = dtor
          /\ Active = {} /\ Active' = {Head(taskQueue)}
      BY <1>7, <2>2 DEF WorkerTake, taskVars, clientVars, Unfinished, Executed
    <3>2. Abstract!Cardinality({}) = 0
      <4>1. Abstract!Cardinality({}) = Cardinality({})
        BY DEF Abstract!Cardinality, Cardinality
      <4> QED
        BY <4>1, FS_EmptySet
    <3>3. Abstract!Cardinality(Active) < 1
      <4>1. Abstract!Cardinality(Active) = 0
        BY ONLY <3>1, <3>2
      <4> QED
        BY ONLY <4>1
    <3>4. Active' = Active \cup {Head(Todo)}
      BY <3>1
    <3>5. Abstract!Begin
      <4> HIDE DEF Todo, Active
      <4> QED
        BY <2>2, <3>1, <3>3, <3>4, Zenon DEF Abstract!Begin, Todo, Active
    <3> QED
      BY <3>5 DEF Abstract!Next
  <2> QED
    BY <2>1, <2>2
<1>8. CASE WorkerRun
  <2>1. /\ Todo = Tail(taskQueue) /\ Todo' = Todo /\ dtor' = dtor
        /\ Active = {Head(taskQueue)} /\ Active' = {} /\ Head(taskQueue) \in Tasks
    BY <1>0, <1>8 DEF WorkerRun, clientVars, Unfinished, Executed
  <2>2. Abstract!Finish(Head(taskQueue))
    BY <2>1 DEF Abstract!Finish
  <2> QED
    BY <2>1, <2>2 DEF Abstract!Next
<1>9. CASE DtorJoin
  <2>1. /\ Todo = <<>> /\ Todo' = <<>> /\ Active = {} /\ Active' = {}
        /\ dtor = "joining" /\ dtor' = "done"
    BY <1>9 DEF DtorJoin, taskVars, clientVars, IInv, DtorInv, Unfinished, Executed
  <2>2. Abstract!Close
    BY <2>1 DEF Abstract!Close
  <2> QED
    BY <2>2 DEF Abstract!Next
<1> QED
  BY <1>1, <1>2, <1>3, <1>4, <1>5, <1>6, <1>7, <1>8, <1>9, UnseenStutters
     DEF Next, WorkerStep, DtorStep, WaitStep

\* The executor implements the queue of TaskQueue, but for the fairness: it
\* accepts no task twice, begins the tasks in order and one at a time, and
\* closes when all have been run.
THEOREM ExecutorIsATaskQueue == Spec => Abstract!Init /\ [][Abstract!Next]_(Abstract!queueVars)
<1>1. Init => Abstract!Init
  BY DEF Init, Abstract!Init, Unfinished, Executed
<1> QED
  BY <1>1, StepIsAbstract, ExecutorInvariant, PTL DEF Spec

=============================================================================
