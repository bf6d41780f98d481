----------------------- MODULE TaskSynchronizerProofs -----------------------
(***************************************************************************)
(* Proofs about TaskSynchronizer, for every number of threads, every queue *)
(* limit and every width of the ticket counter: type correctness, mutual   *)
(* exclusion, the FIFO lock, no lost wake-up, no deadlock.                 *)
(*                                                                         *)
(* The queued tickets are numbers of a counter that wraps, so they are not *)
(* ordered as integers.  They are ordered by their distance, going up and  *)
(* round, from the ticket at the front: that distance strictly increases   *)
(* along the queue and stays below the distance of _taskCount itself.  So  *)
(* the queued tickets are distinct, and a thread that sees its own ticket  *)
(* at the front is the only one that does.                                 *)
(***************************************************************************)
EXTENDS TaskSynchronizer, TLAPS

\* How far id is from base, counting up from base and wrapping.
Distance(base, id) == IF base <= id THEN id - base ELSE id - base + IdModulus

\* The same for the next ticket, which is a full turn away from itself.
Reach(base) == IF base < taskCount THEN taskCount - base
                                   ELSE taskCount - base + IdModulus

\* The queue is sorted by distance from its front, short of a full turn.
TicketsInOrder ==
    /\ \A i, j \in 1..Len(taskQueue) :
          i < j => Distance(taskQueue[1], taskQueue[i]) < Distance(taskQueue[1], taskQueue[j])
    /\ \A i \in 1..Len(taskQueue) :
          Distance(taskQueue[1], taskQueue[i]) < Reach(taskQueue[1])

\* A thread in lock() or unlock() has its ticket in the queue ...
TicketIsQueued ==
    \A t \in Threads : pc[t] \in TicketHeld =>
        \E i \in 1..Len(taskQueue) : taskQueue[i] = taskID[t]

\* ... which no other such thread has, ...
TicketsDiffer ==
    \A t, u \in Threads :
        /\ pc[t] \in TicketHeld
        /\ pc[u] \in TicketHeld
        /\ taskID[t] = taskID[u]
        => t = u

\* ... and every queued ticket is that of such a thread.
TicketIsOwned ==
    \A i \in 1..Len(taskQueue) :
        \E t \in Threads : pc[t] \in TicketHeld /\ taskID[t] = taskQueue[i]

HolderIsAtFront ==
    \A t \in Threads : pc[t] \in {"inside", "popping"} =>
        taskQueue # <<>> /\ taskID[t] = taskQueue[1]

MutexIsHeld ==
    \A t \in Threads : pc[t] \in {"popping", "notifying"} <=> taskMutex = t

IInv == /\ TypeOK
        /\ TicketsInOrder
        /\ TicketIsQueued
        /\ TicketsDiffer
        /\ TicketIsOwned
        /\ HolderIsAtFront
        /\ MutexIsHeld
        /\ Len(taskQueue) <= MaxTasksInQueue

-----------------------------------------------------------------------------
(* What the queue operations do to a sequence of tickets.                  *)

\* push() keeps the queued tickets in place and adds one at the end.
LEMMA PushTicket ==
    ASSUME NEW q \in Seq(IDs), NEW id \in IDs
    PROVE  /\ Append(q, id) \in Seq(IDs)
           /\ Len(Append(q, id)) = Len(q) + 1
           /\ \A i \in 1..Len(q) : Append(q, id)[i] = q[i]
           /\ Append(q, id)[Len(q) + 1] = id
OBVIOUS

\* pop() drops the front and moves the others up.
LEMMA PopTicket ==
    ASSUME NEW q \in Seq(IDs), q # <<>>
    PROVE  /\ Tail(q) \in Seq(IDs)
           /\ Len(Tail(q)) = Len(q) - 1
           /\ \A i \in 1..Len(Tail(q)) : Tail(q)[i] = q[i + 1]
           /\ Len(q) >= 1
           /\ Head(q) = q[1]
           /\ q[1] \in IDs
OBVIOUS

\* The unsigned counter goes up by one or wraps to zero.
LEMMA NextTicket ==
    ASSUME NEW id \in IDs
    PROVE  /\ NextID(id) \in IDs
           /\ NextID(id) = IF id = IdModulus - 1 THEN 0 ELSE id + 1
BY SynchronizerAssumption DEF NextID, IDs

-----------------------------------------------------------------------------
(* The strengthened invariant is inductive.                                *)

LEMMA InitEstablishesInvariant == Init => IInv
BY SynchronizerAssumption
   DEF Init, IInv, TypeOK, IDs, Where, TicketHeld, TicketsInOrder,
       TicketIsQueued, TicketsDiffer, TicketIsOwned, HolderIsAtFront, MutexIsHeld

LEMMA AddTaskToQueueKeepsInvariant ==
    ASSUME IInv, NEW t \in Threads, AddTaskToQueue(t)
    PROVE  IInv'
<1> USE SynchronizerAssumption
<1> DEFINE q == taskQueue
           n == Len(taskQueue)
<1>1. /\ q \in Seq(IDs)
      /\ n \in Nat
      /\ taskCount \in IDs
  BY DEF IInv, TypeOK
<1>2. /\ taskQueue' \in Seq(IDs)
      /\ Len(taskQueue') = n + 1
      /\ \A i \in 1..n : taskQueue'[i] = q[i]
      /\ taskQueue'[n + 1] = taskCount
  BY <1>1, PushTicket DEF AddTaskToQueue
<1>3. /\ taskCount' \in IDs
      /\ taskCount' = IF taskCount = IdModulus - 1 THEN 0 ELSE taskCount + 1
  BY <1>1, NextTicket DEF AddTaskToQueue
<1>4. TypeOK'
  BY <1>2, <1>3 DEF IInv, TypeOK, AddTaskToQueue, Where
<1>5. /\ \A i \in 1..n : q[i] \in IDs
      /\ n > 0 => Head(q) = q[1]
  BY <1>1
<1>6. \A i \in 1..n : q[i] # taskCount
  <2> SUFFICES ASSUME NEW i \in 1..n PROVE q[i] # taskCount
    OBVIOUS
  <2>1. q[1] \in IDs /\ q[i] \in IDs /\ taskCount # q[1] /\ Distance(q[1], q[i]) < Reach(q[1])
    BY <1>1, <1>5 DEF IInv, TicketsInOrder, AddTaskToQueue, NoLap
  <2> QED
    BY <1>1, <2>1, SMTT(60) DEF Distance, Reach, IDs
<1>7. TicketsInOrder'
  <2>1. CASE n = 0
    BY <1>1, <1>2, <1>3, <2>1 DEF TicketsInOrder, Distance, Reach, IDs
  <2>2. CASE n > 0
    <3>1. taskQueue'[1] = q[1] /\ q[1] \in IDs /\ taskCount # q[1]
      BY <1>1, <1>2, <1>5, <2>2 DEF AddTaskToQueue, NoLap
    <3>2. Reach(q[1]) = Distance(q[1], taskCount)
      BY <1>1, <3>1 DEF Reach, Distance, IDs
    <3>3. Distance(q[1], taskCount) < Reach(q[1])'
      BY <1>1, <1>3, <3>1, SMTT(60) DEF Reach, Distance, AddTaskToQueue, IDs
    <3>4. \A i \in 1..n : Distance(q[1], q[i]) < Distance(q[1], taskCount)
      BY <3>2 DEF IInv, TicketsInOrder
    <3>5. \A i, j \in 1..n : i < j => Distance(q[1], q[i]) < Distance(q[1], q[j])
      BY DEF IInv, TicketsInOrder
    <3>6. \A i \in 1..n : Distance(q[1], q[i]) \in Int
      BY <1>5, <3>1 DEF Distance, IDs
    <3>7. Reach(q[1])' \in Int /\ Distance(q[1], taskCount) \in Int /\ Reach(taskQueue[1])' = Reach(q[1])'
      BY <1>1, <1>3, <3>1, <1>2, SMTT(60) DEF Reach, Distance, IDs
    <3>8. ASSUME NEW i \in 1..(n + 1)
          PROVE  /\ Distance(q[1], taskQueue'[i]) =
                      IF i <= n THEN Distance(q[1], q[i]) ELSE Distance(q[1], taskCount)
                 /\ i > n => i = n + 1
      BY <1>1, <1>2
    <3>9. \A i, j \in 1..(n + 1) :
             i < j => Distance(q[1], taskQueue'[i]) < Distance(q[1], taskQueue'[j])
      BY <1>1, <3>4, <3>5, <3>8
    <3>10. \A i \in 1..(n + 1) : Distance(q[1], taskQueue'[i]) < Reach(q[1])'
      BY <1>1, <3>3, <3>4, <3>6, <3>7, <3>8
    <3> QED
      BY <1>2, <3>1, <3>7, <3>9, <3>10 DEF TicketsInOrder, Distance
  <2> QED
    BY <1>1, <2>1, <2>2
<1>8. TicketIsQueued'
  <2> SUFFICES ASSUME NEW u \in Threads, pc'[u] \in TicketHeld
               PROVE  \E i \in 1..(n + 1) : taskQueue'[i] = taskID'[u]
    BY <1>1, <1>2 DEF TicketIsQueued
  <2>1. CASE u = t
    BY <1>1, <1>2, <2>1 DEF AddTaskToQueue, IInv, TypeOK
  <2>2. CASE u # t
    <3>1. pc[u] \in TicketHeld /\ taskID'[u] = taskID[u]
      BY <2>2 DEF AddTaskToQueue, IInv, TypeOK
    <3>2. PICK i \in 1..n : q[i] = taskID[u]
      BY <3>1 DEF IInv, TicketIsQueued
    <3> QED
      BY <1>1, <1>2, <3>1, <3>2
  <2> QED
    BY <2>1, <2>2
<1>9. TicketsDiffer'
  <2>1. \A u \in Threads : u # t /\ pc'[u] \in TicketHeld =>
           pc[u] \in TicketHeld /\ taskID'[u] = taskID[u] /\ taskID[u] # taskCount
    BY <1>6 DEF AddTaskToQueue, IInv, TypeOK, TicketIsQueued
  <2>2. taskID'[t] = taskCount
    BY DEF AddTaskToQueue, IInv, TypeOK
  <2> QED
    BY <2>1, <2>2 DEF TicketsDiffer, IInv
<1>10. TicketIsOwned'
  <2> SUFFICES ASSUME NEW i \in 1..(n + 1)
               PROVE  \E u \in Threads : pc'[u] \in TicketHeld /\ taskID'[u] = taskQueue'[i]
    BY <1>2 DEF TicketIsOwned
  <2>1. CASE i = n + 1
    BY <1>2, <2>1 DEF AddTaskToQueue, IInv, TypeOK, TicketHeld
  <2>2. CASE i \in 1..n
    <3>1. PICK u \in Threads : pc[u] \in TicketHeld /\ taskID[u] = q[i]
      BY <2>2 DEF IInv, TicketIsOwned
    <3> QED
      BY <1>2, <2>2, <3>1 DEF AddTaskToQueue, IInv, TypeOK, TicketHeld
  <2> QED
    BY <1>1, <2>1, <2>2
<1>11. HolderIsAtFront'
  <2> SUFFICES ASSUME NEW u \in Threads, pc'[u] \in {"inside", "popping"}
               PROVE  taskQueue' # <<>> /\ taskID'[u] = taskQueue'[1]
    BY DEF HolderIsAtFront
  <2>1. u # t /\ pc[u] \in {"inside", "popping"} /\ taskID'[u] = taskID[u]
    BY DEF AddTaskToQueue, IInv, TypeOK
  <2>2. q # <<>> /\ taskID[u] = q[1]
    BY <2>1 DEF IInv, HolderIsAtFront
  <2> QED
    BY <1>1, <1>2, <2>1, <2>2
<1>12. MutexIsHeld'
  BY DEF AddTaskToQueue, IInv, TypeOK, MutexIsHeld
<1>13. Len(taskQueue') <= MaxTasksInQueue
  BY <1>1, <1>2 DEF AddTaskToQueue, QueueIsFull, IInv
<1> QED
  BY <1>4, <1>7, <1>8, <1>9, <1>10, <1>11, <1>12, <1>13 DEF IInv

(* A refusal moves only the counter: the tickets stay in order because     *)
(* NoLap keeps the counter short of a full turn.                           *)
LEMMA AddTaskToQueueThrowsKeepsInvariant ==
    ASSUME IInv, NEW t \in Threads, AddTaskToQueueThrows(t)
    PROVE  IInv'
<1> USE SynchronizerAssumption
<1> DEFINE q == taskQueue
           n == Len(taskQueue)
<1>1. /\ q \in Seq(IDs)
      /\ n \in Nat
      /\ taskCount \in IDs
      /\ q # <<>>
      /\ taskCount # q[1]
      /\ \A i \in 1..n : q[i] \in IDs
      /\ n > 0
  BY DEF IInv, TypeOK, AddTaskToQueueThrows, QueueIsFull, NoLap
<1>2. /\ taskCount' \in IDs
      /\ taskCount' = IF taskCount = IdModulus - 1 THEN 0 ELSE taskCount + 1
  BY <1>1, NextTicket DEF AddTaskToQueueThrows
<1>3. TypeOK'
  BY <1>2 DEF IInv, TypeOK, AddTaskToQueueThrows
<1>4. Reach(q[1]) < Reach(q[1])' /\ Reach(q[1]) \in Int /\ Reach(q[1])' \in Int
  BY <1>1, <1>2, SMTT(60) DEF Reach, IDs, AddTaskToQueueThrows
<1>5. TicketsInOrder'
  <2>1. \A i \in 1..n : Distance(q[1], q[i]) \in Int
    BY <1>1 DEF Distance, IDs
  <2>2. \A i \in 1..n : Distance(q[1], q[i]) < Reach(q[1])'
    BY <1>4, <2>1 DEF IInv, TicketsInOrder
  <2>3. taskQueue' = q
    BY DEF AddTaskToQueueThrows
  <2> QED
    BY <2>2, <2>3 DEF IInv, TicketsInOrder, Distance, Reach
<1> QED
  BY <1>3, <1>5
     DEF IInv, AddTaskToQueueThrows, TicketIsQueued, TicketsDiffer, TicketIsOwned,
         HolderIsAtFront, MutexIsHeld

(* One evaluation of the wait predicate lets only the front ticket in.     *)
LEMMA WaitInQueueKeepsInvariant ==
    ASSUME IInv, NEW t \in Threads, WaitInQueue(t)
    PROVE  IInv'
<1>1. /\ pc[t] = "waiting"
      /\ taskQueue # <<>>
      /\ Head(taskQueue) = taskQueue[1]
      /\ pc' = [pc EXCEPT ![t] = IF MyTurn(t) THEN "inside" ELSE "asleep"]
      /\ UNCHANGED <<taskCount, taskQueue, taskMutex, taskID>>
  BY DEF WaitInQueue, IInv, TypeOK, TicketIsQueued, TicketHeld
<1>2. TypeOK'
  BY <1>1 DEF IInv, TypeOK, Where
<1>3. TicketsInOrder'
  BY <1>1 DEF IInv, TicketsInOrder, Distance, Reach
<1>4. \A u \in Threads : pc'[u] \in TicketHeld <=> pc[u] \in TicketHeld
  BY <1>1 DEF IInv, TypeOK, TicketHeld
<1>5. TicketIsQueued' /\ TicketsDiffer' /\ TicketIsOwned'
  BY <1>1, <1>4 DEF IInv, TicketIsQueued, TicketsDiffer, TicketIsOwned
<1>6. HolderIsAtFront'
  BY <1>1 DEF IInv, TypeOK, HolderIsAtFront, MyTurn
<1>7. MutexIsHeld'
  BY <1>1 DEF IInv, TypeOK, MutexIsHeld
<1> QED
  BY <1>1, <1>2, <1>3, <1>5, <1>6, <1>7 DEF IInv

LEMMA SpuriousWakeupKeepsInvariant ==
    ASSUME IInv, NEW t \in Threads, SpuriousWakeup(t)
    PROVE  IInv'
<1>1. /\ pc[t] = "asleep"
      /\ pc' = [pc EXCEPT ![t] = "waiting"]
      /\ UNCHANGED <<taskCount, taskQueue, taskMutex, taskID>>
  BY DEF SpuriousWakeup
<1>2. TypeOK'
  BY <1>1 DEF IInv, TypeOK, Where
<1>3. TicketsInOrder'
  BY <1>1 DEF IInv, TicketsInOrder, Distance, Reach
<1>4. \A u \in Threads : pc'[u] \in TicketHeld <=> pc[u] \in TicketHeld
  BY <1>1 DEF IInv, TypeOK, TicketHeld
<1>5. TicketIsQueued' /\ TicketsDiffer' /\ TicketIsOwned'
  BY <1>1, <1>4 DEF IInv, TicketIsQueued, TicketsDiffer, TicketIsOwned
<1>6. HolderIsAtFront' /\ MutexIsHeld'
  BY <1>1 DEF IInv, TypeOK, HolderIsAtFront, MutexIsHeld
<1> QED
  BY <1>1, <1>2, <1>3, <1>5, <1>6 DEF IInv

LEMMA UnlockAcquireKeepsInvariant ==
    ASSUME IInv, NEW t \in Threads, UnlockAcquire(t)
    PROVE  IInv'
<1>1. /\ pc[t] = "inside"
      /\ taskMutex = None
      /\ taskMutex' = t
      /\ pc' = [pc EXCEPT ![t] = "popping"]
      /\ UNCHANGED <<taskCount, taskQueue, taskID>>
  BY DEF UnlockAcquire, IInv, HolderIsAtFront
<1>2. TypeOK'
  BY <1>1 DEF IInv, TypeOK, Where
<1>3. TicketsInOrder'
  BY <1>1 DEF IInv, TicketsInOrder, Distance, Reach
<1>4. \A u \in Threads : pc'[u] \in TicketHeld <=> pc[u] \in TicketHeld
  BY <1>1 DEF IInv, TypeOK, TicketHeld
<1>5. TicketIsQueued' /\ TicketsDiffer' /\ TicketIsOwned'
  BY <1>1, <1>4 DEF IInv, TicketIsQueued, TicketsDiffer, TicketIsOwned
<1>6. HolderIsAtFront'
  BY <1>1 DEF IInv, TypeOK, HolderIsAtFront
<1>7. MutexIsHeld'
  BY <1>1, SynchronizerAssumption DEF IInv, TypeOK, MutexIsHeld
<1> QED
  BY <1>1, <1>2, <1>3, <1>5, <1>6, <1>7 DEF IInv

(* pop() takes out the ticket of the thread that pops, and the distances   *)
(* from the new front are the old ones less that of the new front.         *)
LEMMA UnlockPopKeepsInvariant ==
    ASSUME IInv, NEW t \in Threads, UnlockPop(t)
    PROVE  IInv'
<1> USE SynchronizerAssumption
<1> DEFINE q == taskQueue
           n == Len(taskQueue)
<1>1. /\ q \in Seq(IDs)
      /\ q # <<>>
      /\ n \in Nat
      /\ taskID[t] = q[1]
      /\ taskCount \in IDs
      /\ \A i \in 1..n : q[i] \in IDs
  BY DEF IInv, TypeOK, HolderIsAtFront, UnlockPop
<1>2. /\ taskQueue' \in Seq(IDs)
      /\ n >= 1
      /\ Len(taskQueue') = n - 1
      /\ \A i \in 1..(n - 1) : taskQueue'[i] = q[i + 1]
  BY <1>1, PopTicket DEF UnlockPop
<1>3. /\ pc[t] = "popping"
      /\ pc' = [pc EXCEPT ![t] = "notifying"]
      /\ UNCHANGED <<taskCount, taskMutex, taskID>>
  BY DEF UnlockPop
<1>4. TypeOK'
  BY <1>2, <1>3 DEF IInv, TypeOK, Where
<1>5. \A i \in 2..n : q[i] # q[1]
  <2> SUFFICES ASSUME NEW i \in 2..n PROVE q[i] # q[1]
    OBVIOUS
  <2>1. Distance(q[1], q[1]) < Distance(q[1], q[i])
    BY <1>1 DEF IInv, TicketsInOrder
  <2>2. q[1] \in IDs /\ Distance(q[1], q[1]) = 0
    BY <1>1, <1>2, SMTT(60) DEF Distance, IDs
  <2> QED
    BY <2>1, <2>2
<1>6. \A a, b, c \in IDs : Distance(a, b) < Distance(a, c) =>
         Distance(b, c) = Distance(a, c) - Distance(a, b)
  BY DEF Distance, IDs
<1>7. \A a, b \in IDs : Distance(a, b) < Reach(a) => Reach(b) = Reach(a) - Distance(a, b)
  BY <1>1 DEF Distance, Reach, IDs
<1>8. \A a, b \in IDs : Distance(a, b) \in Int /\ Reach(a) \in Int
  BY <1>1 DEF Distance, Reach, IDs
<1>9. TicketsInOrder'
  <2>1. CASE n = 1
    BY <1>1, <1>2, <2>1 DEF TicketsInOrder
  <2>2. CASE n > 1
    <3> DEFINE D(i) == Distance(q[1], q[i])
    <3>1. /\ \A i \in 1..n : D(i) \in Int /\ D(i) < Reach(q[1])
          /\ \A i, j \in 1..n : i < j => D(i) < D(j)
          /\ Reach(q[1]) \in Int
      <4>1. q[1] \in IDs
        BY <1>1, <2>2
      <4>2. \A i \in 1..n : D(i) \in Int
        BY <1>1, <1>8, <4>1
      <4>3. Reach(q[1]) \in Int
        BY <1>8, <4>1
      <4> QED
        BY <4>2, <4>3 DEF IInv, TicketsInOrder
    <3>2. \A i \in 3..n : Distance(q[2], q[i]) = D(i) - D(2)
      BY <1>1, <1>6, <2>2, <3>1, SMTT(60)
    <3>3. Distance(q[2], q[2]) = 0
      BY <1>1, <2>2 DEF Distance, IDs
    <3>4. \A i \in 2..n : Distance(q[2], q[i]) = D(i) - D(2)
      BY <1>1, <2>2, <3>1, <3>2, <3>3
    <3>5. Reach(q[2]) = Reach(q[1]) - D(2)
      BY <1>1, <1>7, <2>2, <3>1
    <3>6. \A i, j \in 2..n : i < j => Distance(q[2], q[i]) < Distance(q[2], q[j])
      BY <1>1, <2>2, <3>1, <3>4
    <3>7. \A i \in 2..n : Distance(q[2], q[i]) < Reach(q[2])
      BY <1>1, <2>2, <3>1, <3>4, <3>5
    <3>8. taskQueue'[1] = q[2]
      BY <1>1, <1>2, <2>2
    <3>9. \A i \in 1..Len(taskQueue') : i + 1 \in 2..n /\ taskQueue'[i] = q[i + 1]
      BY <1>1, <1>2
    <3>10. \A i, j \in 1..Len(taskQueue') : i < j =>
              Distance(taskQueue'[1], taskQueue'[i]) < Distance(taskQueue'[1], taskQueue'[j])
      BY <1>1, <1>2, <3>6, <3>8, <3>9, SMTT(60)
    <3>11. \A i \in 1..Len(taskQueue') : Distance(taskQueue'[1], taskQueue'[i]) < Reach(q[2])
      BY <1>1, <1>2, <3>7, <3>8, <3>9
    <3> QED
      BY <1>3, <3>8, <3>10, <3>11 DEF TicketsInOrder, Distance, Reach
  <2> QED
    BY <1>1, <1>2, <2>1, <2>2
<1>10. \A u \in Threads : pc'[u] \in TicketHeld <=> pc[u] \in TicketHeld /\ u # t
  BY <1>3 DEF IInv, TypeOK, TicketHeld
<1>11. TicketIsQueued'
  <2> SUFFICES ASSUME NEW u \in Threads, pc'[u] \in TicketHeld
               PROVE  \E i \in 1..(n - 1) : taskQueue'[i] = taskID[u]
    BY <1>2, <1>3 DEF TicketIsQueued
  <2>1. pc[u] \in TicketHeld /\ u # t /\ pc[t] \in TicketHeld
    BY <1>3, <1>10 DEF TicketHeld
  <2>2. PICK i \in 1..n : q[i] = taskID[u]
    BY <2>1 DEF IInv, TicketIsQueued
  <2>3. i # 1
    BY <1>1, <2>1, <2>2 DEF IInv, TicketsDiffer
  <2>4. i - 1 \in 1..(n - 1) /\ (i - 1) + 1 = i
    BY <1>1, <2>3
  <2>5. taskQueue'[i - 1] = q[i]
    BY <1>2, <2>4
  <2> QED
    BY <2>2, <2>4, <2>5
<1>12. TicketsDiffer'
  BY <1>3, <1>10 DEF IInv, TicketsDiffer
<1>13. TicketIsOwned'
  <2> SUFFICES ASSUME NEW i \in 1..(n - 1)
               PROVE  \E u \in Threads : pc'[u] \in TicketHeld /\ taskID[u] = taskQueue'[i]
    BY <1>2, <1>3 DEF TicketIsOwned
  <2>1. i + 1 \in 2..n /\ i + 1 \in 1..n /\ taskQueue'[i] = q[i + 1]
    BY <1>1, <1>2
  <2>2. PICK u \in Threads : pc[u] \in TicketHeld /\ taskID[u] = q[i + 1]
    BY <2>1 DEF IInv, TicketIsOwned
  <2>3. u # t
    BY <1>1, <1>5, <2>1, <2>2
  <2> QED
    BY <1>10, <2>1, <2>2, <2>3
<1>14. HolderIsAtFront'
  <2> SUFFICES ASSUME NEW u \in Threads, pc'[u] \in {"inside", "popping"} PROVE FALSE
    BY DEF HolderIsAtFront
  <2>1. pc[u] \in {"inside", "popping"} /\ u # t
    BY <1>3 DEF IInv, TypeOK
  <2>2. taskID[u] = taskID[t]
    BY <1>1, <2>1 DEF IInv, HolderIsAtFront
  <2> QED
    BY <1>3, <2>1, <2>2 DEF IInv, TicketsDiffer, TicketHeld
<1>15. MutexIsHeld'
  BY <1>3 DEF IInv, TypeOK, MutexIsHeld
<1> QED
  BY <1>1, <1>2, <1>4, <1>9, <1>11, <1>12, <1>13, <1>14, <1>15 DEF IInv

LEMMA UnlockNotifyKeepsInvariant ==
    ASSUME IInv, NEW t \in Threads, UnlockNotify(t)
    PROVE  IInv'
<1>1. PICK woken \in SUBSET Threads :
         /\ woken = {u \in Threads : pc[u] = "asleep"}
         /\ pc' = [u \in Threads |-> IF u = t THEN "outside"
                                     ELSE IF u \in woken THEN "waiting"
                                     ELSE pc[u]]
  BY DEF UnlockNotify, WokenByNotifyAll
<1>2. /\ pc[t] = "notifying"
      /\ taskMutex = t
      /\ taskMutex' = None
      /\ UNCHANGED <<taskCount, taskQueue, taskID>>
  BY DEF UnlockNotify, IInv, MutexIsHeld
<1>3. TypeOK'
  BY <1>1, <1>2 DEF IInv, TypeOK, Where
<1>4. TicketsInOrder'
  BY <1>2 DEF IInv, TicketsInOrder, Distance, Reach
<1>5. \A u \in Threads : pc'[u] \in TicketHeld <=> pc[u] \in TicketHeld
  BY <1>1, <1>2 DEF IInv, TypeOK, TicketHeld
<1>6. TicketIsQueued' /\ TicketsDiffer' /\ TicketIsOwned'
  BY <1>2, <1>5 DEF IInv, TicketIsQueued, TicketsDiffer, TicketIsOwned
<1>7. \A u \in Threads : pc'[u] \in {"inside", "popping"} => pc[u] \in {"inside", "popping"}
  BY <1>1
<1>8. HolderIsAtFront'
  BY <1>2, <1>7 DEF IInv, HolderIsAtFront
<1>9. MutexIsHeld'
  BY <1>1, <1>2, SynchronizerAssumption DEF IInv, TypeOK, MutexIsHeld
<1> QED
  BY <1>2, <1>3, <1>4, <1>6, <1>8, <1>9 DEF IInv

LEMMA NextKeepsInvariant == IInv /\ [Next]_syncVars => IInv'
<1> SUFFICES ASSUME IInv, [Next]_syncVars PROVE IInv'
  OBVIOUS
<1>1. ASSUME NEW t \in Threads, AddTaskToQueue(t) PROVE IInv'
  BY <1>1, AddTaskToQueueKeepsInvariant
<1>2. ASSUME NEW t \in Threads, AddTaskToQueueThrows(t) PROVE IInv'
  BY <1>2, AddTaskToQueueThrowsKeepsInvariant
<1>3. ASSUME NEW t \in Threads, SpuriousWakeup(t) PROVE IInv'
  BY <1>3, SpuriousWakeupKeepsInvariant
<1>4. ASSUME NEW t \in Threads, WaitInQueue(t) PROVE IInv'
  BY <1>4, WaitInQueueKeepsInvariant
<1>5. ASSUME NEW t \in Threads, UnlockAcquire(t) PROVE IInv'
  BY <1>5, UnlockAcquireKeepsInvariant
<1>6. ASSUME NEW t \in Threads, UnlockPop(t) PROVE IInv'
  BY <1>6, UnlockPopKeepsInvariant
<1>7. ASSUME NEW t \in Threads, UnlockNotify(t) PROVE IInv'
  BY <1>7, UnlockNotifyKeepsInvariant
<1>8. CASE UNCHANGED syncVars
  BY <1>8 DEF syncVars, IInv, TypeOK, TicketsInOrder, Distance, Reach, TicketIsQueued,
              TicketsDiffer, TicketIsOwned, HolderIsAtFront, MutexIsHeld
<1> QED
  BY <1>1, <1>2, <1>3, <1>4, <1>5, <1>6, <1>7, <1>8 DEF Next, Proceed

LEMMA InvariantHolds == Spec => []IInv
  BY InitEstablishesInvariant, NextKeepsInvariant, PTL DEF Spec

-----------------------------------------------------------------------------
(* Type correctness of the synchronizer: in particular the wrapped counter *)
(* and every queued ticket stay 32-bit numbers (ids below IdModulus).      *)
THEOREM TypeCorrect == Spec => []TypeOK
<1>1. IInv => TypeOK
  BY DEF IInv
<1> QED
  BY <1>1, InvariantHolds, PTL

(* Task::runWithSynchronizer runs one task at a time: no two threads are   *)
(* between lock() and unlock(), for any number of threads.                 *)
THEOREM MutuallyExclusive == Spec => []MutualExclusion
<1>1. IInv => MutualExclusion
  BY DEF IInv, HolderIsAtFront, TicketsDiffer, TicketHeld, MutualExclusion
<1> QED
  BY <1>1, InvariantHolds, PTL

(* The queue holds exactly the tickets of the threads that are in lock()   *)
(* or unlock(), and never more than MAX_NUMBER_OF_TASKS_IN_QUEUE.          *)
THEOREM TicketsAccounted == Spec => []TicketsBelongToThreads
<1>1. IInv => TicketsBelongToThreads
  <2> SUFFICES ASSUME IInv PROVE TicketsBelongToThreads
    OBVIOUS
  <2>1. ASSUME NEW i \in 1..Len(taskQueue)
        PROVE  taskQueue[i] \in {taskID[t] : t \in {u \in Threads : pc[u] \in TicketHeld}}
    BY DEF IInv, TicketIsOwned
  <2>2. ASSUME NEW t \in Threads, pc[t] \in TicketHeld
        PROVE  taskID[t] \in {taskQueue[i] : i \in 1..Len(taskQueue)}
    BY <2>2 DEF IInv, TicketIsQueued
  <2> QED
    BY <2>1, <2>2 DEF IInv, TicketsDiffer, TicketsBelongToThreads
<1> QED
  BY <1>1, InvariantHolds, PTL

-----------------------------------------------------------------------------
(* No wake-up is lost: the front changes only in unlock(), which notifies  *)
(* everybody before it lets go of _taskMutex.                              *)

LEMMA NextKeepsSleepers == IInv /\ IInv' /\ SleepersWillBeWoken /\ [Next]_syncVars => SleepersWillBeWoken'
<1> SUFFICES ASSUME IInv, IInv', SleepersWillBeWoken, [Next]_syncVars,
                    NEW s \in Threads, pc'[s] = "asleep"
             PROVE  taskQueue' # <<>> /\ (MyTurn(s)' => \E u \in Threads : pc'[u] = "notifying")
  BY DEF SleepersWillBeWoken
<1> USE DEF SleepersWillBeWoken, MyTurn
<1>0. /\ taskQueue \in Seq(IDs) /\ taskQueue' # <<>>
      /\ pc \in [Threads -> Where] /\ taskID \in [Threads -> IDs]
  BY DEF IInv, TypeOK, TicketIsQueued, TicketHeld
<1>1. ASSUME NEW t \in Threads, AddTaskToQueue(t)
      PROVE  MyTurn(s)' => \E u \in Threads : pc'[u] = "notifying"
  <2>1. s # t /\ pc[s] = "asleep" /\ taskID'[s] = taskID[s] /\ taskQueue # <<>> /\ taskCount \in IDs
    BY <1>0, <1>1 DEF AddTaskToQueue, IInv, TypeOK
  <2>2. Head(taskQueue') = Head(taskQueue)
    <3>1. /\ taskQueue' \in Seq(IDs) /\ taskQueue' # <<>> /\ Len(taskQueue) \in Nat
          /\ taskQueue'[1] = taskQueue[1]
      BY <1>0, <1>1, <2>1, PushTicket DEF AddTaskToQueue
    <3> QED
      BY <1>0, <2>1, <3>1
  <2>3. pc[t] = "outside" /\ \A u \in Threads : u # t => pc'[u] = pc[u]
    BY <1>0, <1>1 DEF AddTaskToQueue
  <2> QED
    BY <2>1, <2>2, <2>3
<1>2. ASSUME NEW t \in Threads, AddTaskToQueueThrows(t) \/ SpuriousWakeup(t) \/ WaitInQueue(t)
      PROVE  MyTurn(s)' => \E u \in Threads : pc'[u] = "notifying"
  BY <1>0, <1>2 DEF AddTaskToQueueThrows, SpuriousWakeup, WaitInQueue
<1>3. ASSUME NEW t \in Threads, UnlockAcquire(t)
      PROVE  MyTurn(s)' => \E u \in Threads : pc'[u] = "notifying"
  BY <1>0, <1>3 DEF UnlockAcquire
<1>4. ASSUME NEW t \in Threads, UnlockPop(t) PROVE \E u \in Threads : pc'[u] = "notifying"
  BY <1>0, <1>4 DEF UnlockPop
<1>5. ASSUME NEW t \in Threads, UnlockNotify(t) PROVE FALSE
  BY <1>5 DEF UnlockNotify, WokenByNotifyAll
<1>6. CASE UNCHANGED syncVars
  BY <1>6 DEF syncVars
<1> QED
  BY <1>0, <1>1, <1>2, <1>3, <1>4, <1>5, <1>6 DEF Next, Proceed

LEMMA SleepersHold == Spec => [](IInv /\ SleepersWillBeWoken)
<1>1. Init => SleepersWillBeWoken
  BY DEF Init, SleepersWillBeWoken
<1> QED
  BY <1>1, InitEstablishesInvariant, NextKeepsInvariant, NextKeepsSleepers, PTL DEF Spec

(* A thread whose turn has come does not sleep through it: unlock() pops   *)
(* the front and notifies under the mutex of the condition variable.       *)
THEOREM SynchronizerLosesNoWakeup == Spec => []SleepersWillBeWoken
BY SleepersHold, PTL

(* What the liveness of the lock rests on: as long as a ticket is queued   *)
(* the owner of _taskMutex or the thread at the front can go on, so the    *)
(* requests never all wait for each other.                                 *)
THEOREM SynchronizerDoesNotDeadlock == Spec => []SomebodyGoesOn
<1>1. IInv /\ SleepersWillBeWoken => SomebodyGoesOn
  <2> SUFFICES ASSUME IInv, SleepersWillBeWoken, taskQueue # <<>> \/ taskMutex # None,
                      \A t \in Threads : pc[t] \notin {"popping", "notifying"}
               PROVE  \E t \in Threads :
                         pc[t] \in {"waiting", "inside"} /\ taskMutex = None /\ MyTurn(t)
    BY DEF SomebodyGoesOn
  <2>1. taskMutex = None /\ taskQueue \in Seq(IDs)
    BY DEF IInv, TypeOK, MutexIsHeld
  <2>2. 1 \in 1..Len(taskQueue) /\ Head(taskQueue) = taskQueue[1]
    BY <2>1
  <2>3. PICK t \in Threads : pc[t] \in TicketHeld /\ taskID[t] = taskQueue[1]
    BY <2>2 DEF IInv, TicketIsOwned
  <2>4. MyTurn(t) /\ pc[t] # "asleep"
    BY <2>2, <2>3 DEF MyTurn, SleepersWillBeWoken
  <2> QED
    BY <2>1, <2>3, <2>4 DEF TicketHeld
<1> QED
  BY <1>1, SleepersHold, PTL

-----------------------------------------------------------------------------
(* The synchronizer implements FifoLock.                                   *)

Line    == [i \in 1..Len(taskQueue) |-> Holder(taskQueue[i])]
Serving == \E t \in Threads : pc[t] \in {"inside", "popping"}

\* A queued ticket has a holder, and a thread with a ticket is its holder.
HoldersKnown ==
    /\ \A i \in 1..Len(taskQueue) :
          /\ Holder(taskQueue[i]) \in Threads
          /\ pc[Holder(taskQueue[i])] \in TicketHeld
          /\ taskID[Holder(taskQueue[i])] = taskQueue[i]
    /\ \A t \in Threads : pc[t] \in TicketHeld => Holder(taskID[t]) = t

LEMMA HoldersAreKnown == IInv => HoldersKnown
<1> SUFFICES ASSUME IInv PROVE HoldersKnown
  OBVIOUS
<1>1. ASSUME NEW t \in Threads, pc[t] \in TicketHeld PROVE Holder(taskID[t]) = t
  BY <1>1 DEF IInv, TicketsDiffer, Holder
<1> QED
  BY <1>1 DEF IInv, TicketIsOwned, HoldersKnown

LEMMA HoldersAreKnownNext == IInv' => HoldersKnown'
BY HoldersAreKnown, PTL

\* The line has one thread for each ticket.
LineFollows ==
    /\ Line \in Seq(Threads) /\ Len(Line) = Len(taskQueue)
    /\ \A i \in 1..Len(taskQueue) : Line[i] = Holder(taskQueue[i])

LEMMA LineIs == IInv => LineFollows
BY HoldersAreKnown DEF IInv, TypeOK, HoldersKnown, Line, LineFollows

LEMMA LineIsNext == IInv' => LineFollows'
BY LineIs, PTL

LEMMA SameSequence ==
    ASSUME NEW S, NEW q \in Seq(S), NEW r \in Seq(S), Len(q) = Len(r),
           \A i \in 1..Len(q) : q[i] = r[i]
    PROVE  q = r
OBVIOUS

\* Who holds a ticket, and who is inside, stays the same.
LEMMA LineStays ==
    ASSUME IInv, IInv', UNCHANGED <<taskQueue, taskID>>,
           \A t \in Threads : pc[t] \in TicketHeld => pc'[t] \in TicketHeld
    PROVE  UNCHANGED Line
<1>1. \A i \in 1..Len(taskQueue) : Holder(taskQueue[i])' = Holder(taskQueue[i])
  BY HoldersAreKnown, HoldersAreKnownNext DEF HoldersKnown
<1> QED
  BY <1>1 DEF Line

\* The thread that has the lock is at the front.
LEMMA HolderIsFirst ==
    ASSUME IInv, NEW t \in Threads, pc[t] \in {"inside", "popping"}
    PROVE  /\ taskQueue # <<>> /\ taskID[t] = Head(taskQueue)
           /\ \A u \in Threads : pc[u] \in {"inside", "popping"} => u = t
<1>1. taskQueue # <<>> /\ taskID[t] = taskQueue[1] /\ taskQueue \in Seq(IDs)
  BY DEF IInv, TypeOK, HolderIsAtFront
<1>2. \A u \in Threads : pc[u] \in {"inside", "popping"} => u = t
  BY DEF IInv, HolderIsAtFront, TicketsDiffer, TicketHeld
<1> QED
  BY <1>1, <1>2

\* A caller that gets a ticket joins the line at its end.
LEMMA AddTaskToQueueJoins ==
    ASSUME IInv, IInv', NEW t \in Threads, AddTaskToQueue(t)
    PROVE  Abstract!Join(t) /\ UNCHANGED Serving
<1>0. PICK n \in Nat : n = Len(taskQueue)
  BY DEF IInv, TypeOK
<1>1. /\ pc[t] = "outside" /\ pc' = [pc EXCEPT ![t] = "waiting"] /\ pc \in [Threads -> Where]
      /\ taskID' = [taskID EXCEPT ![t] = taskCount] /\ taskID \in [Threads -> IDs]
      /\ taskQueue \in Seq(IDs) /\ taskCount \in IDs
      /\ taskQueue' = Append(taskQueue, taskCount)
  BY DEF AddTaskToQueue, IInv, TypeOK
<1>2. Len(taskQueue') = n + 1 /\ taskQueue'[n + 1] = taskCount
      /\ \A i \in 1..n : taskQueue'[i] = taskQueue[i]
  BY <1>0, <1>1, PushTicket
<1>3. ASSUME NEW i \in 1..n
      PROVE  Holder(taskQueue[i])' = Line[i] /\ Line[i] # t
  <2>1. PICK h \in Threads : /\ h = Holder(taskQueue[i])
                            /\ pc[h] \in TicketHeld /\ taskID[h] = taskQueue[i]
    BY <1>0, HoldersAreKnown DEF HoldersKnown
  <2>2. h # t
    BY <1>1, <2>1 DEF TicketHeld
  <2>3. pc'[h] \in TicketHeld /\ taskID'[h] = taskQueue'[i]
    BY <1>1, <1>2, <2>1, <2>2
  <2>4. Holder(taskID[h])' = h
    BY <2>1, <2>3, HoldersAreKnownNext DEF HoldersKnown
  <2> QED
    BY <1>0, <2>1, <2>2, <2>3, <2>4, LineIs DEF LineFollows
<1>4. Holder(taskQueue[n + 1])' = t
  <2>1. pc'[t] \in TicketHeld /\ taskID'[t] = taskQueue'[n + 1]
    BY <1>1, <1>2 DEF TicketHeld
  <2> QED
    BY <2>1, HoldersAreKnownNext DEF HoldersKnown
<1>5. Line' = Append(Line, t)
  <2>1. Line \in Seq(Threads) /\ Len(Line) = n
    BY <1>0, LineIs DEF LineFollows
  <2>2. /\ Append(Line, t) \in Seq(Threads) /\ Len(Append(Line, t)) = n + 1
        /\ Append(Line, t)[n + 1] = t /\ \A i \in 1..n : Append(Line, t)[i] = Line[i]
    BY <1>0, <2>1
  <2>3. /\ Line' \in Seq(Threads) /\ Len(Line') = n + 1
        /\ \A i \in 1..(n + 1) : Line'[i] = Holder(taskQueue[i])'
    BY <1>0, <1>2, LineIsNext DEF LineFollows
  <2>4. \A i \in 1..(n + 1) : Line'[i] = Append(Line, t)[i]
    BY <1>0, <1>3, <1>4, <2>2, <2>3
  <2> QED
    BY <2>2, <2>3, <2>4, SameSequence
<1>6. Len(Line) < MaxTasksInQueue
  <2>1. n < MaxTasksInQueue
    BY <1>0, <1>1, SynchronizerAssumption DEF AddTaskToQueue, QueueIsFull
  <2> QED
    BY <1>0, <2>1, LineIs DEF LineFollows
<1>7. ~Abstract!InLine(t)
  <2>1. \A i \in 1..Len(Line) : Line[i] # t
    BY <1>0, <1>3, LineIs DEF LineFollows
  <2> QED
    BY <2>1 DEF Abstract!InLine, Line
<1>8. UNCHANGED Serving
  BY <1>1 DEF Serving
<1> QED
  BY <1>5, <1>6, <1>7, <1>8 DEF Abstract!Join, Line, Serving

\* pop() takes the thread that has the lock out of the line.
LEMMA UnlockPopLeaves ==
    ASSUME IInv, IInv', NEW t \in Threads, UnlockPop(t)
    PROVE  Abstract!Leave
<1>0. PICK n \in Nat : n = Len(taskQueue)
  BY DEF IInv, TypeOK
<1>1. /\ pc[t] = "popping" /\ pc' = [pc EXCEPT ![t] = "notifying"] /\ pc \in [Threads -> Where]
      /\ taskID' = taskID
      /\ taskQueue \in Seq(IDs) /\ taskQueue # <<>>
      /\ taskID[t] = Head(taskQueue) /\ taskQueue' = Tail(taskQueue)
      /\ \A u \in Threads : pc[u] \in {"inside", "popping"} => u = t
  BY HolderIsFirst DEF UnlockPop, IInv, TypeOK
<1>2. /\ n >= 1 /\ Len(taskQueue') = n - 1
      /\ \A i \in 1..(n - 1) : taskQueue'[i] = taskQueue[i + 1]
  BY <1>0, <1>1, PopTicket
<1>3. Serving /\ ~Serving'
  BY <1>1 DEF Serving
<1>4. ASSUME NEW i \in 1..(n - 1)
      PROVE  Holder(taskQueue[i])' = Line[i + 1]
  <2>1. PICK h \in Threads : /\ h = Holder(taskQueue[i])'
                            /\ pc'[h] \in TicketHeld /\ taskID'[h] = taskQueue'[i]
    BY <1>0, <1>2, HoldersAreKnownNext DEF HoldersKnown
  <2>2. pc[h] \in TicketHeld /\ taskID[h] = taskQueue[i + 1]
    BY <1>1, <1>2, <2>1 DEF TicketHeld
  <2>3. Holder(taskID[h]) = h
    BY <2>1, <2>2, HoldersAreKnown DEF HoldersKnown
  <2> QED
    BY <1>0, <1>2, <2>1, <2>2, <2>3, LineIs DEF LineFollows
<1>5. Line' = Tail(Line) /\ Line # <<>>
  <2>1. Line \in Seq(Threads) /\ Len(Line) = n /\ Line # <<>>
    BY <1>0, <1>2, LineIs DEF LineFollows
  <2>2. /\ Tail(Line) \in Seq(Threads) /\ Len(Tail(Line)) = n - 1
        /\ \A i \in 1..(n - 1) : Tail(Line)[i] = Line[i + 1]
    BY <1>0, <1>2, <2>1
  <2>3. /\ Line' \in Seq(Threads) /\ Len(Line') = n - 1
        /\ \A i \in 1..(n - 1) : Line'[i] = Holder(taskQueue[i])'
    BY <1>0, <1>2, LineIsNext DEF LineFollows
  <2>4. \A i \in 1..(n - 1) : Line'[i] = Tail(Line)[i]
    BY <1>4, <2>2, <2>3
  <2> QED
    BY <2>1, <2>2, <2>3, <2>4, SameSequence
<1> QED
  BY <1>3, <1>5 DEF Abstract!Leave, Line, Serving

LEMMA StepIsAbstract == IInv /\ IInv' /\ [Next]_syncVars => [Abstract!Next]_(Abstract!lockVars)
<1> SUFFICES ASSUME IInv, IInv', [Next]_syncVars
             PROVE  Abstract!Next \/ UNCHANGED Abstract!lockVars
  OBVIOUS
<1>1. UNCHANGED <<Line, Serving>> => UNCHANGED Abstract!lockVars
  BY DEF Abstract!lockVars, Line, Serving
<1>2. pc \in [Threads -> Where] /\ taskQueue \in Seq(IDs)
  BY DEF IInv, TypeOK
<1>3. ASSUME NEW t \in Threads, AddTaskToQueue(t) PROVE Abstract!Next
  BY <1>3, AddTaskToQueueJoins DEF Abstract!Next
<1>4. ASSUME NEW t \in Threads, AddTaskToQueueThrows(t) \/ SpuriousWakeup(t)
      PROVE  UNCHANGED <<Line, Serving>>
  <2>1. UNCHANGED <<taskQueue, taskID>>
        /\ \A u \in Threads : pc[u] \in TicketHeld => pc'[u] \in TicketHeld
    BY <1>2, <1>4 DEF AddTaskToQueueThrows, SpuriousWakeup, TicketHeld
  <2>2. UNCHANGED Serving
    BY <1>2, <1>4 DEF AddTaskToQueueThrows, SpuriousWakeup, Serving
  <2> QED
    BY <2>1, <2>2, LineStays
<1>5. ASSUME NEW t \in Threads, WaitInQueue(t)
      PROVE  Abstract!Next \/ UNCHANGED <<Line, Serving>>
  <2>1. UNCHANGED <<taskQueue, taskID>> /\ pc[t] = "waiting"
        /\ \A u \in Threads : pc[u] \in TicketHeld => pc'[u] \in TicketHeld
    BY <1>2, <1>5 DEF WaitInQueue, TicketHeld
  <2>2. UNCHANGED Line
    BY <2>1, LineStays
  <2>3. CASE MyTurn(t)
    <3>1. ~Serving
      <4> SUFFICES ASSUME NEW u \in Threads, pc[u] \in {"inside", "popping"} PROVE FALSE
        BY DEF Serving
      <4>1. taskID[u] = taskID[t] /\ u # t
        BY <2>1, <2>3, HolderIsFirst DEF MyTurn
      <4> QED
        BY <2>1, <4>1 DEF IInv, TicketsDiffer, TicketHeld
    <3>2. Serving'
      BY <1>2, <1>5, <2>3 DEF WaitInQueue, Serving
    <3>3. Line # <<>>
      <4>1. taskQueue # <<>>
        BY <2>1 DEF IInv, TypeOK, TicketIsQueued, TicketHeld
      <4> QED
        BY <1>2, <4>1, LineIs DEF LineFollows
    <3>4. Abstract!Enter
      BY <2>2, <3>1, <3>2, <3>3 DEF Abstract!Enter, Line, Serving
    <3> QED
      BY <3>4 DEF Abstract!Next
  <2>4. CASE ~MyTurn(t)
    <3>1. UNCHANGED Serving
      BY <1>2, <1>5, <2>4 DEF WaitInQueue, Serving
    <3> QED
      BY <2>2, <3>1
  <2> QED
    BY <2>3, <2>4
<1>6. ASSUME NEW t \in Threads, UnlockAcquire(t) PROVE UNCHANGED <<Line, Serving>>
  <2>1. /\ pc[t] = "inside" /\ pc' = [pc EXCEPT ![t] = "popping"]
        /\ UNCHANGED <<taskQueue, taskID>>
    BY <1>6 DEF UnlockAcquire, IInv, HolderIsAtFront
  <2>2. \A u \in Threads : pc[u] \in TicketHeld => pc'[u] \in TicketHeld
    BY <1>2, <2>1 DEF TicketHeld
  <2>3. UNCHANGED Serving
    BY <1>2, <2>1 DEF Serving
  <2> QED
    BY <2>1, <2>2, <2>3, LineStays
<1>7. ASSUME NEW t \in Threads, UnlockPop(t) PROVE Abstract!Next
  BY <1>7, UnlockPopLeaves DEF Abstract!Next
<1>8. ASSUME NEW t \in Threads, UnlockNotify(t) PROVE UNCHANGED <<Line, Serving>>
  <2>1. /\ pc[t] = "notifying" /\ UNCHANGED <<taskQueue, taskID>>
        /\ pc' = [u \in Threads |-> IF u = t THEN "outside"
                                     ELSE IF pc[u] = "asleep" THEN "waiting" ELSE pc[u]]
    BY <1>8 DEF UnlockNotify, WokenByNotifyAll
  <2>2. \A u \in Threads : pc[u] \in TicketHeld => pc'[u] \in TicketHeld
    BY <2>1 DEF TicketHeld
  <2>3. UNCHANGED Serving
    BY <2>1 DEF Serving
  <2> QED
    BY <2>1, <2>2, <2>3, LineStays
<1>9. CASE UNCHANGED syncVars
  BY <1>9 DEF syncVars, Line, Serving, Holder, Abstract!lockVars
<1> QED
  BY <1>1, <1>3, <1>4, <1>5, <1>6, <1>7, <1>8, <1>9 DEF Next, Proceed

(* The synchronizer is a FIFO lock: its first state and each of its steps  *)
(* is one of FifoLock, or leaves the line and the service as they are.     *)
THEOREM SynchronizerIsAFifoLock == Spec => Abstract!Init /\ [][Abstract!Next]_(Abstract!lockVars)
<1>1. Init => Abstract!Init
  BY DEF Init, Abstract!Init
<1> QED
  BY <1>1, StepIsAbstract, InvariantHolds, PTL DEF Spec
=============================================================================
