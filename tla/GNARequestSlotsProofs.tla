----------------------- MODULE GNARequestSlotsProofs -----------------------
(***************************************************************************)
(* Proofs about GNARequestSlots for every set of requests and every number *)
(* of slots, when no request is used again before it is synced: the types, *)
(* a request whose blob takes scores is given its own result, and a taken  *)
(* slot holds the inference of a request that has still to be told of its  *)
(* end.                                                                    *)
(*                                                                         *)
(* The argument: a slot knows the blobs it was started with, so it does    *)
(* not matter who waits for it; and a request has at most one slot, so its *)
(* blob is up to date as soon as no slot is taken for it.                  *)
(***************************************************************************)
EXTENDS GNARequestSlots, TLAPS

\* The calls that queue an inference are those of idle requests; an Infer()
\* that synchronises does so with the slot it has taken.
CallOK ==
    /\ call.at = "queue" => call.op \in {"StartAsync", "Infer"}
    /\ call.at = "reclaim" => call.op \in {"StartAsync", "Infer"} /\ hasMemory
    /\ call.op \in {"StartAsync", "Infer"} => status[call.of] \in {"idle", "thrown"}
    /\ call.at \in {"reclaim", "sync"} => call.slot \in Slots
    /\ call.at = "sync" =>
        \/ call.op = "Wait" /\ call.slot = inferRequestIdx[call.of]
        \/ call.op = "Infer" /\ ~IsFree(call.slot) /\ slot[call.slot].result = call.of
    /\ call # NoCall => call.of \in Requests /\ call.op # "none"

\* What the slots hold, and will hold, are the results of their requests.
OutputsAreOwn ==
    \A s \in Slots :
        /\ ~IsFree(s) => slot[s].result \in Requests
        /\ slot[s].at = "running" => expected[slot[s].result] = Result(memory, slot[s].in)
        /\ slot[s].at = "done" => expected[slot[s].result] = slot[s].out

\* The device has run everything that it took, or all but the last one.
MemoryFollows ==
    hasMemory => history = IF slot[1].at = "running" THEN Append(memory, slot[1].in) ELSE memory

HasSlot(r) == \E s \in Slots : ~IsFree(s) /\ slot[s].result = r

BlobsUpToDate ==
    \A r \in Requests : ~HasSlot(r) /\ layout[r] = "NC" => blob[r] = expected[r]

Inv == TypeOK /\ CallOK /\ OutputsAreOwn /\ MemoryFollows /\ BlobsUpToDate /\ TakenSlotsArePending

-----------------------------------------------------------------------------
\* There is a slot, and only one when there is memory.
LEMMA SlotsAre ==
    /\ 1 \in Slots /\ Slots \subseteq Nat /\ None \notin Slots
    /\ hasMemory => Slots = {1}
BY SlotsAssumption DEF Slots

LEMMA SlotsStay == ASSUME UNCHANGED hasMemory PROVE Slots' = Slots
BY DEF Slots

LEMMA ResultType ==
    ASSUME NEW past \in Seq(Nat), NEW n \in Nat
    PROVE  Result(past, n) \in Seq(Nat)
BY DEF Result

\* A slot changes, the others stay as they are.
LEMMA SlotChange ==
    ASSUME TypeOK, NEW s \in Slots, NEW rec \in SlotStates,
           slot' = [slot EXCEPT ![s] = rec]
    PROVE  /\ slot' \in [Slots -> SlotStates]
           /\ slot'[s] = rec
           /\ \A t \in Slots \ {s} : slot'[t] = slot[t]
BY DEF TypeOK

\* Requests without a slot are neither queueing nor told to wait.
LEMMA IdleHasNoSlot ==
    ASSUME Inv, NEW r \in Requests, status[r] \in {"idle", "thrown"}, ~(Infering(r) /\ call.at = "sync")
    PROVE  ~HasSlot(r)
BY DEF Inv, TakenSlotsArePending, Pending, HasSlot

\* Steps that take no slot and keep what is known of the taken ones.
LEMMA TakenFrame ==
    ASSUME TakenSlotsArePending, Slots' = Slots,
           \A t \in Slots : ~IsFree(t)' =>
               /\ ~IsFree(t) /\ slot'[t].result = slot[t].result
               /\ Pending(slot[t].result, t) => Pending(slot[t].result, t)'
    PROVE  TakenSlotsArePending'
<1> SUFFICES ASSUME NEW s \in Slots, ~IsFree(s)'
             PROVE  /\ Pending(slot[s].result, s)'
                    /\ \A t \in Slots \ {s} : ~IsFree(t)' => slot'[t].result # slot'[s].result
  BY DEF TakenSlotsArePending
<1>1. /\ ~IsFree(s) /\ slot'[s].result = slot[s].result
      /\ Pending(slot[s].result, s)
      /\ Pending(slot[s].result, s) => Pending(slot[s].result, s)'
  BY DEF TakenSlotsArePending
<1> QED
  BY <1>1 DEF TakenSlotsArePending

\* Steps that leave the taken slots and their results alone.
LEMMA OutputsFrame ==
    ASSUME OutputsAreOwn, Slots' = Slots, UNCHANGED <<hasMemory, layout, memory, expected>>,
           \A t \in Slots : slot'[t].at # "free" => slot'[t] = slot[t]
    PROVE  OutputsAreOwn'
BY DEF OutputsAreOwn, IsFree, Result

LEMMA InitInv == Init => Inv
<1> SUFFICES ASSUME Init PROVE Inv
  OBVIOUS
<1> USE SlotsAre
<1>1. TypeOK
  BY DEF Init, TypeOK, SlotStates, Calls
<1>2. \A s \in Slots : IsFree(s) /\ slot[s].at = "free"
  BY DEF Init, IsFree
<1>3. CallOK
  BY DEF Init, CallOK, NoCall
<1>4. MemoryFollows
  BY <1>2 DEF Init, MemoryFollows
<1>5. OutputsAreOwn /\ TakenSlotsArePending
  BY <1>2 DEF OutputsAreOwn, TakenSlotsArePending
<1>6. BlobsUpToDate
  BY DEF Init, BlobsUpToDate
<1> QED
  BY <1>1, <1>3, <1>4, <1>5, <1>6 DEF Inv

-----------------------------------------------------------------------------
\* A step that changes nothing but the call.
LEMMA CallStep ==
    ASSUME Inv, UNCHANGED <<hasMemory, layout, slot, memory, blob, inferences, requestVars, history>>,
           call' \in {NoCall} \cup Calls,
           CallOK',
           \A r \in Requests : (Infering(r) /\ call.at = "sync") => call' = call
    PROVE  Inv'
<1> USE DEF Inv, requestVars
<1>0. Slots' = Slots
  BY SlotsStay
<1>1. TypeOK'
  BY <1>0 DEF TypeOK, SlotStates, Calls
<1>2. OutputsAreOwn' /\ MemoryFollows'
  BY <1>0 DEF OutputsAreOwn, MemoryFollows, IsFree, Result
<1>3. BlobsUpToDate'
  BY <1>0 DEF BlobsUpToDate, HasSlot, IsFree
<1>4. TakenSlotsArePending'
  BY <1>0 DEF TakenSlotsArePending, Pending, OutputsAreOwn, IsFree, Infering
<1> QED
  BY <1>1, <1>2, <1>3, <1>4

LEMMA InfersInv ==
    ASSUME Inv, NEW r \in Requests, NEW op \in {"StartAsync", "Infer"}, Infers(r, op), Reuses = FALSE
    PROVE  Inv'
<1>1. call' = [op |-> op, of |-> r, at |-> "queue", slot |-> None] /\ status[r] \in {"idle", "thrown"}
  BY DEF Infers
<1>2. UNCHANGED <<hasMemory, layout, slot, memory, blob, inferences, requestVars, history>> /\ call = NoCall
  BY DEF Infers
<1>3. CallOK'
  BY <1>1, <1>2 DEF CallOK, NoCall, requestVars
<1> QED
  BY <1>1, <1>2, <1>3, CallStep DEF Infering, NoCall, Calls

LEMMA WaitsInv ==
    ASSUME Inv, NEW r \in Requests, Waits(r)
    PROVE  Inv'
<1>1. /\ call' = [op |-> "Wait", of |-> r, at |-> "sync", slot |-> inferRequestIdx[r]]
      /\ inferRequestIdx[r] \in Slots
  BY DEF Waits, Inv, TypeOK
<1>2. UNCHANGED <<hasMemory, layout, slot, memory, blob, inferences, requestVars, history>> /\ call = NoCall
  BY DEF Waits
<1>3. CallOK'
  BY <1>1, <1>2, SlotsStay DEF CallOK, NoCall, requestVars
<1> QED
  BY <1>1, <1>2, <1>3, CallStep DEF Infering, NoCall, Calls

LEMMA ReclaimInv == ASSUME Inv, Reclaim PROVE Inv'
<1>1. /\ call \in Calls
      /\ call.at = "queue"
  BY DEF Reclaim, Queueing, Inv, TypeOK, NoCall
<1>2. /\ call' = [call EXCEPT !.at = "reclaim", !.slot = 1]
      /\ UNCHANGED <<hasMemory, layout, slot, memory, blob, inferences, requestVars, history>>
      /\ hasMemory
  BY DEF Reclaim
<1>3. /\ call'.at = "reclaim" /\ call'.slot = 1 /\ call'.of = call.of /\ call'.op = call.op
      /\ call' \in Calls
  BY <1>1, <1>2, SlotsAre DEF Calls
<1>4. CallOK'
  BY <1>1, <1>2, <1>3, SlotsAre, SlotsStay DEF Inv, CallOK, requestVars, Calls
<1> QED
  BY <1>1, <1>2, <1>3, <1>4, CallStep

LEMMA RefuseInv == ASSUME Inv, Refuse PROVE Inv'
<1>1. CallOK'
  BY DEF Refuse, CallOK, NoCall
<1> QED
  BY <1>1, CallStep DEF Refuse, Queueing

-----------------------------------------------------------------------------
\* The call that queues is one of an idle request, which has no slot.
LEMMA QueueingCall ==
    ASSUME Inv, Queueing
    PROVE  /\ call \in Calls
           /\ call.op \in {"StartAsync", "Infer"}
           /\ call.of \in Requests
           /\ status[call.of] \in {"idle", "thrown"} /\ ~HasSlot(call.of)
<1>1. /\ call \in Calls
      /\ call.op \in {"StartAsync", "Infer"}
  BY DEF Queueing, Inv, TypeOK, CallOK, NoCall
<1>2. call.of \in Requests /\ status[call.of] \in {"idle", "thrown"}
  BY <1>1 DEF Inv, CallOK, Calls
<1>3. ~HasSlot(call.of)
  BY <1>2, IdleHasNoSlot DEF Queueing
<1> QED
  BY <1>1, <1>2, <1>3

LEMMA PropagateInv ==
    ASSUME Inv, NEW s \in Slots, Propagate(s)
    PROVE  Inv'
<1> DEFINE n == inferences + 1
           r == call.of
<1> USE DEF Inv
<1>0. Slots' = Slots /\ UNCHANGED <<hasMemory, layout, memory, blob>>
  BY SlotsStay DEF Propagate
<1>1. /\ call \in Calls
      /\ call.op \in {"StartAsync", "Infer"} /\ call.at = "queue"
      /\ r \in Requests /\ status[r] \in {"idle", "thrown"} /\ ~HasSlot(r)
  BY QueueingCall DEF Propagate, Queueing
<1>2. slot[s].at = "free" /\ n \in Nat /\ Result(history, n) \in Seq(Nat)
  <2>1. slot[s].at = "free"
    BY DEF Propagate, FirstFree, IsFree
  <2>2. n \in Nat /\ history \in Seq(Nat)
    BY DEF TypeOK
  <2> QED
    BY <2>1, <2>2, ResultType
<1>3. /\ slot' \in [Slots -> SlotStates]
      /\ slot'[s].at = "running" /\ slot'[s].in = n /\ slot'[s].result = r
      /\ \A t \in Slots \ {s} : slot'[t] = slot[t]
  <2> DEFINE rec == [slot[s] EXCEPT !.at = "running", !.in = n, !.result = r]
  <2>1. slot' = [slot EXCEPT ![s] = rec]
    BY DEF Propagate
  <2>2. /\ rec \in SlotStates
        /\ rec.at = "running" /\ rec.in = n /\ rec.result = r
    BY <1>1, <1>2 DEF SlotStates, TypeOK
  <2> QED
    BY <2>1, <2>2, SlotChange
<1>4. /\ expected' \in [Requests -> Seq(Nat)] /\ expected'[r] = Result(history, n)
      /\ \A q \in Requests \ {r} : expected'[q] = expected[q]
      /\ history' = Result(history, n)
  BY <1>1, <1>2 DEF Propagate, TypeOK
<1>5. \A t \in Slots \ {s} : ~IsFree(t) => slot[t].result # r
  BY <1>1 DEF HasSlot
<1>6. OutputsAreOwn'
  <2>1. Result(history, n) = IF hasMemory THEN Append(memory, n) ELSE <<n>>
    BY <1>2, SlotsAre DEF Result, MemoryFollows
  <2> SUFFICES ASSUME NEW t \in Slots, slot'[t].at # "free"
               PROVE  /\ slot'[t].result \in Requests
                      /\ slot'[t].at = "running" =>
                            expected'[slot'[t].result] =
                              IF hasMemory THEN Append(memory, slot'[t].in) ELSE <<slot'[t].in>>
                      /\ slot'[t].at = "done" => expected'[slot'[t].result] = slot'[t].out
    BY <1>0 DEF OutputsAreOwn, Result, IsFree
  <2>2. CASE t = s
    BY <1>1, <1>3, <1>4, <2>1, <2>2
  <2>3. CASE t # s
    <3>1. slot'[t] = slot[t] /\ slot[t].result # r /\ slot[t].result \in Requests
      BY <1>3, <1>5, <2>3 DEF OutputsAreOwn, IsFree
    <3> QED
      BY <1>4, <3>1 DEF OutputsAreOwn, Result
  <2> QED
    BY <2>2, <2>3
<1>7. MemoryFollows'
  BY <1>0, <1>2, <1>3, <1>4, SlotsAre DEF MemoryFollows, Result
<1>8. BlobsUpToDate'
  <2> SUFFICES ASSUME NEW q \in Requests, ~HasSlot(q)', layout[q] = "NC" PROVE blob'[q] = expected'[q]
    BY <1>0 DEF BlobsUpToDate
  <2>1. q # r
    BY <1>0, <1>3 DEF HasSlot, IsFree
  <2>2. ~HasSlot(q)
    BY <1>0, <1>2, <1>3 DEF HasSlot, IsFree
  <2> QED
    BY <1>0, <1>4, <2>1, <2>2 DEF BlobsUpToDate
<1>9. CASE call.op = "Infer"
  <2>1. /\ call' = [call EXCEPT !.at = "sync", !.slot = s]
        /\ UNCHANGED <<inferRequestIdx, status>>
    BY <1>9 DEF Propagate
  <2>2. /\ call'.at = "sync" /\ call'.slot = s /\ call'.of = r /\ call'.op = "Infer"
        /\ call' \in Calls
    BY <1>1, <1>9, <2>1 DEF Calls
  <2>3. TypeOK'
    BY <1>0, <1>2, <1>3, <1>4, <2>1, <2>2 DEF Propagate, TypeOK, SlotStates, Calls
  <2>4. CallOK'
    BY <1>0, <1>1, <1>3, <2>1, <2>2 DEF CallOK, IsFree
  <2>5. TakenSlotsArePending'
    <3> SUFFICES ASSUME NEW t \in Slots, ~IsFree(t)'
                 PROVE  /\ Pending(slot[t].result, t)'
                        /\ \A u \in Slots \ {t} : ~IsFree(u)' => slot'[u].result # slot'[t].result
      BY <1>0 DEF TakenSlotsArePending
    <3>1. CASE t = s
      BY <1>3, <1>5, <2>2, <3>1 DEF Pending, Infering, IsFree, TypeOK
    <3>2. CASE t # s
      <4>1. ~IsFree(t) /\ slot'[t] = slot[t] /\ slot[t].result # r /\ slot[t].result \in Requests
        BY <1>3, <1>5, <3>2 DEF IsFree, OutputsAreOwn
      <4>2. Pending(slot[t].result, t)'
        BY <1>1, <2>1, <4>1 DEF TakenSlotsArePending, Pending, Infering, NoCall
      <4>3. \A u \in Slots \ {t} : ~IsFree(u)' => slot'[u].result # slot'[t].result
        BY <1>3, <4>1 DEF TakenSlotsArePending, IsFree
      <4> QED
        BY <4>2, <4>3
    <3> QED
      BY <3>1, <3>2
  <2> QED
    BY <1>6, <1>7, <1>8, <2>3, <2>4, <2>5
<1>10. CASE call.op = "StartAsync"
  <2>1. /\ call' = NoCall
        /\ inferRequestIdx' = [inferRequestIdx EXCEPT ![r] = s]
        /\ status' = [status EXCEPT ![r] = "started"]
    BY <1>10 DEF Propagate
  <2>2. TypeOK'
    BY <1>0, <1>2, <1>3, <1>4, <2>1 DEF Propagate, TypeOK
  <2>3. CallOK'
    BY <2>1 DEF CallOK, NoCall
  <2>4. TakenSlotsArePending'
    <3> SUFFICES ASSUME NEW t \in Slots, ~IsFree(t)'
                 PROVE  /\ Pending(slot[t].result, t)'
                        /\ \A u \in Slots \ {t} : ~IsFree(u)' => slot'[u].result # slot'[t].result
      BY <1>0 DEF TakenSlotsArePending
    <3>1. CASE t = s
      BY <1>1, <1>3, <1>5, <2>1, <3>1 DEF Pending, Infering, IsFree, TypeOK
    <3>2. CASE t # s
      <4>1. ~IsFree(t) /\ slot'[t] = slot[t] /\ slot[t].result # r /\ slot[t].result \in Requests
        BY <1>3, <1>5, <3>2 DEF IsFree, OutputsAreOwn
      <4>2. Pending(slot[t].result, t)'
        BY <1>1, <2>1, <4>1 DEF TakenSlotsArePending, Pending, Infering, NoCall
      <4>3. \A u \in Slots \ {t} : ~IsFree(u)' => slot'[u].result # slot'[t].result
        BY <1>3, <4>1 DEF TakenSlotsArePending, IsFree
      <4> QED
        BY <4>2, <4>3
    <3> QED
      BY <3>1, <3>2
  <2> QED
    BY <1>6, <1>7, <1>8, <2>2, <2>3, <2>4
<1> QED
  BY <1>1, <1>9, <1>10

LEMMA PropagateThrowsInv ==
    ASSUME Inv, NEW s \in Slots, PropagateThrows(s)
    PROVE  Inv'
<1> USE DEF Inv
<1>0. Slots' = Slots /\ UNCHANGED <<hasMemory, layout, memory, blob, inferRequestIdx, status, expected, history>>
  BY SlotsStay DEF PropagateThrows, requestVars
<1>1. /\ slot[s].at = "free" /\ inferences' \in Nat /\ inferences + 1 \in Nat
      /\ call.at = "queue"
  BY DEF PropagateThrows, Queueing, FirstFree, IsFree, TypeOK
<1>2. /\ slot' \in [Slots -> SlotStates]
      /\ slot'[s].at = "free"
      /\ \A t \in Slots \ {s} : slot'[t] = slot[t]
      /\ \A t \in Slots : slot'[t].at = slot[t].at /\ slot'[t].result = slot[t].result
  <2> DEFINE rec == [slot[s] EXCEPT !.in = inferences + 1]
  <2>1. slot' = [slot EXCEPT ![s] = rec]
    BY DEF PropagateThrows, TypeOK
  <2>2. rec \in SlotStates /\ rec.at = "free" /\ rec.result = slot[s].result
    BY <1>1 DEF SlotStates, TypeOK
  <2>3. slot'[s] = rec /\ \A t \in Slots \ {s} : slot'[t] = slot[t]
    BY <2>1, <2>2, SlotChange
  <2> QED
    BY <1>1, <2>1, <2>2, <2>3, SlotChange
<1>3. TypeOK'
  BY <1>0, <1>1, <1>2 DEF PropagateThrows, TypeOK
<1>4. CallOK'
  BY DEF PropagateThrows, CallOK, NoCall
<1>5. OutputsAreOwn'
  BY <1>0, <1>2, OutputsFrame
<1>8. MemoryFollows'
  BY <1>0, <1>1, <1>2, SlotsAre DEF MemoryFollows
<1>6. BlobsUpToDate'
  BY <1>0, <1>2 DEF BlobsUpToDate, HasSlot, IsFree
<1>7. TakenSlotsArePending'
  <2>1. \A t \in Slots : ~IsFree(t)' => ~IsFree(t) /\ slot'[t].result = slot[t].result
    BY <1>2 DEF IsFree
  <2>2. \A t \in Slots : Pending(slot[t].result, t) => Pending(slot[t].result, t)'
    BY <1>0, <1>1, <1>2 DEF Pending
  <2> QED
    BY <1>0, <2>1, <2>2, TakenFrame
<1> QED
  BY <1>3, <1>4, <1>5, <1>6, <1>7, <1>8

LEMMA DeviceRunsInv ==
    ASSUME Inv, NEW s \in Slots, DeviceRuns(s)
    PROVE  Inv'
<1> USE DEF Inv
<1>0. /\ Slots' = Slots
      /\ UNCHANGED <<hasMemory, layout, blob, call, inferences, inferRequestIdx, status, expected, history>>
  BY SlotsStay DEF DeviceRuns, requestVars
<1>1. slot[s].at = "running" /\ Result(memory, slot[s].in) \in Seq(Nat)
  BY ResultType DEF DeviceRuns, TypeOK, SlotStates
<1>2. /\ slot' \in [Slots -> SlotStates]
      /\ slot'[s].at = "done" /\ slot'[s].out = Result(memory, slot[s].in)
      /\ \A t \in Slots \ {s} : slot'[t] = slot[t]
      /\ \A t \in Slots : slot'[t].result = slot[t].result
      /\ \A t \in Slots : slot'[t].at = "free" <=> slot[t].at = "free"
  <2> DEFINE rec == [slot[s] EXCEPT !.at = "done", !.out = Result(memory, slot[s].in)]
  <2>1. slot' = [slot EXCEPT ![s] = rec]
    BY DEF DeviceRuns, TypeOK
  <2>2. /\ rec \in SlotStates
        /\ rec.at = "done" /\ rec.out = Result(memory, slot[s].in) /\ rec.result = slot[s].result
    BY <1>1 DEF SlotStates, TypeOK
  <2>3. slot'[s] = rec /\ \A t \in Slots \ {s} : slot'[t] = slot[t]
    BY <2>1, <2>2, SlotChange
  <2> QED
    BY <1>1, <2>1, <2>2, <2>3, SlotChange
<1>3. memory' = (IF hasMemory THEN Append(memory, slot[s].in) ELSE memory) /\ memory' \in Seq(Nat)
  BY DEF DeviceRuns, TypeOK, SlotStates
<1>4. TypeOK'
  BY <1>0, <1>2, <1>3 DEF TypeOK, SlotStates, Calls
<1>5. CallOK'
  BY <1>0, <1>2 DEF CallOK, IsFree
<1>6. OutputsAreOwn'
  <2> SUFFICES ASSUME NEW t \in Slots, slot'[t].at # "free"
               PROVE  /\ slot'[t].result \in Requests
                      /\ slot'[t].at = "running" =>
                            expected[slot'[t].result] =
                              IF hasMemory THEN Append(memory', slot'[t].in) ELSE <<slot'[t].in>>
                      /\ slot'[t].at = "done" => expected[slot'[t].result] = slot'[t].out
    BY <1>0 DEF OutputsAreOwn, Result, IsFree
  <2>1. CASE t = s
    BY <1>1, <1>2, <2>1 DEF OutputsAreOwn, IsFree
  <2>2. CASE t # s
    <3>1. slot'[t] = slot[t] /\ slot[t].at # "free"
      BY <1>2, <2>2
    <3>2. ~hasMemory
      BY <2>2, SlotsAre
    <3> QED
      BY <3>1, <3>2 DEF OutputsAreOwn, IsFree, Result
  <2> QED
    BY <2>1, <2>2
<1>7. MemoryFollows'
  BY <1>0, <1>1, <1>2, <1>3, SlotsAre DEF MemoryFollows
<1>8. BlobsUpToDate'
  BY <1>0, <1>2 DEF BlobsUpToDate, HasSlot, IsFree
<1>9. TakenSlotsArePending'
  <2>1. \A t \in Slots : ~IsFree(t)' => ~IsFree(t) /\ slot'[t].result = slot[t].result
    BY <1>2 DEF IsFree
  <2>2. \A t \in Slots : Pending(slot[t].result, t) => Pending(slot[t].result, t)'
    BY <1>0, <1>2 DEF Pending, Infering
  <2> QED
    BY <1>0, <2>1, <2>2, TakenFrame
<1> QED
  BY <1>4, <1>5, <1>6, <1>7, <1>8, <1>9

-----------------------------------------------------------------------------
\* The slot of a call that synchronises.
LEMMA SyncingCall ==
    ASSUME Inv, Syncing
    PROVE  /\ call \in Calls
           /\ call.slot \in Slots
           /\ call.of \in Requests
BY DEF Inv, TypeOK, Syncing, CallOK, NoCall

\* The slot is free afterwards, and the blob of its request up to date.
LEMMA SyncFrees ==
    ASSUME Inv, NEW s \in Slots, Sync(s), Slots' = Slots, UNCHANGED <<layout, expected>>
    PROVE  /\ slot' \in [Slots -> SlotStates]
           /\ slot'[s].at = "free"
           /\ \A t \in Slots \ {s} : slot'[t] = slot[t]
           /\ slot[s].at # "running"
           /\ blob' \in [Requests -> Seq(Nat)]
           /\ BlobsUpToDate'
<1> USE DEF Inv
<1>1. CASE IsFree(s)
  BY <1>1 DEF Sync, TypeOK, IsFree, BlobsUpToDate, HasSlot
<1>2. CASE ~IsFree(s)
  <2> DEFINE r == slot[s].result
  <2>1. /\ slot' = [slot EXCEPT ![s].at = "free"]
        /\ blob' = [blob EXCEPT ![r] = Scores(s)]
        /\ slot[s].at = "done"
        /\ layout[r] = "NC" => Scores(s) = slot[s].out
        /\ Scores(s) \in Seq(Nat)
    BY <1>2 DEF Sync, Frees, Receiver, Scores, NoScores, TypeOK, IsFree, SlotStates
  <2>2. r \in Requests /\ expected[r] = slot[s].out
    BY <1>2, <2>1 DEF OutputsAreOwn
  <2>3. /\ slot' \in [Slots -> SlotStates]
        /\ slot'[s].at = "free"
        /\ \A t \in Slots \ {s} : slot'[t] = slot[t]
    BY <2>1 DEF TypeOK, SlotStates
  <2>4. /\ blob' \in [Requests -> Seq(Nat)]
        /\ layout[r] = "NC" => blob'[r] = expected[r]
        /\ \A q \in Requests \ {r} : blob'[q] = blob[q]
    BY <2>1, <2>2 DEF TypeOK
  <2>5. BlobsUpToDate'
    <3> SUFFICES ASSUME NEW q \in Requests, ~HasSlot(q)', layout[q] = "NC" PROVE blob'[q] = expected[q]
      BY DEF BlobsUpToDate
    <3>1. q # r => ~HasSlot(q)
      BY <2>3 DEF HasSlot, IsFree
    <3> QED
      BY <2>4, <3>1 DEF BlobsUpToDate
  <2> QED
    BY <2>1, <2>3, <2>4, <2>5
<1> QED
  BY <1>1, <1>2

LEMMA SyncedInv == ASSUME Inv, Synced PROVE Inv'
<1> DEFINE s == call.slot
<1> USE DEF Inv
<1>0. /\ Slots' = Slots
      /\ UNCHANGED <<hasMemory, layout, memory, inferences, inferRequestIdx, expected, history>>
  BY SlotsStay DEF Synced
<1>1. /\ call \in Calls
      /\ s \in Slots /\ call.of \in Requests /\ Syncing /\ Sync(s)
  BY SyncingCall DEF Synced
<1>2. /\ slot' \in [Slots -> SlotStates]
      /\ slot'[s].at = "free" /\ slot[s].at # "running"
      /\ \A t \in Slots \ {s} : slot'[t] = slot[t]
      /\ blob' \in [Requests -> Seq(Nat)]
      /\ BlobsUpToDate'
  BY <1>0, <1>1, SyncFrees
<1>3. OutputsAreOwn' /\ MemoryFollows'
  <2>1. OutputsAreOwn'
    BY <1>0, <1>2, OutputsFrame
  <2> QED
    BY <1>0, <1>1, <1>2, <2>1, SlotsAre DEF MemoryFollows
<1>4. CASE call.at = "reclaim"
  <2>1. /\ call' = [call EXCEPT !.at = "queue", !.slot = None]
        /\ UNCHANGED status
    BY <1>4 DEF Synced
  <2>2. /\ call'.at = "queue" /\ call'.op = call.op /\ call'.of = call.of
        /\ call' \in Calls
    BY <1>1, <2>1 DEF Calls
  <2>3. TypeOK'
    BY <1>0, <1>2, <2>1, <2>2 DEF TypeOK, SlotStates, Calls
  <2>4. CallOK'
    BY <1>1, <1>4, <2>1, <2>2 DEF CallOK
  <2>5. TakenSlotsArePending'
    <3>1. \A t \in Slots : ~IsFree(t)' => ~IsFree(t) /\ slot'[t] = slot[t]
      BY <1>2 DEF IsFree
    <3>2. \A t \in Slots : ~IsFree(t)' =>
             (Pending(slot[t].result, t) => Pending(slot[t].result, t)')
      BY <1>0, <1>4, <2>1, <3>1 DEF Pending
    <3> QED
      BY <1>0, <3>1, <3>2, TakenFrame
  <2> QED
    BY <1>2, <1>3, <2>3, <2>4, <2>5
<1>5. CASE call.at # "reclaim"
  <2>1. /\ call' = NoCall /\ call.at = "sync"
        /\ status' = IF call.op = "Wait" /\ status[call.of] = "started"
                     THEN [status EXCEPT ![call.of] = "idle"] ELSE status
    BY <1>1, <1>5 DEF Synced, Syncing
  <2>2. TypeOK'
    BY <1>0, <1>1, <1>2, <2>1 DEF TypeOK
  <2>3. CallOK'
    BY <2>1 DEF CallOK, NoCall
  <2>4. call.op \in {"Wait", "Infer"} /\ call.op = "Infer" => slot[s].result = call.of
    BY <1>1, <2>1 DEF CallOK
  <2>6. TakenSlotsArePending'
    <3>1. \A t \in Slots : ~IsFree(t)' => t # s /\ ~IsFree(t) /\ slot'[t] = slot[t]
      BY <1>2 DEF IsFree
    <3>2. ASSUME NEW t \in Slots, ~IsFree(t)', Pending(slot[t].result, t)
          PROVE  Pending(slot[t].result, t)'
      <4>1. /\ slot'[t] = slot[t] /\ t # s
            /\ \/ status[slot[t].result] = "started" /\ inferRequestIdx[slot[t].result] = t
               \/ status[slot[t].result] = "failed"
        BY <3>1, <3>2 DEF Pending
      <4>2. call.of = slot[t].result /\ call.op = "Wait" => status[slot[t].result] # "started"
        BY <2>1, <4>1 DEF CallOK
      <4>3. status'[slot[t].result] = status[slot[t].result]
        BY <2>1, <4>2
      <4> QED
        BY <1>0, <4>1, <4>3 DEF Pending
    <3> QED
      BY <1>0, <3>1, <3>2, TakenFrame
  <2> QED
    BY <1>2, <1>3, <2>2, <2>3, <2>6
<1> QED
  BY <1>4, <1>5
LEMMA SyncThrowsInv == ASSUME Inv, SyncThrows PROVE Inv'
<1> DEFINE s == call.slot
<1> USE DEF Inv
<1>0. /\ Slots' = Slots /\ call' = NoCall
      /\ UNCHANGED <<hasMemory, layout, slot, memory, blob, inferences, inferRequestIdx, expected, history>>
  BY SlotsStay DEF SyncThrows
<1>1. s \in Slots /\ call.of \in Requests /\ call.at \in {"reclaim", "sync"}
  BY SyncingCall DEF SyncThrows, Syncing
<1>2. status' = IF call.op = "Infer" /\ call.at = "sync"
                THEN [status EXCEPT ![call.of] = "failed"] ELSE status
  BY DEF SyncThrows
<1>3. TypeOK'
  BY <1>0, <1>1, <1>2 DEF TypeOK
<1>4. CallOK'
  BY <1>0 DEF CallOK, NoCall
<1>5. OutputsAreOwn'
  BY <1>0, OutputsFrame
<1>6. MemoryFollows' /\ BlobsUpToDate'
  BY <1>0 DEF MemoryFollows, BlobsUpToDate, HasSlot, IsFree
<1>7. TakenSlotsArePending'
  <2>1. \A t \in Slots : ~IsFree(t)' => ~IsFree(t) /\ slot'[t].result = slot[t].result
    BY <1>0 DEF IsFree
  <2>2. ASSUME NEW t \in Slots, ~IsFree(t)', Pending(slot[t].result, t)
        PROVE  Pending(slot[t].result, t)'
    <3> DEFINE r == slot[t].result
    <3>1. r \in Requests
      BY <2>1, <2>2 DEF OutputsAreOwn
    <3>2. CASE call.op = "Infer" /\ call.at = "sync" /\ r = call.of
      BY <1>0, <1>2, <3>1, <3>2 DEF Pending, TypeOK
    <3>3. CASE ~(call.op = "Infer" /\ call.at = "sync" /\ r = call.of)
      <4>1. status'[r] = status[r]
        BY <1>2, <3>3 DEF TypeOK
      <4> QED
        BY <1>0, <2>2, <3>3, <4>1 DEF Pending, Infering
    <3> QED
      BY <3>2, <3>3
  <2> QED
    BY <1>0, <2>1, <2>2, TakenFrame
<1> QED
  BY <1>3, <1>4, <1>5, <1>6, <1>7

\* The slot is free, its request gets no result, and its blob is not of
\* layout NC.
LEMMA LayoutThrowsInv == ASSUME Inv, LayoutThrows PROVE Inv'
<1> DEFINE s == call.slot
           r == slot[s].result
<1> USE DEF Inv
<1>0. /\ Slots' = Slots /\ call' = NoCall
      /\ UNCHANGED <<hasMemory, layout, memory, blob, inferences, inferRequestIdx, expected, history>>
  BY SlotsStay DEF LayoutThrows
<1>1. /\ s \in Slots /\ call.of \in Requests /\ call.at \in {"reclaim", "sync"}
      /\ slot[s].at = "done" /\ layout[r] # "NC"
  BY SyncingCall DEF LayoutThrows, Syncing, Receiver
<1>2. status' = IF call.op = "Infer" /\ call.at = "sync"
                THEN [status EXCEPT ![call.of] = "thrown"] ELSE status
  BY DEF LayoutThrows
<1>3. /\ slot' \in [Slots -> SlotStates]
      /\ slot'[s].at = "free"
      /\ \A t \in Slots \ {s} : slot'[t] = slot[t]
  BY <1>1 DEF LayoutThrows, Frees, TypeOK, SlotStates
<1>4. TypeOK'
  BY <1>0, <1>1, <1>2, <1>3 DEF TypeOK
<1>5. CallOK'
  BY <1>0 DEF CallOK, NoCall
<1>6. OutputsAreOwn'
  BY <1>0, <1>3, OutputsFrame
<1>7. MemoryFollows'
  BY <1>0, <1>1, <1>3, SlotsAre DEF MemoryFollows
<1>8. BlobsUpToDate'
  <2> SUFFICES ASSUME NEW q \in Requests, ~HasSlot(q)', layout[q] = "NC" PROVE blob[q] = expected[q]
    BY <1>0 DEF BlobsUpToDate
  <2>1. ~HasSlot(q)
    BY <1>0, <1>1, <1>3 DEF HasSlot, IsFree
  <2> QED
    BY <2>1 DEF BlobsUpToDate
<1>9. TakenSlotsArePending'
  <2>1. \A t \in Slots : ~IsFree(t)' => t # s /\ ~IsFree(t) /\ slot'[t] = slot[t]
    BY <1>3 DEF IsFree
  <2>2. ASSUME NEW t \in Slots, ~IsFree(t)', Pending(slot[t].result, t)
        PROVE  Pending(slot[t].result, t)'
    <3> DEFINE q == slot[t].result
    <3>1. t # s /\ ~IsFree(t) /\ q \in Requests /\ slot'[t] = slot[t]
      BY <2>1, <2>2 DEF OutputsAreOwn
    <3>2. ASSUME call.op = "Infer", call.at = "sync" PROVE q # call.of
      <4>1. ~IsFree(s) /\ slot[s].result = call.of
        BY <3>2 DEF CallOK
      <4> QED
        BY <1>1, <3>1, <4>1 DEF TakenSlotsArePending
    <3>3. status'[q] = status[q]
      BY <1>2, <3>2 DEF TypeOK
    <3>4. ~(Infering(q) /\ call.at = "sync")
      BY <3>2 DEF Infering
    <3> QED
      BY <1>0, <2>2, <3>1, <3>3, <3>4 DEF Pending
  <2> QED
    BY <1>0, <2>1, <2>2, TakenFrame
<1> QED
  BY <1>4, <1>5, <1>6, <1>7, <1>8, <1>9

LEMMA ResetInv == ASSUME Inv, Reset PROVE Inv'
<1> USE DEF Inv
<1>0. /\ Slots' = Slots /\ memory' = <<>> /\ history' = <<>> /\ hasMemory
      /\ UNCHANGED <<hasMemory, layout, slot, blob, call, inferences, inferRequestIdx, status, expected>>
      /\ \A s \in Slots : slot[s].at # "running"
  BY SlotsStay DEF Reset, requestVars
<1>1. TypeOK' /\ CallOK'
  BY <1>0 DEF TypeOK, CallOK, IsFree, SlotStates, Calls
<1>2. OutputsAreOwn'
  BY <1>0 DEF OutputsAreOwn, IsFree
<1>3. MemoryFollows'
  BY <1>0, SlotsAre DEF MemoryFollows
<1>4. BlobsUpToDate' /\ TakenSlotsArePending'
  BY <1>0 DEF BlobsUpToDate, HasSlot, TakenSlotsArePending, Pending, Infering, IsFree
<1> QED
  BY <1>1, <1>2, <1>3, <1>4

-----------------------------------------------------------------------------
LEMMA NextInv == ASSUME Inv, [Next]_vars, Reuses = FALSE PROVE Inv'
<1>1. CASE \E r \in Requests : Infers(r, "StartAsync") \/ Infers(r, "Infer") \/ Waits(r)
  BY <1>1, InfersInv, WaitsInv
<1>2. CASE Reclaim \/ Refuse \/ Synced \/ SyncThrows \/ LayoutThrows \/ Reset
  BY <1>2, ReclaimInv, RefuseInv, SyncedInv, SyncThrowsInv, LayoutThrowsInv, ResetInv
<1>3. CASE \E s \in Slots : Propagate(s) \/ PropagateThrows(s) \/ DeviceRuns(s)
  BY <1>3, PropagateInv, PropagateThrowsInv, DeviceRunsInv
<1>4. CASE UNCHANGED vars
  <2> USE DEF Inv
  <2>0. /\ Slots' = Slots
        /\ UNCHANGED <<hasMemory, layout, slot, memory, blob, call, inferences, inferRequestIdx, status, expected, history>>
    BY <1>4, SlotsStay DEF vars, requestVars
  <2>1. TypeOK' /\ CallOK'
    BY <2>0 DEF TypeOK, CallOK, IsFree, SlotStates, Calls
  <2>2. OutputsAreOwn' /\ MemoryFollows' /\ BlobsUpToDate'
    BY <2>0 DEF OutputsAreOwn, MemoryFollows, BlobsUpToDate, HasSlot, IsFree, Result
  <2>3. TakenSlotsArePending'
    BY <2>0 DEF TakenSlotsArePending, Pending, Infering, IsFree
  <2> QED
    BY <2>1, <2>2, <2>3
<1> QED
  BY <1>1, <1>2, <1>3, <1>4 DEF Next

LEMMA ResultsFollow == Inv => ExportedResultsAreOwn
<1> SUFFICES ASSUME Inv, NEW r \in Requests, layout[r] = "NC", status[r] = "idle", ~Infering(r)
             PROVE  blob[r] = expected[r]
  BY DEF ExportedResultsAreOwn, HasOwnResult
<1>1. ~HasSlot(r)
  BY IdleHasNoSlot
<1> QED
  BY <1>1 DEF Inv, BlobsUpToDate

\* As long as no request is used again before it is synced, the invariant
\* holds in every state.
LEMMA Invariant == ASSUME Reuses = FALSE PROVE Spec => []Inv
<1>1. Init => Inv
  BY InitInv
<1>2. Inv /\ [Next]_vars => Inv'
  BY NextInv
<1> QED
  BY <1>1, <1>2, PTL DEF Spec

\* The types of all variables, for any number of requests and slots.
THEOREM SlotsTypeCorrect == ASSUME Reuses = FALSE PROVE Spec => []TypeOK
<1>1. Inv => TypeOK
  BY DEF Inv
<1> QED
  BY <1>1, Invariant, PTL

\* A request with a blob of layout NC whose last inference was waited for has
\* its own result in its blob, whoever waited for the slot, and with the memory of all inferences
\* before it.
THEOREM RequestsGetOwnResults == ASSUME Reuses = FALSE PROVE Spec => []ExportedResultsAreOwn
BY Invariant, ResultsFollow, PTL

\* A taken slot belongs to one request, which is not told of its end yet.
THEOREM SlotsArePending == ASSUME Reuses = FALSE PROVE Spec => []TakenSlotsArePending
<1>1. Inv => TakenSlotsArePending
  BY DEF Inv
<1> QED
  BY <1>1, Invariant, PTL
=============================================================================
