-------------------------- MODULE GNARequestSlots --------------------------
(***************************************************************************)
(* The infer requests of a GNA network and the slots of its device:        *)
(*   gna_plugin/gna_plugin.cpp (QueueInference, Wait, Infer, Reset)        *)
(*   gna_plugin/gna_infer_request.hpp, gna_plugin/gna_device.cpp           *)
(*                                                                         *)
(* The plugin keeps copies of the network (nnets), each with buffers of    *)
(* its own: the slots.  StartAsync() takes the first free slot and leaves  *)
(* its index in the request; Wait() synchronises whatever that slot holds  *)
(* by then, and the request keeps the index afterwards.  A network with    *)
(* memory layers has one slot, and a start synchronises its last inference *)
(* first; other networks refuse a start when no slot is free.              *)
(*                                                                         *)
(* Nothing here is locked, so the calls are those of one thread.  The      *)
(* device runs beside it.  An inference is a number; its result is that    *)
(* number, after the ones that the memory layers remember.  Wait() exports *)
(* it to a blob of layout NC, leaves one of layout CN without it, and      *)
(* throws on any other, when it has freed the slot already.                *)
(***************************************************************************)
EXTENDS Integers, Sequences

CONSTANTS
    Requests,
    NumSlots,       \* gna_lib_async_threads_num
    MaxInferences,  \* bound: the inferences that are tried
    Layouts,        \* the layouts of the output blobs
    Reuses,         \* a request is used again before its inference is synced
    None

ASSUME SlotsAssumption ==
    /\ NumSlots \in Nat \ {0}
    /\ MaxInferences \in Nat
    /\ Reuses \in BOOLEAN
    /\ None \notin Requests \cup Nat

VARIABLES
    hasMemory,  \* memory_connection is not empty; fixed by the load
    layout,     \* the layout of the output blob of each request, set before the first start
    slot,       \* nnets: what each slot does, its input, output and result blobs
    memory,     \* the inferences that the memory layers remember
    inferRequestIdx,
    blob,       \* the output blob of each request
    call,       \* the call that the thread is in
    inferences, \* number of inferences tried
    status,     \* what the calls told of each request
    expected,   \* the result of the last inference that the device took from each request
    history     \* the inferences that the device took since the states were reset

requestVars == <<inferRequestIdx, status, expected>>
vars == <<hasMemory, layout, slot, memory, blob, call, inferences, requestVars, history>>

Slots == IF hasMemory THEN {1} ELSE 1..NumSlots

NoCall == [op |-> "none", of |-> None, at |-> "none", slot |-> None]

SlotStates == [at: {"free", "running", "done"}, in: Nat, out: Seq(Nat), result: Requests \cup {None}]
Calls == [op: {"StartAsync", "Infer", "Wait"}, of: Requests,
          at: {"queue", "reclaim", "sync"}, slot: Slots \cup {None}]

TypeOK ==
    /\ hasMemory \in BOOLEAN
    /\ layout \in [Requests -> Layouts]
    /\ slot \in [Slots -> SlotStates]
    /\ memory \in Seq(Nat)
    /\ inferRequestIdx \in [Requests -> Slots \cup {None}]
    /\ blob \in [Requests -> Seq(Nat)]
    /\ call \in {NoCall} \cup Calls
    /\ inferences \in Nat
    /\ status \in [Requests -> {"idle", "started", "failed", "thrown"}]
    /\ expected \in [Requests -> Seq(Nat)]
    /\ history \in Seq(Nat)

Init ==
    /\ hasMemory \in BOOLEAN
    /\ layout \in [Requests -> Layouts]
    /\ slot = [s \in Slots |-> [at |-> "free", in |-> 0, out |-> <<>>, result |-> None]]
    /\ memory = <<>>
    /\ inferRequestIdx = [r \in Requests |-> None]
    /\ blob = [r \in Requests |-> <<>>]
    /\ call = NoCall
    /\ inferences = 0
    /\ status = [r \in Requests |-> "idle"]
    /\ expected = [r \in Requests |-> <<>>]
    /\ history = <<>>

IsFree(s)  == slot[s].at = "free"
FirstFree(s) == IsFree(s) /\ \A t \in Slots : t < s => ~IsFree(t)

\* What the device computes from an input after a past.
Result(past, n) == IF hasMemory THEN Append(past, n) ELSE <<n>>

-----------------------------------------------------------------------------
\* StartAsync() and Infer() go on in QueueInference().
Infers(r, op) ==
    /\ call = NoCall /\ inferences < MaxInferences
    /\ Reuses \/ status[r] \in {"idle", "thrown"}
    /\ call' = [op |-> op, of |-> r, at |-> "queue", slot |-> None]
    /\ UNCHANGED <<hasMemory, layout, slot, memory, blob, inferences, requestVars, history>>

\* Wait(): a request that was never started is told INFER_NOT_STARTED.
Waits(r) ==
    /\ call = NoCall
    /\ inferRequestIdx[r] # None
    /\ call' = [op |-> "Wait", of |-> r, at |-> "sync", slot |-> inferRequestIdx[r]]
    /\ UNCHANGED <<hasMemory, layout, slot, memory, blob, inferences, requestVars, history>>

Queueing == call.at = "queue"

\* QueueInference() calls Wait(0) when the network has memory layers ...
Reclaim ==
    /\ Queueing /\ hasMemory
    /\ \A s \in Slots : ~IsFree(s)
    /\ call' = [call EXCEPT !.at = "reclaim", !.slot = 1]
    /\ UNCHANGED <<hasMemory, layout, slot, memory, blob, inferences, requestVars, history>>

\* ... and throws REQUEST_BUSY when it has none.
Refuse ==
    /\ Queueing /\ ~hasMemory
    /\ \A s \in Slots : ~IsFree(s)
    /\ call' = NoCall
    /\ UNCHANGED <<hasMemory, layout, slot, memory, blob, inferences, requestVars, history>>

\* The frames are imported into the slot, and the device takes the inference.
Propagate(s) ==
    LET n == inferences + 1 IN
    /\ Queueing /\ FirstFree(s)
    /\ inferences' = n
    /\ slot' = [slot EXCEPT ![s] = [@ EXCEPT !.at = "running", !.in = n, !.result = call.of]]
    /\ expected' = [expected EXCEPT ![call.of] = Result(history, n)]
    /\ history' = Result(history, n)
    /\ IF call.op = "Infer"
       THEN /\ call' = [call EXCEPT !.at = "sync", !.slot = s]
            /\ UNCHANGED <<inferRequestIdx, status>>
       ELSE /\ call' = NoCall
            /\ inferRequestIdx' = [inferRequestIdx EXCEPT ![call.of] = s]
            /\ status' = [status EXCEPT ![call.of] = "started"]
    /\ UNCHANGED <<hasMemory, layout, memory, blob>>

\* The import throws half way, or the device does not take the inference.
PropagateThrows(s) ==
    /\ Queueing /\ FirstFree(s)
    /\ inferences' = inferences + 1
    /\ slot' = [slot EXCEPT ![s].in = inferences + 1]
    /\ call' = NoCall
    /\ UNCHANGED <<hasMemory, layout, memory, blob, requestVars, history>>

\* The device writes the output of a slot, and its memory.
DeviceRuns(s) ==
    /\ slot[s].at = "running"
    /\ slot' = [slot EXCEPT ![s].at = "done", ![s].out = Result(memory, slot[s].in)]
    /\ memory' = IF hasMemory THEN Append(memory, slot[s].in) ELSE memory
    /\ UNCHANGED <<hasMemory, layout, blob, call, inferences, requestVars, history>>

-----------------------------------------------------------------------------
Syncing == call.at \in {"reclaim", "sync"}

\* MUTANT: the scores go to the request that waits.
ReceiverWaits(s) == call.of

\* The result goes to the blobs that the slot was started with.
Receiver(s) == slot[s].result

\* MUTANT: only Wait() of a request frees the slot, Infer() does not.
FreesInWait(s) == slot' = IF call.op = "Infer" /\ call.at = "sync"
                          THEN slot ELSE [slot EXCEPT ![s].at = "free"]

Frees(s) == slot' = [slot EXCEPT ![s].at = "free"]

\* A blob without scores; inferences count from 1.
NoScores == <<0>>

Scores(s) == IF layout[Receiver(s)] = "NC" THEN slot[s].out ELSE NoScores

\* Wait(idx) of the plugin frees the slot and exports the scores, if the blob
\* has the layout for it; it returns at once when the slot was synced before.
Sync(s) ==
    /\ slot[s].at # "running"
    /\ IF IsFree(s)
       THEN UNCHANGED <<slot, blob>>
       ELSE /\ layout[Receiver(s)] \in {"NC", "CN"}
            /\ Frees(s)
            /\ blob' = [blob EXCEPT ![Receiver(s)] = Scores(s)]

\* QueueInference() goes on with the slot, Infer() and Wait() return.
Synced ==
    /\ Syncing /\ Sync(call.slot)
    /\ IF call.at = "reclaim"
       THEN /\ call' = [call EXCEPT !.at = "queue", !.slot = None]
            /\ UNCHANGED status
       ELSE /\ call' = NoCall
            /\ status' = IF call.op = "Wait" /\ status[call.of] = "started"
                         THEN [status EXCEPT ![call.of] = "idle"] ELSE status
    /\ UNCHANGED <<hasMemory, layout, memory, inferences, inferRequestIdx, expected, history>>

\* The device reports an error or a timeout: reqId stays in the slot.
SyncThrows ==
    /\ Syncing /\ ~IsFree(call.slot)
    /\ call' = NoCall
    /\ status' = IF call.op = "Infer" /\ call.at = "sync"
                 THEN [status EXCEPT ![call.of] = "failed"] ELSE status
    /\ UNCHANGED <<hasMemory, layout, slot, memory, blob, inferences, inferRequestIdx, expected, history>>

\* The blob has another layout (or there is more than one): Wait() throws when
\* the slot is free already, so that the next Wait() returns at once.
LayoutThrows ==
    /\ Syncing /\ slot[call.slot].at = "done"
    /\ layout[Receiver(call.slot)] \notin {"NC", "CN"}
    /\ Frees(call.slot)
    /\ call' = NoCall
    /\ status' = IF call.op = "Infer" /\ call.at = "sync"
                 THEN [status EXCEPT ![call.of] = "thrown"] ELSE status
    /\ UNCHANGED <<hasMemory, layout, memory, blob, inferences, inferRequestIdx, expected, history>>

\* Reset() of the memory state, which no client calls while the device runs.
Reset ==
    /\ call = NoCall /\ hasMemory
    /\ \A s \in Slots : slot[s].at # "running"
    /\ memory' = <<>>
    /\ history' = <<>>
    /\ UNCHANGED <<hasMemory, layout, slot, blob, call, inferences, requestVars>>

Next == \/ \E r \in Requests : Infers(r, "StartAsync") \/ Infers(r, "Infer") \/ Waits(r)
        \/ Reclaim \/ Refuse \/ Synced \/ SyncThrows \/ LayoutThrows \/ Reset
        \/ \E s \in Slots : Propagate(s) \/ PropagateThrows(s) \/ DeviceRuns(s)

Spec == Init /\ [][Next]_vars

-----------------------------------------------------------------------------
Infering(r) == call.of = r /\ call.op = "Infer"

HasOwnResult(r) == status[r] = "idle" /\ ~Infering(r) => blob[r] = expected[r]

\* Requests keep the index of a slot that has since gone to others, and wait
\* for what it holds.  Even so, a request with a blob of layout NC whose
\* StartAsync() was waited for, or whose Infer() returned, has the result of
\* its own last inference in its blob; and it follows all inferences since the
\* last reset of the states, in the order in which they were started.  A blob
\* of another layout gets no result, though Wait() returns OK.
ExportedResultsAreOwn == \A r \in Requests : layout[r] = "NC" => HasOwnResult(r)

\* The request has been started in the slot, or failed, or waits in Infer().
Pending(r, s) ==
    \/ status[r] = "started" /\ inferRequestIdx[r] = s
    \/ status[r] = "failed"
    \/ Infering(r) /\ call.at = "sync" /\ call.slot = s

\* A taken slot holds the one inference of a request that has not been told
\* of its end, and that can still wait for it: only a failing Infer() leaves
\* a slot which no Wait() of its own frees.  So a start is refused only while
\* that many requests are not waited for, or have failed.
TakenSlotsArePending ==
    \A s \in Slots : ~IsFree(s) =>
        /\ Pending(slot[s].result, s)
        /\ \A t \in Slots \ {s} : ~IsFree(t) => slot[t].result # slot[s].result
=============================================================================
