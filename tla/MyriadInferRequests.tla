------------------------ MODULE MyriadInferRequests ------------------------
(***************************************************************************)
(* The infer requests of networks that share a MYRIAD stick:               *)
(*   vpu/myriad_plugin/myriad_async_infer_request.cpp                      *)
(*   vpu/myriad_plugin/myriad_infer_request.cpp                            *)
(*   vpu/myriad_plugin/myriad_executor.cpp                                 *)
(*   thirdparty/movidius/mvnc/src/mvnc_api.c                               *)
(*                                                                         *)
(* An asynchronous inference has two halves.  The executor of the network  *)
(* writes the input to the input FIFO of the graph, triggers the graph,    *)
(* and hands the request to the executor of results, which reads the       *)
(* output FIFO.  Nothing but the order ties a result to its request: the   *)
(* FIFOs know of no requests.  Infer() does both halves on the thread of   *)
(* the client, under the task synchronizer of the network.  A trigger      *)
(* that is refused leaves its input in the FIFO, for the next trigger.     *)
(*                                                                         *)
(* A network may share its executor (EXCLUSIVE_ASYNC_REQUESTS) and its     *)
(* executor of results (the executors of equal names are one).  The task   *)
(* of a request in detail, its callback and its flag are the business of   *)
(* AsyncInferRequest; a task ends here when its executor is done with it.  *)
(***************************************************************************)
EXTENDS Naturals, Sequences, FiniteSetsExt

CONSTANTS
    Networks, Requests,
    NetworkOf,    \* the network of each request
    FifoElements, \* the size of the FIFOs, at least 2 in allocateGraph()
    MaxStarts,    \* bound: the inferences of all requests together
    MaxRefused,   \* bound: the triggers that a device refuses
    Sharings,     \* the kinds of executors that the networks may share
    Usages        \* how the clients of each network may infer

ASSUME RequestsAssumption ==
    /\ IsFiniteSet(Requests) /\ NetworkOf \in [Requests -> Networks]
    /\ FifoElements \in Nat \ {0}
    /\ Sharings \subseteq SUBSET {"infer", "result"}
    /\ Usages \subseteq [Networks -> SUBSET {"async", "sync"}]

VARIABLES
    shared,   \* the kinds of executors that are shared, fixed at the start
    usage,    \* the usage of each network, fixed at the start
    request,  \* how far each request is, how and how often it was started, its output
    line,     \* the queues of the executors, and of the synchronizers
    input,    \* the input FIFO of each network
    triggers, \* the triggers that the device has not served
    output,   \* the output FIFO of each network
    refused,  \* the triggers of each network that were refused
    linkUp    \* the device answers

fifos == <<input, triggers, output>>
vars  == <<shared, usage, request, line, fifos, refused, linkUp>>

Lines == {"infer", "result", "sync"} \X (Networks \cup {"all"})
Line(kind, n) == <<kind, IF kind \in shared THEN "all" ELSE n>>

Init == /\ shared \in Sharings
        /\ usage \in Usages
        /\ request = [r \in Requests |-> [at |-> "idle", mode |-> "async",
                                          starts |-> 0, result |-> <<>>]]
        /\ line = [l \in Lines |-> <<>>]
        /\ input = [n \in Networks |-> <<>>]
        /\ triggers = [n \in Networks |-> 0]
        /\ output = [n \in Networks |-> <<>>]
        /\ refused = [n \in Networks |-> 0]
        /\ linkUp = TRUE

At(r, place) == request[r].at = place
IsSync(r)    == request[r].mode = "sync"
AtRest(r)    == request[r].at \in {"idle", "done", "failed"}

\* The blobs of the request at this start.
Input(r) == <<r, request[r].starts>>

\* The queue that the request stands in: _taskExecutor and, from the second
\* stage on, _taskExecutorGetResult, or the synchronizer.
LineOf(r) ==
    Line(IF IsSync(r) THEN "sync" ELSE IF At(r, "handed") THEN "result" ELSE "infer", NetworkOf[r])

\* MUTANT: as with two executors of results (_maxTaskExecutorGetResultCount).
ServesOneOfTwo(r) == \E i \in 1..2 : i <= Len(line[LineOf(r)]) /\ line[LineOf(r)][i] = r

\* The thread of the queue serves its head.
Serves(r) == line[LineOf(r)] # <<>> /\ Head(line[LineOf(r)]) = r

Move(r, place) == request' = [request EXCEPT ![r].at = place]

-----------------------------------------------------------------------------
StartCount == MapThenSumSet(LAMBDA q : request[q].starts, Requests)

\* StartAsync() and Infer().
Start(r, mode) ==
    /\ AtRest(r) /\ StartCount < MaxStarts
    /\ mode \in usage[NetworkOf[r]]
    /\ request' = [request EXCEPT ![r] = [at |-> "queued", mode |-> mode,
                                          starts |-> @.starts + 1, result |-> <<>>]]
    /\ line' = [line EXCEPT ![Line(IF mode = "sync" THEN "sync" ELSE "infer", NetworkOf[r])] = Append(@, r)]
    /\ UNCHANGED <<shared, usage, fifos, refused, linkUp>>

Leaves(r) == line' = [line EXCEPT ![LineOf(r)] = Tail(@)]

Fail(r) == Move(r, "failed") /\ Leaves(r)

\* MUTANT: the checks come after the input is written.
ChecksAfterWrite == {"queued", "written"}

\* Preprocessing, the search of the blob, and the test of the size may throw.
Checks == {"queued"}

Throws(r) == /\ request[r].at \in Checks /\ Serves(r)
             /\ Fail(r)
             /\ UNCHANGED <<shared, usage, fifos, refused, linkUp>>

\* ncFifoWriteElem() blocks while the FIFO is full.
WriteElem(r) ==
    LET n == NetworkOf[r] IN
    /\ At(r, "queued") /\ Serves(r) /\ linkUp
    /\ Len(input[n]) < FifoElements
    /\ input' = [input EXCEPT ![n] = Append(@, Input(r))]
    /\ Move(r, "written")
    /\ UNCHANGED <<shared, usage, line, triggers, output, refused, linkUp>>

\* ncGraphQueueInference().
Trigger(r) ==
    /\ At(r, "written") /\ Serves(r) /\ linkUp
    /\ triggers' = [triggers EXCEPT ![NetworkOf[r]] = @ + 1]
    /\ Move(r, "triggered")
    /\ UNCHANGED <<shared, usage, line, input, output, refused, linkUp>>

RefusedCount == MapThenSumSet(LAMBDA n : refused[n], Networks)

\* The device refuses the trigger, or the driver fails on the way to it, and
\* the link is up: queueInference() throws after its input was written, and
\* nothing takes the input back.
TriggerRefused(r) ==
    /\ At(r, "written") /\ Serves(r) /\ linkUp
    /\ RefusedCount < MaxRefused
    /\ refused' = [refused EXCEPT ![NetworkOf[r]] = @ + 1]
    /\ Fail(r)
    /\ UNCHANGED <<shared, usage, fifos, linkUp>>

Joins(r) == line' = [line EXCEPT ![LineOf(r)] = Tail(@),
                                 ![Line("result", NetworkOf[r])] = Append(@, r)]

\* stageDone() and _taskExecutorGetResult->startTask().
HandOver(r) ==
    /\ At(r, "triggered") /\ ~IsSync(r) /\ Serves(r)
    /\ Move(r, "handed")
    /\ Joins(r)
    /\ UNCHANGED <<shared, usage, fifos, refused, linkUp>>

Reads(r) == At(r, "handed") \/ (At(r, "triggered") /\ IsSync(r))

\* GetResult(): ncFifoReadElem() blocks while the FIFO is empty; what comes
\* after it may throw.
GetResult(r) ==
    LET n == NetworkOf[r] IN
    /\ Reads(r) /\ Serves(r) /\ linkUp
    /\ output[n] # <<>>
    /\ output' = [output EXCEPT ![n] = Tail(@)]
    /\ \E outcome \in {"done", "failed"} :
          request' = [request EXCEPT ![r] = [@ EXCEPT !.at = outcome, !.result = Head(output[n])]]
    /\ Leaves(r)
    /\ UNCHANGED <<shared, usage, input, triggers, refused, linkUp>>

\* MUTANT: a lost device does not wake those who read.
WritesOnly(r) == At(r, "queued") \/ At(r, "written")

Calls(r) == At(r, "queued") \/ At(r, "written") \/ Reads(r)

\* Every call to a device that is lost fails, one that is blocked included.
CallFails(r) ==
    /\ ~linkUp /\ Serves(r) /\ Calls(r)
    /\ Fail(r)
    /\ UNCHANGED <<shared, usage, fifos, refused, linkUp>>

-----------------------------------------------------------------------------
\* The device serves the triggers of a graph in their order, ...
DeviceRuns(n) ==
    /\ linkUp /\ triggers[n] > 0
    /\ Len(output[n]) < FifoElements
    /\ input' = [input EXCEPT ![n] = Tail(@)]
    /\ triggers' = [triggers EXCEPT ![n] = @ - 1]
    /\ output' = [output EXCEPT ![n] = Append(@, Head(input[n]))]
    /\ UNCHANGED <<shared, usage, request, line, refused, linkUp>>

\* ... until it is lost.
LinkDown == linkUp /\ linkUp' = FALSE /\ UNCHANGED <<shared, usage, request, line, fifos, refused>>

Progress(r) == WriteElem(r) \/ Trigger(r) \/ HandOver(r) \/ GetResult(r) \/ CallFails(r)

Next == \/ \E r \in Requests : \/ \E mode \in {"async", "sync"} : Start(r, mode)
                               \/ Throws(r)
                               \/ TriggerRefused(r)
                               \/ Progress(r)
        \/ \E n \in Networks : DeviceRuns(n)
        \/ LinkDown

\* The threads run, and so does the device as long as it answers.
Spec == /\ Init /\ [][Next]_vars
        /\ \A r \in Requests : WF_vars(Progress(r))
        /\ \A n \in Networks : WF_vars(DeviceRuns(n))

-----------------------------------------------------------------------------
Places == {"idle", "queued", "written", "triggered", "handed", "done", "failed"}

RequestStates == [at: Places, mode: {"async", "sync"}, starts: Nat,
                  result: (Requests \X Nat) \cup {<<>>}]

TypeOK ==
    /\ shared \in Sharings /\ usage \in Usages
    /\ request \in [Requests -> RequestStates]
    /\ line \in [Lines -> Seq(Requests)]
    /\ input \in [Networks -> Seq(Requests \X Nat)]
    /\ triggers \in [Networks -> Nat]
    /\ output \in [Networks -> Seq(Requests \X Nat)]
    /\ refused \in [Networks -> Nat]
    /\ linkUp \in BOOLEAN

OwnResult(r) == At(r, "done") => request[r].result = Input(r)

(* Clients see the output of the input they specified.  With Infer()       *)
(* beside StartAsync(), or after a refused trigger, they do not.           *)
ResultsMatchInputs == \A r \in Requests : OwnResult(r)

(* Clients see the output of the input they specified, whatever the        *)
(* executors, failures and other requests of the network do, as long as    *)
(* no trigger of the network was refused: GetResult() reads whatever       *)
(* element comes next.                                                     *)
IntactResultsMatch == \A r \in Requests : refused[NetworkOf[r]] = 0 => OwnResult(r)

\* The requests of a network that have written and not read.
InFlight(n) ==
    {r \in Requests : NetworkOf[r] = n /\ request[r].at \in {"written", "triggered", "handed"}}

\* r reads after q: it is not in the executor of results yet, or behind q.
ReadsBefore(q, r) ==
    LET l == line[Line("result", NetworkOf[q])] IN
    /\ At(q, "handed")
    /\ ~At(r, "handed") \/ \E i, j \in 1..Len(l) : i < j /\ l[i] = q /\ l[j] = r

\* The inferences of a graph on their way through the device.
Pipe(n) == output[n] \o input[n]

(* The FIFOs of a graph hold one element for each inference in flight and  *)
(* one for each refused trigger, also after failures, and the triggers     *)
(* leave those for them in the input FIFO.  As long as no trigger was      *)
(* refused the FIFOs hold exactly the inferences in flight, in the order   *)
(* in which they will be read.  One element too many shifts the results of *)
(* all that come after it.                                                 *)
FifosFollowLines ==
    linkUp => \A n \in Networks :
        /\ triggers[n] + refused[n] <= Len(input[n])
        /\ Len(Pipe(n)) = Cardinality(InFlight(n)) + refused[n]
        /\ refused[n] = 0 =>
            /\ {Pipe(n)[i] : i \in 1..Len(Pipe(n))} = {Input(r) : r \in InFlight(n)}
            /\ \A i, j \in 1..Len(Pipe(n)) : \A q, r \in InFlight(n) :
                  i < j /\ Pipe(n)[i] = Input(q) /\ Pipe(n)[j] = Input(r) => ReadsBefore(q, r)

\* The inputs of refused triggers fill the FIFO of a network, and the write
\* that blocks is one of r, or of the executor that r shares.
IsJammed(r) ==
    \E n \in Networks : /\ refused[n] >= FifoElements
                        /\ n = NetworkOf[r] \/ (~IsSync(r) /\ "infer" \in shared)

(* Every start ends, with a result or an exception, unless refused         *)
(* triggers have filled the input FIFO for good: no executor waits for a   *)
(* FIFO that only it, or a request behind it, can fill or empty, and a     *)
(* device that is lost fails those who wait for it.                        *)
EveryStartEnds == \A r \in Requests : ~AtRest(r) ~> AtRest(r) \/ IsJammed(r)
=============================================================================
