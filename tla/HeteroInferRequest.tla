------------------------- MODULE HeteroInferRequest -------------------------
(***************************************************************************)
(* A request of the HETERO plugin:                                         *)
(*   hetero_plugin/hetero_async_infer_request.cpp,                         *)
(*   hetero_plugin/hetero_infer_request.cpp,                               *)
(*   cpp_interfaces/impl/ie_infer_request_internal.hpp (SetBlob)           *)
(*                                                                         *)
(* The network is cut into subgraphs, each with a request of its device.   *)
(* StartAsync() starts the first one; the callback of each starts the next *)
(* one, that of the last one lowers the busy flag and calls the user.  All *)
(* sub-requests that touch a blob share it; a blob that the user sets is   *)
(* handed on by the next start.                                            *)
(*                                                                         *)
(* A sub-request is an AsyncInferRequest: it refuses a start while its     *)
(* inference or its callback is queued, and its task is finished after its *)
(* callback has returned.  The two executors of a device are FIFO.  (A     *)
(* Wait() lowers the flag of the sub-request too; nothing reads that flag  *)
(* before the HETERO flag is down.)                                        *)
(***************************************************************************)
EXTENDS Integers, FiniteSets, FiniteSetsExt

CONSTANTS
    Clients,      \* the threads that use the request
    Callback,     \* the thread that calls the user's callback
    Length,       \* the number of sub-requests
    CpuSubs,      \* those of the CPU and GPU plugins, with their own Infer()
    Names,        \* the blobs between and around the subgraphs
    Topologies,   \* the ways the network may be cut
    UsageChoices, \* the ways the request may be used, sets of Usages
    MaxRounds,    \* BOUND: inferences that are accepted
    MaxBlobs      \* BOUND: blobs that the user sets

\* "callback"  a completion callback is set before the first start
\* "restart"   the callback starts the request again
\* "wait"      a client waits for each result before it goes on
\* "poll"      Wait() may be given STATUS_ONLY or a timeout
\* "infer"     a client calls Infer()
\* "fail"      an inference may throw
\* "set"       a client sets blobs
\* "roi"       the blobs set for inputs need preprocessing
\* "shared"    all clients use the request, not one alone
Usages == {"callback", "restart", "wait", "poll", "infer", "fail", "set", "roi",
           "shared"}

Subs    == 1..Length
Rounds  == 1..MaxRounds
Threads == Clients \cup {Callback}

\* Where a blob comes from and goes to: the subgraph that makes it (0: it is
\* an input of the network), those that read it, "it is a network output".
Wirings == {w \in [from : 0..Length, to : SUBSET Subs, output : BOOLEAN] :
              /\ \A s \in w.to : w.from < s
              /\ IF w.from = 0 THEN ~w.output /\ w.to # {} ELSE w.output \/ w.to # {}}

ASSUME HeteroAssumption ==
    /\ Length \in Nat \ {0}
    /\ CpuSubs \subseteq Subs
    /\ Topologies \subseteq [Names -> Wirings]
    /\ UsageChoices \subseteq SUBSET Usages
    /\ MaxRounds \in Nat /\ MaxBlobs \in Nat
    /\ Clients # {} /\ Callback \notin Clients

VARIABLES
    usage, topology,
    busy,      \* _isRequestBusy of the HETERO request
    blobs,     \* _inputs and _outputs (given), _preProcData (roi), _blobs
               \* (known), and the blob that each sub-request holds (bound)
    phase,     \* how far each sub-request is with its task of each round
    current,   \* the round of the _currentTask of each sub-request; 0: none
    enabled,   \* the sub-request calls its callback
    thread,    \* where each thread is, and its locals
    history    \* for the properties: rounds accepted, the failed tasks, user
               \* callbacks, the blobs set (set), the last of each name
               \* (wanted) and those of the last start (taken)

vars == <<usage, topology, busy, blobs, phase, current, enabled, thread, history>>

Idle == [at |-> "idle", sub |-> 1, round |-> 0, asked |-> 0, mode |-> "ready",
         told |-> "none"]

\* requestBlob(): the sub-requests that touch a blob share the first one's.
Init ==
    /\ usage \in UsageChoices
    /\ topology \in Topologies
    /\ busy = FALSE
    /\ blobs = [given |-> [n \in Names |-> 0], roi |-> [n \in Names |-> 0],
                known |-> [n \in Names |-> 0], bound |-> [s \in Subs |-> [n \in Names |-> 0]]]
    /\ phase = [s \in Subs |-> [r \in Rounds |-> "none"]]
    /\ current = [s \in Subs |-> 0]
    /\ enabled = [s \in Subs |-> TRUE]
    /\ thread = [p \in Threads |-> Idle]
    /\ history = [round |-> 0, failed |-> {}, called |-> 0, set |-> 0,
                  wanted |-> [n \in Names |-> 0], taken |-> [n \in Names |-> 0]]

At(p, place) == thread[p].at = place
GoTo(p, place) == thread' = [thread EXCEPT ![p].at = place]
Move(p, from, to) == At(p, from) /\ GoTo(p, to)

Users == IF "shared" \in usage THEN Clients ELSE {CHOOSE c \in Clients : TRUE}

\* The flag of a sub-request is up until its callback begins.
AtRest(s) == \A r \in Rounds : phase[s][r] \notin {"infer", "queued"}

StartSub(s, r) == /\ phase' = [phase EXCEPT ![s][r] = "infer"]
                  /\ current' = [current EXCEPT ![s] = r]

-----------------------------------------------------------------------------
(* Blobs: SetBlob() and updateInOutIfNeeded()                              *)

IsInput(n)  == topology[n].from = 0
Readers(n)  == topology[n].to

\* The sub-requests that updateInOutIfNeeded() asks about a blob: the readers
\* of an input, the maker of an output.
Askers(n) == IF IsInput(n) THEN Readers(n)
             ELSE IF topology[n].output THEN {topology[n].from} ELSE {}

\* SetBlob() tests the flag of the request ...
SetBlobBegin(c) ==
    /\ c \in Users
    /\ "set" \in usage
    /\ history.set < MaxBlobs
    /\ ~busy
    /\ Move(c, "idle", "setting")
    /\ UNCHANGED <<usage, topology, busy, blobs, phase, current, enabled, history>>

\* ... and keeps the blob.  One that needs preprocessing is kept apart.
SetBlob(c) ==
    /\ Move(c, "setting", "idle")
    /\ \E n \in Names : LET blob == history.set + 1 IN
       /\ Askers(n) # {}
       /\ blobs' = IF "roi" \in usage /\ IsInput(n)
                  THEN [blobs EXCEPT !.roi[n] = blob]
                  ELSE [blobs EXCEPT !.given[n] = blob]
       /\ history' = [history EXCEPT !.set = blob, !.wanted[n] = blob]
    /\ UNCHANGED <<usage, topology, busy, phase, current, enabled>>

\* MUTANT: a blob is handed on only when it is the first one set.
HandedOnOnce ==
    [s \in Subs |-> [n \in Names |->
        IF s \in Askers(n) /\ blobs.known[n] = 0 THEN blobs.given[n] ELSE blobs.bound[s][n]]]

\* The first asker takes the blob and marks it known, so later askers get
\* nothing; one for preprocessing never is the known one and goes to all.
HandedOn ==
    [s \in Subs |-> [n \in Names |->
        IF s \in Askers(n) /\ blobs.roi[n] # 0 THEN blobs.roi[n]
        ELSE IF s \in Askers(n) /\ s = Min(Askers(n)) /\ blobs.given[n] # blobs.known[n]
             THEN blobs.given[n]
        ELSE blobs.bound[s][n]]]

UpdateInOutIfNeeded ==
    /\ blobs' = [blobs EXCEPT
         !.bound = HandedOn,
         !.known = [n \in Names |-> IF Askers(n) = {} THEN @[n] ELSE blobs.given[n]]]
    /\ history' = [history EXCEPT !.taken = history.wanted]

\* A busy sub-request refuses SetBlob(), and the start throws.
RefusesBlob == \E s \in Subs : ~AtRest(s) /\ HandedOn[s] # blobs.bound[s]

-----------------------------------------------------------------------------
(* StartAsync(), by a client or by the callback                            *)

Back(p) == IF p = Callback THEN "calledBack" ELSE "idle"

\* Where the callback starts the request again, the client starts it only
\* once, unless the request is shared by threads that do not agree on this.
MayStart(p) ==
    /\ history.round < MaxRounds
    /\ \/ /\ p \in Users /\ At(p, "idle")
          /\ "restart" \in usage => history.round = 0 \/ "shared" \in usage
       \/ p = Callback /\ At(p, "inCallback") /\ "restart" \in usage

\* The flag is tested here and raised in a later step.
StartAsync(p) ==
    /\ MayStart(p)
    /\ ~busy
    /\ GoTo(p, "raising")
    /\ UNCHANGED <<usage, topology, busy, blobs, phase, current, enabled, history>>

StartRaises(p) ==
    /\ Move(p, "raising", "updating")
    /\ busy' = TRUE
    /\ UNCHANGED <<usage, topology, blobs, phase, current, enabled, history>>

StartUpdates(p) ==
    /\ At(p, "updating")
    /\ IF RefusesBlob THEN GoTo(p, Back(p)) /\ UNCHANGED <<blobs, history>>
                      ELSE GoTo(p, "starting") /\ UpdateInOutIfNeeded
    /\ UNCHANGED <<usage, topology, busy, phase, current, enabled>>

\* startFirstAsyncRequest() may be refused; the flag is not lowered then.
StartFirst(p) ==
    /\ Move(p, "starting", Back(p))
    /\ IF AtRest(1) /\ history.round < MaxRounds
         THEN /\ StartSub(1, history.round + 1)
              /\ history' = [history EXCEPT !.round = @ + 1]
         ELSE UNCHANGED <<phase, current, history>>
    /\ UNCHANGED <<usage, topology, busy, blobs, enabled>>

StartStep(p) == StartRaises(p) \/ StartUpdates(p) \/ StartFirst(p)

-----------------------------------------------------------------------------
(* A sub-request and its callback                                          *)

\* The inference of a task; its callback is queued unless it is turned off.
SubInfers(s) ==
    \E r \in Rounds, ok \in IF "fail" \in usage THEN BOOLEAN ELSE {TRUE} :
       /\ phase[s][r] = "infer"
       /\ phase' = [phase EXCEPT ![s][r] = IF enabled[s] THEN "queued"
                                             ELSE IF ok THEN "done" ELSE "error"]
       /\ history' = IF ok THEN history
                           ELSE [history EXCEPT !.failed = @ \cup {<<s, r>>}]
       /\ UNCHANGED <<usage, topology, busy, blobs, current, enabled, thread>>

\* The callback executor of a device calls one callback at a time, in order.
CallbackBegins(s) ==
    \E r \in Rounds :
       /\ phase[s][r] = "queued"
       /\ \A q \in Rounds : phase[s][q] # "callback" /\ (phase[s][q] = "queued" => r <= q)
       /\ phase' = [phase EXCEPT ![s][r] = "callback"]
       /\ UNCHANGED <<usage, topology, busy, blobs, current, enabled, thread, history>>

Succeeded(s, r) == <<s, r>> \notin history.failed

Ended(s, r) == IF Succeeded(s, r) THEN "done" ELSE "error"

\* MUTANT: the next sub-request is started whatever the status is.
GoesOnAlways(s, r) == TRUE

\* MUTANT: the last sub-request but one does not start the last.
GoesOnBeforeLast(s, r) == Succeeded(s, r) /\ s + 1 < Length

GoesOn(s, r) == Succeeded(s, r)

\* setCallbackSequence(): on OK the callback starts the next sub-request.  If
\* that one refuses, the callback stays here: it is noexcept.
CallbackStartsNext(s) ==
    \E r \in Rounds :
       /\ s < Length
       /\ phase[s][r] = "callback"
       /\ GoesOn(s, r) => AtRest(s + 1)
       /\ phase' = [phase EXCEPT ![s][r] = "called",
                                 ![s + 1][r] = IF GoesOn(s, r) THEN "infer" ELSE @]
       /\ current' = [current EXCEPT ![s + 1] = IF GoesOn(s, r) THEN r ELSE @]
       /\ UNCHANGED <<usage, topology, busy, blobs, enabled, thread, history>>

\* MUTANT: the callback of the user is called for the first inference only.
CallsUserOnce == "callback" \in usage /\ history.called = 0

CallsUser == "callback" \in usage

\* The callback of the last sub-request lowers the flag and calls the user's.
LastCallbackLowers ==
    \E r \in Rounds :
       /\ phase[Length][r] = "callback"
       /\ phase' = [phase EXCEPT ![Length][r] = "called"]
       /\ busy' = FALSE
       /\ IF CallsUser THEN Move(Callback, "idle", "calling") ELSE UNCHANGED thread
       /\ UNCHANGED <<usage, topology, blobs, current, enabled, history>>

UserCallback ==
    /\ Move(Callback, "calling", "inCallback")
    /\ history' = [history EXCEPT !.called = @ + 1]
    /\ UNCHANGED <<usage, topology, busy, blobs, phase, current, enabled>>

\* The user's callback returns, without a start or after one.
CallbackReturns ==
    /\ At(Callback, "inCallback") \/ At(Callback, "calledBack")
    /\ GoTo(Callback, "idle")
    /\ UNCHANGED <<usage, topology, busy, blobs, phase, current, enabled, history>>

\* The task gets its status when the callback has returned.
TaskEnds(s) ==
    \E r \in Rounds :
       /\ phase[s][r] = "called"
       /\ s = Length => At(Callback, "idle")
       /\ phase' = [phase EXCEPT ![s][r] = Ended(s, r)]
       /\ UNCHANGED <<usage, topology, busy, blobs, current, enabled, thread, history>>

SubStep(s) ==
    SubInfers(s) \/ CallbackBegins(s) \/ CallbackStartsNext(s) \/ TaskEnds(s)

CallbackStep == LastCallbackLowers \/ UserCallback \/ CallbackReturns

-----------------------------------------------------------------------------
(* Wait()                                                                  *)

Modes == {"ready", "now", "timed"}

\* Wait() of the first sub-request, for the task it has now.
WaitBegin(c, mode) ==
    /\ c \in Users
    /\ "wait" \in usage
    /\ mode # "ready" => "poll" \in usage
    /\ At(c, "idle")
    /\ thread' = [thread EXCEPT ![c].at = "waiting", ![c].mode = mode, ![c].sub = 1,
                                ![c].round = current[1], ![c].asked = history.round]
    /\ UNCHANGED <<usage, topology, busy, blobs, phase, current, enabled, history>>

\* MUTANT: the wait is over when the first sub-request is done.
WaitStatusOfFirst(s, r) == IF s > 1 \/ r = 0 \/ phase[s][r] = "done" THEN "OK"
                                                  ELSE "RESULT_NOT_READY"

WaitStatus(s, r) == IF r = 0 THEN "INFER_NOT_STARTED"
                    ELSE CASE phase[s][r] = "done"  -> "OK"
                           [] phase[s][r] = "error" -> "GENERAL_ERROR"
                           [] OTHER                 -> "RESULT_NOT_READY"

\* On OK Wait() goes on with the next sub-request, unless the time is up.
WaitSub(c) ==
    LET s == thread[c].sub
        status == WaitStatus(s, thread[c].round)
        Tell(told) == thread' = [thread EXCEPT ![c].at = "lowering", ![c].told = told]
    IN  /\ At(c, "waiting")
        /\ status = "RESULT_NOT_READY" => thread[c].mode # "ready"
        /\ \/ status = "OK" /\ s < Length
              /\ thread' = [thread EXCEPT ![c].sub = s + 1, ![c].round = current[s + 1]]
           \/ (status # "OK" \/ s = Length) /\ Tell(status)
           \/ /\ thread[c].mode = "timed" /\ status # "INFER_NOT_STARTED"
              /\ Tell("RESULT_NOT_READY")
        /\ UNCHANGED <<usage, topology, busy, blobs, phase, current, enabled, history>>

\* MUTANT: Wait() lowers the flag whatever the status is.
NeverKeepsFlag(told) == FALSE

KeepsFlag(told) == told = "RESULT_NOT_READY"

WaitLowers(c) ==
    /\ At(c, "lowering")
    /\ thread' = [thread EXCEPT ![c] = Idle]
    /\ busy' = (busy /\ KeepsFlag(thread[c].told))
    /\ UNCHANGED <<usage, topology, blobs, phase, current, enabled, history>>

-----------------------------------------------------------------------------
(* Infer(): the flag is exchanged, then each sub-request infers in turn.   *)

InferBegin(c) ==
    /\ "infer" \in usage
    /\ MayStart(c)
    /\ ~busy
    /\ busy' = TRUE
    /\ thread' = [thread EXCEPT ![c].at = "inferUpdating", ![c].sub = 1,
                                ![c].round = history.round + 1]
    /\ UNCHANGED <<usage, topology, blobs, phase, current, enabled, history>>

InferUpdates(c) ==
    /\ Move(c, "inferUpdating", "inferStarting")
    /\ UpdateInOutIfNeeded
    /\ UNCHANGED <<usage, topology, busy, phase, current, enabled>>

\* Infer() of a sub-request, which calls no callback.
InferStarts(c) ==
    LET s == thread[c].sub IN
    /\ Move(c, "inferStarting", "inferWaiting")
    /\ AtRest(s)
    /\ enabled' = [enabled EXCEPT ![s] = FALSE]
    /\ StartSub(s, thread[c].round)
    /\ history' = IF s = 1 THEN [history EXCEPT !.round = @ + 1] ELSE history
    /\ UNCHANGED <<usage, topology, busy, blobs>>

\* MUTANT: the loop over the sub-requests goes one too far.
InfersNextOnceMore(s) == s <= Length

InfersNext(s) == s < Length

\* When the inference throws, the CPU and GPU plugins leave their callback
\* disabled (the others never disable it).
InferWaits(c) ==
    LET s  == thread[c].sub
        ok == phase[s][thread[c].round] = "done"
    IN  /\ At(c, "inferWaiting")
        /\ phase[s][thread[c].round] \in {"done", "error"}
        /\ enabled' = [enabled EXCEPT ![s] = ok \/ s \notin CpuSubs]
        /\ thread' = IF ok /\ InfersNext(s)
                       THEN [thread EXCEPT ![c].at = "inferStarting", ![c].sub = s + 1]
                       ELSE [thread EXCEPT ![c].at = "inferLowering"]
        /\ UNCHANGED <<usage, topology, busy, blobs, phase, current, history>>

InferLowers(c) ==
    /\ At(c, "inferLowering")
    /\ thread' = [thread EXCEPT ![c] = Idle]
    /\ busy' = FALSE
    /\ UNCHANGED <<usage, topology, blobs, phase, current, enabled, history>>

InferStep(c) == InferUpdates(c) \/ InferStarts(c) \/ InferWaits(c) \/ InferLowers(c)

-----------------------------------------------------------------------------
ClientStep(c) == SetBlob(c) \/ WaitSub(c) \/ WaitLowers(c) \/ InferStep(c)

Next == \/ \E p \in Threads : StartAsync(p) \/ StartStep(p)
        \/ \E s \in Subs : SubStep(s)
        \/ CallbackStep
        \/ \E c \in Clients : \/ SetBlobBegin(c)
                              \/ \E mode \in Modes : WaitBegin(c, mode)
                              \/ InferBegin(c)
                              \/ ClientStep(c)

(* Fairness: threads inside a call, the devices and the callbacks go on.   *)
Fairness == /\ \A p \in Threads : WF_vars(StartStep(p))
            /\ \A s \in Subs : WF_vars(SubStep(s))
            /\ WF_vars(CallbackStep)
            /\ \A c \in Clients : WF_vars(ClientStep(c))

Spec == Init /\ [][Next]_vars /\ Fairness

-----------------------------------------------------------------------------
Blobs == 0..MaxBlobs

TypeOK ==
    /\ usage \in UsageChoices /\ topology \in Topologies
    /\ busy \in BOOLEAN
    /\ blobs \in [given : [Names -> Blobs], roi : [Names -> Blobs], known : [Names -> Blobs],
                  bound : [Subs -> [Names -> Blobs]]]
    /\ phase \in [Subs -> [Rounds -> {"none", "infer", "queued", "callback", "called",
                                      "done", "error"}]]
    /\ current \in [Subs -> 0..MaxRounds]
    /\ enabled \in [Subs -> BOOLEAN]
    /\ thread \in [Threads -> [
          at : {"idle", "setting", "raising", "updating", "starting", "calling", "inCallback",
                "calledBack", "waiting", "lowering", "inferUpdating", "inferStarting",
                "inferWaiting", "inferLowering"},
          sub : Subs, round : 0..MaxRounds, asked : 0..MaxRounds, mode : Modes,
          told : {"none", "OK", "GENERAL_ERROR", "INFER_NOT_STARTED", "RESULT_NOT_READY"}]]
    /\ history \in [round : 0..MaxRounds, failed : SUBSET (Subs \X Rounds), called : Nat,
                    set : Blobs, wanted : [Names -> Blobs], taken : [Names -> Blobs]]

\* The sub-requests that have inferred in the last round.
Passed == {s \in Subs : history.round # 0 /\ Succeeded(s, history.round)
                        /\ phase[s][history.round] \notin {"none", "infer"}}

\* A sub-request of the last round has failed.
Broken == \E s \in Subs : ~Succeeded(s, history.round)

Chain == INSTANCE SubRequestChain WITH
    round  <- history.round,
    passed <- IF history.round = 0 THEN Length ELSE Cardinality(Passed),
    broken <- Broken

(* One inference passes the sub-requests at a time, in their order: a      *)
(* later one never overtakes it and overwrites the blobs between them.     *)
ImplementsChain == Chain!Spec

(* A callback never finds the next sub-request busy: the exception would   *)
(* leave a noexcept function and end the process.                          *)
NextSubRequestIsFree ==
    \A s \in Subs \ {Length} : \A r \in Rounds :
        phase[s][r] = "callback" /\ Succeeded(s, r) => AtRest(s + 1)

(* When Wait() says OK, every sub-request has made the inference that was  *)
(* the last one when Wait() was called, or a later one.                    *)
WaitOkMeansComplete ==
    \A c \in Clients :
        At(c, "lowering") /\ thread[c].told = "OK" =>
            \A s \in Subs : \E r \in thread[c].asked..MaxRounds :
                r # 0 /\ phase[s][r] = "done"

(* Each inference reads and writes the blobs that the user had set when it *)
(* was started, and what one subgraph makes is what the next ones read.    *)
InferenceUsesItsBlobs ==
    \A s \in Subs, n \in Names : (\E r \in Rounds : phase[s][r] = "infer") =>
        /\ s \in Askers(n) => blobs.bound[s][n] = history.taken[n]
        /\ s \in Readers(n) /\ ~IsInput(n)
             => blobs.bound[s][n] = blobs.bound[topology[n].from][n]

\* No inference and no call of the library is under way.
Quiescent == /\ \A p \in Threads : At(p, "idle")
             /\ \A s \in Subs, r \in Rounds : phase[s][r] \in {"none", "done", "error"}

(* When an asynchronous inference has come to its end, in success or       *)
(* failure, the callback of the user has been called.                      *)
EndMeansCallback ==
    Quiescent /\ "callback" \in usage /\ "infer" \notin usage =>
        history.called = history.round

(* The flag that StartAsync() and Infer() raise is lowered at last, unless *)
(* a sub-request fails: then the callbacks stop before the last one, and   *)
(* only a Wait() lowers it.                                                *)
FlagIsLowered == busy ~> ~busy \/ Broken

(* The flag is up only while somebody works for it: a thread in a start or *)
(* in Infer(), a sub-request that has an inference to make or a callback   *)
(* to call.  Where the chain of the callbacks broke there is nobody.       *)
FlagIsHeldForAReason ==
    busy => \/ \E p \in Threads : thread[p].at \in {"updating", "starting", "inferUpdating",
                                     "inferStarting", "inferWaiting", "inferLowering"}
            \/ \E s \in Subs, r \in Rounds : phase[s][r] \in {"infer", "queued", "callback"}
            \/ Broken

\* The steps of a thread that may have to wait are those of Wait() and of
\* Infer(); SetBlob() needs a blob that somebody asks for.
ThreadGoesOn(p) ==
    LET s == thread[p].sub
        r == thread[p].round
    IN  \/ thread[p].at \notin {"idle", "setting", "waiting", "inferStarting", "inferWaiting"}
        \/ At(p, "setting") /\ \E n \in Names : Askers(n) # {}
        \/ At(p, "waiting") /\ (WaitStatus(s, r) = "RESULT_NOT_READY" => thread[p].mode # "ready")
        \/ At(p, "inferStarting") /\ AtRest(s)
        \/ At(p, "inferWaiting") /\ phase[s][r] \in {"done", "error"}

\* A device always infers.  A callback waits for the one before it, for the
\* next sub-request, or for the thread that calls the user's.
SubGoesOn(s, r) ==
    \/ phase[s][r] = "infer"
    \/ phase[s][r] = "queued" /\ \A q \in Rounds \ {r} : phase[s][q] \notin {"queued", "callback"}
    \/ phase[s][r] = "callback" /\ s < Length /\ (GoesOn(s, r) => AtRest(s + 1))
    \/ phase[s][r] = "callback" /\ s = Length /\ (CallsUser => At(Callback, "idle"))
    \/ phase[s][r] = "called" /\ (s = Length => At(Callback, "idle"))

(* Never does everybody wait for everybody: while an inference or a call   *)
(* of the library is under way, a thread, a device or a callback can go on *)
(* without a timeout.                                                      *)
SomebodyGoesOn ==
    ~Quiescent => \/ \E p \in Threads : ThreadGoesOn(p)
                  \/ \E s \in Subs, r \in Rounds : SubGoesOn(s, r)
=============================================================================
